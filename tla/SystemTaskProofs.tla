-------------------------- MODULE SystemTaskProofs --------------------------
(***************************************************************************)
(* Machine-checked proofs about SystemTask, for every number of runners    *)
(* and rows, every lease length and interval, and with claims that may     *)
(* stall for longer than the lease they took: the leases exclude each      *)
(* other, and the tasks of the type are run as TaskQueue promises.         *)
(***************************************************************************)
EXTENDS SystemTask, Sequences, TLAPS

USE BoundsAssumption, NoneAssumption DEF TaskIds

\* The initial state satisfies the inductive invariant.
LEMMA LeaseInvInit == Init => LeaseInv
  BY DEF Init, LeaseInv, TypeOK, RowsInOrder, CallsTimed, DispatchedByStarter,
         ClaimHoldsLock, RunHoldsLock, Idle, NoLock, NoHandler, TaskRow, LockRow,
         TaskStatus, ActiveStatus, LoopState, LoopPc, HandlerState, Claiming, Claimed

\* A lock row is either absent or names a task, a runner and a time.
LEMMA LockFields ==
  ASSUME NEW l \in LockRow \cup {NoLock}
  PROVE  /\ l.until \in Nat
         /\ l # NoLock => l.task \in TaskIds /\ l.by \in Runners
         /\ l.task \in TaskIds => l # NoLock
         /\ l.task \in TaskIds \cup {None}
  BY DEF LockRow, NoLock

\* A freshly taken or a renewed lock is a lock row.
LEMMA LockTaken ==
  ASSUME NEW t \in TaskIds, NEW r \in Runners, NEW u \in Nat
  PROVE  [task |-> t, by |-> r, until |-> u] \in LockRow
  BY DEF LockRow

\* The locals of a pass: the resting states, and a change of position.
LEMMA IdleType == ASSUME NEW p \in LoopPc PROVE Idle(p) \in LoopState
  BY DEF Idle, LoopState

LEMMA LoopType ==
  ASSUME NEW p \in LoopPc, NEW a \in Nat, NEW c \in TaskIds \cup {None},
         NEW l \in LockRow \cup {NoLock}
  PROVE  [pc |-> p, at |-> a, cand |-> c, seen |-> l] \in LoopState
  BY DEF LoopState

LEMMA LoopFields ==
  ASSUME NEW l \in LoopState
  PROVE  /\ l.pc \in LoopPc /\ l.at \in Nat /\ l.cand \in TaskIds \cup {None}
         /\ l.seen \in LockRow \cup {NoLock}
  BY DEF LoopState

LEMMA GotoType ==
  ASSUME loop \in [Runners -> LoopState], NEW r \in Runners, NEW p \in LoopPc, Goto(r, p)
  PROVE  loop' \in [Runners -> LoopState]
<1>1. [loop[r] EXCEPT !.pc = p] \in LoopState
  BY DEF LoopState
<1>2. loop' = [loop EXCEPT ![r] = [loop[r] EXCEPT !.pc = p]]
  BY DEF Goto
<1>3. QED
  BY <1>1, <1>2

LEMMA NextPassType ==
  ASSUME loop \in [Runners -> LoopState], NEW r \in Runners, NextPass(r)
  PROVE  loop' \in [Runners -> LoopState]
  BY IdleType DEF NextPass, LoopPc

\* Rows: every update of the code keeps a row well formed.
LEMMA RowType ==
  ASSUME task \in [TaskIds -> TaskRow], NEW t \in TaskIds, NEW s \in TaskStatus, NEW n \in Nat
  PROVE  /\ [task EXCEPT ![t].status = s, ![t].updatedAt = n] \in [TaskIds -> TaskRow]
         /\ [task EXCEPT ![t].updatedAt = n] \in [TaskIds -> TaskRow]
  BY DEF TaskRow

LEMMA MarkType ==
  ASSUME TypeOK, NEW t, MarkSystemTaskLeaseExpired(t)
  PROVE  task' \in [TaskIds -> TaskRow]
  BY RowType DEF MarkSystemTaskLeaseExpired, TypeOK, TaskStatus

LEMMA CreateType ==
  ASSUME TypeOK, CreateSystemTask
  PROVE  task' \in [TaskIds -> TaskRow] /\ created' \in 0..MaxTask
<1>1. [status |-> "pending", by |-> None, updatedAt |-> now] \in TaskRow
  BY DEF TypeOK, TaskRow, TaskStatus, ActiveStatus
<1>2. CASE ActiveTasks = {} /\ created < MaxTask
  <2>1. created + 1 \in TaskIds
    BY <1>2 DEF TypeOK
  <2>2. QED
    BY <1>1, <1>2, <2>1 DEF CreateSystemTask, TypeOK
<1>3. QED
  BY <1>2 DEF CreateSystemTask, TypeOK

LEMMA ReleaseType ==
  ASSUME TypeOK, NEW r, NEW t, ReleaseSystemTaskLock(r, t)
  PROVE  lock' \in LockRow \cup {NoLock}
  BY DEF TypeOK, ReleaseSystemTaskLock

\* Handlers: what each step writes is a handler state.
LEMMA HandlerType ==
  ASSUME NEW h \in HandlerState, NEW u \in Nat
  PROVE  /\ Ended(h) \in HandlerState
         /\ [st |-> "run", beat |-> TRUE, until |-> u] \in HandlerState
         /\ [h EXCEPT !.until = u] \in HandlerState
         /\ [h EXCEPT !.beat = FALSE] \in HandlerState
         /\ [h EXCEPT !.st = "release"] \in HandlerState
  BY DEF HandlerState, Ended

\* One cell of the handler table is replaced.
LEMMA HandlerCell ==
  ASSUME handler \in [Runners -> [TaskIds -> HandlerState]],
         NEW r \in Runners, NEW t \in TaskIds, NEW h \in HandlerState
  PROVE  [handler EXCEPT ![r][t] = h] \in [Runners -> [TaskIds -> HandlerState]]
  OBVIOUS

\* Every step keeps the variables within their types.
LEMMA TypeStep == TypeOK /\ CallsTimed /\ [Next]_vars => TypeOK'
<1> SUFFICES ASSUME TypeOK, CallsTimed, [Next]_vars PROVE TypeOK'
  OBVIOUS
<1> USE DEF TypeOK
<1>a. ASSUME NEW r \in Runners, Claiming(r)
      PROVE  [task |-> loop[r].cand, by |-> r, until |-> LockUntil(loop[r].at)] \in LockRow
  <2>1. loop[r].cand \in TaskIds
    BY <1>a DEF CallsTimed
  <2>2. loop[r].at \in Nat
    BY LoopFields
  <2>3. LockUntil(loop[r].at) \in Nat
    BY <2>2, BoundsAssumption DEF LockUntil
  <2>4. QED
    BY <2>1, <2>3, LockTaken
<1>0. "schedule" \in LoopPc /\ "scan" \in LoopPc /\ "dead" \in LoopPc
  BY DEF LoopPc
<1>1. ASSUME NEW r \in Runners, ScanLocks(r) PROVE TypeOK'
  <2>1. loop' \in [Runners -> LoopState]
    <3>1. [pc |-> "mark", at |-> now, cand |-> None, seen |-> lock] \in LoopState
      BY DEF LoopState, LoopPc
    <3>2. QED
      BY <1>0, <1>1, <3>1, GotoType DEF ScanLocks
  <2>2. QED
    BY <1>1, <2>1 DEF ScanLocks
<1>2. ASSUME NEW r \in Runners, MarkStale(r) PROVE TypeOK'
  BY <1>2, MarkType, GotoType DEF MarkStale, LoopPc
<1>3. ASSUME NEW r \in Runners, DeleteStale(r) PROVE TypeOK'
  BY <1>0, <1>3, IdleType DEF DeleteStale
<1>4. ASSUME NEW r \in Runners, SkipScan(r) PROVE TypeOK'
  BY <1>0, <1>4, IdleType DEF SkipScan
<1>5. ASSUME NEW r \in Runners, Schedule(r) PROVE TypeOK'
  BY <1>5, GotoType DEF Schedule, LoopPc
<1>6. ASSUME NEW r \in Runners, SchedulerCreate(r) PROVE TypeOK'
  BY <1>6, CreateType, GotoType DEF SchedulerCreate, LoopPc
<1>7. ASSUME NEW r \in Runners, ClaimRead(r) PROVE TypeOK'
  <2>1. \A t \in TaskIds :
          [pc |-> "insert", at |-> now, cand |-> t, seen |-> NoLock] \in LoopState
    BY DEF LoopState, LoopPc
  <2>2. QED
    BY <1>7, <2>1, NextPassType DEF ClaimRead
<1>8. ASSUME NEW r \in Runners, InsertLock(r) PROVE TypeOK'
  <2>1. Claiming(r)
    BY <1>8 DEF InsertLock, Claiming
  <2>2. QED
    BY <1>8, <1>a, <2>1, GotoType DEF InsertLock, LoopPc
<1>9. ASSUME NEW r \in Runners, ReadExistingLock(r) PROVE TypeOK'
  <2>1. [loop[r] EXCEPT !.pc = "takeover", !.seen = lock] \in LoopState
    BY DEF LoopState, LoopPc
  <2>2. [loop EXCEPT ![r].pc = "takeover", ![r].seen = lock]
          = [loop EXCEPT ![r] = [loop[r] EXCEPT !.pc = "takeover", !.seen = lock]]
    OBVIOUS
  <2>3. QED
    BY <1>9, <2>1, <2>2, NextPassType DEF ReadExistingLock
<1>10. ASSUME NEW r \in Runners, TakeOverLock(r) PROVE TypeOK'
  <2>1. Claiming(r)
    BY <1>10 DEF TakeOverLock, Claiming
  <2>2. QED
    BY <1>10, <1>a, <2>1, GotoType, NextPassType DEF TakeOverLock, LoopPc
<1>11. ASSUME NEW r \in Runners, MarkOld(r) PROVE TypeOK'
  BY <1>11, MarkType, GotoType DEF MarkOld, LoopPc
<1>12. ASSUME NEW r \in Runners, StartTask(r) PROVE TypeOK'
  <2>1. loop[r].cand \in TaskIds /\ loop[r].at \in Nat
    BY <1>12, LoopFields DEF StartTask, CallsTimed, Claiming
  <2>2. [status |-> "running", by |-> r, updatedAt |-> loop[r].at] \in TaskRow
    BY <2>1 DEF TaskRow, TaskStatus, ActiveStatus
  <2>3. [st |-> "run", beat |-> TRUE, until |-> LockUntil(loop[r].at)] \in HandlerState
    BY <2>1 DEF LockUntil, HandlerState
  <2>4. task' \in [TaskIds -> TaskRow]
    BY <1>12, <2>1, <2>2 DEF StartTask
  <2>5. handler' \in [Runners -> [TaskIds -> HandlerState]]
    <3>1. [handler EXCEPT ![r][loop[r].cand] =
             [st |-> "run", beat |-> TRUE, until |-> LockUntil(loop[r].at)]]
               \in [Runners -> [TaskIds -> HandlerState]]
      BY <2>1, <2>3, HandlerCell
    <3>2. QED
      BY <1>12, <3>1 DEF StartTask
  <2>6. QED
    BY <1>12, <2>4, <2>5, GotoType, NextPassType DEF StartTask, LoopPc
<1>13. ASSUME NEW r \in Runners, ReleaseClaim(r) PROVE TypeOK'
  BY <1>13, NextPassType, ReleaseType DEF ReleaseClaim
<1>14. ASSUME NEW r \in Runners, Crash(r) PROVE TypeOK'
  <2>1. [t \in TaskIds |-> Ended(handler[r][t])] \in [TaskIds -> HandlerState]
    <3>1. \A h \in HandlerState : Ended(h) \in HandlerState
      BY HandlerType
    <3>2. QED
      BY <3>1
  <2>2. QED
    BY <1>0, <1>14, <2>1, IdleType DEF Crash
<1>15. ASSUME NEW r \in Runners, NEW t \in TaskIds, HandlerStep(r, t) PROVE TypeOK'
  <2>0. handler[r][t] \in HandlerState
    OBVIOUS
  <2>1. CASE Renew(r, t)
    <3>1. ASSUME NEW u \in Nat, lock.task = t,
                 lock' = [lock EXCEPT !.until = u]
          PROVE  lock' \in LockRow
      <4>1. lock \in LockRow
        BY <3>1 DEF NoLock
      <4>2. QED
        BY <3>1, <4>1 DEF LockRow
    <3>2. ASSUME NEW u \in Nat, handler' = [handler EXCEPT ![r][t].until = u]
          PROVE  handler' \in [Runners -> [TaskIds -> HandlerState]]
      <4>1. handler' = [handler EXCEPT ![r][t] = [handler[r][t] EXCEPT !.until = u]]
        BY <3>2
      <4>2. QED
        BY <2>0, <4>1, HandlerType, HandlerCell
    <3>3. ASSUME handler' = [handler EXCEPT ![r][t].beat = FALSE]
          PROVE  handler' \in [Runners -> [TaskIds -> HandlerState]]
      <4>1. handler' = [handler EXCEPT ![r][t] = [handler[r][t] EXCEPT !.beat = FALSE]]
        BY <3>3
      <4>2. QED
        BY <2>0, <4>1, HandlerType, HandlerCell
    <3>4. QED
      <4>1. CASE lock' = lock /\ handler' = [handler EXCEPT ![r][t].beat = FALSE]
        BY <2>1, <3>3, <4>1 DEF Renew
      <4>2. ASSUME NEW stamp \in 1..now, HoldsLock(r, t, stamp),
                   lock' = [lock EXCEPT !.until = LockUntil(stamp)],
                   handler' = [handler EXCEPT ![r][t].until = LockUntil(stamp)]
            PROVE  TypeOK'
        <5>1. LockUntil(stamp) \in Nat
          BY DEF LockUntil
        <5>2. lock' \in LockRow
          BY <3>1, <4>2, <5>1 DEF HoldsLock
        <5>3. QED
          BY <2>1, <3>2, <4>2, <5>1, <5>2 DEF Renew
      <4>3. QED
        BY <2>1, <4>1, <4>2 DEF Renew
  <2>2. CASE UpdateSystemTaskState(r, t)
    <3>1. PICK stamp \in task[t].updatedAt..now : task' = [task EXCEPT ![t].updatedAt = stamp]
      BY <2>2 DEF UpdateSystemTaskState
    <3>2. stamp \in Nat
      <4>1. task[t].updatedAt \in Nat
        BY DEF TaskRow
      <4>2. QED
        BY <3>1, <4>1
    <3>3. QED
      BY <2>2, <3>1, <3>2, RowType DEF UpdateSystemTaskState, TaskStatus
  <2>3. CASE AbandonRun(r, t)
    BY <2>0, <2>3, HandlerType, HandlerCell DEF AbandonRun
  <2>4. CASE FinishRelease(r, t)
    BY <2>0, <2>4, HandlerType, HandlerCell, ReleaseType DEF FinishRelease
  <2>5. ASSUME NEW s \in {"succeeded", "failed"}, FinishSystemTask(r, t, s) PROVE TypeOK'
    <3>1. PICK stamp \in task[t].updatedAt..now :
             task' = [task EXCEPT ![t].status = s, ![t].updatedAt = stamp]
      BY <2>5 DEF FinishSystemTask
    <3>2. stamp \in Nat /\ s \in TaskStatus
      <4>1. task[t].updatedAt \in Nat
        BY DEF TaskRow
      <4>2. QED
        BY <3>1, <4>1 DEF TaskStatus
    <3>3. handler' = [handler EXCEPT ![r][t] = [handler[r][t] EXCEPT !.st = "release"]]
      BY <2>5 DEF FinishSystemTask
    <3>4. [handler[r][t] EXCEPT !.st = "release"] \in HandlerState
      BY <2>0 DEF HandlerState
    <3>5. handler' \in [Runners -> [TaskIds -> HandlerState]]
      BY <3>3, <3>4, HandlerCell
    <3>6. task' \in [TaskIds -> TaskRow]
      BY <3>1, <3>2, RowType
    <3>7. QED
      BY <2>5, <3>5, <3>6 DEF FinishSystemTask
  <2>6. QED
    BY <1>15, <2>1, <2>2, <2>3, <2>4, <2>5 DEF HandlerStep
<1>16. CASE Enqueue
  BY <1>16, CreateType DEF Enqueue
<1>17. CASE Tick
  BY <1>17 DEF Tick
<1>18. CASE UNCHANGED vars
  BY <1>18 DEF vars
<1>19. QED
  BY <1>1, <1>2, <1>3, <1>4, <1>5, <1>6, <1>7, <1>8, <1>9, <1>10, <1>11, <1>12,
     <1>13, <1>14, <1>15, <1>16, <1>17, <1>18 DEF Next, LoopStep

\* What the changes of a pass's position do to the locals of the runners.
LEMMA GotoEffect ==
  ASSUME TypeOK, NEW r \in Runners, NEW p, Goto(r, p)
  PROVE  /\ \A q \in Runners : q # r => loop'[q] = loop[q]
         /\ loop'[r].pc = p /\ loop'[r].at = loop[r].at
         /\ loop'[r].cand = loop[r].cand /\ loop'[r].seen = loop[r].seen
<1>1. loop \in [Runners -> LoopState]
  BY DEF TypeOK
<1>2. loop' = [loop EXCEPT ![r] = [loop[r] EXCEPT !.pc = p]]
  BY <1>1 DEF Goto
<1>3. \A q \in Runners : q # r => loop'[q] = loop[q]
  BY <1>1, <1>2
<1>4. loop'[r] = [loop[r] EXCEPT !.pc = p]
  BY <1>1, <1>2
<1>5. loop[r] \in LoopState
  BY <1>1
<1>6. /\ loop'[r].pc = p /\ loop'[r].at = loop[r].at
      /\ loop'[r].cand = loop[r].cand /\ loop'[r].seen = loop[r].seen
  BY <1>4, <1>5 DEF LoopState
<1>7. QED
  BY <1>3, <1>6

LEMMA IdleEffect ==
  ASSUME TypeOK, NEW r \in Runners, NEW p, loop' = [loop EXCEPT ![r] = Idle(p)]
  PROVE  /\ \A q \in Runners : q # r => loop'[q] = loop[q]
         /\ loop'[r].pc = p /\ loop'[r].at = 0
  BY DEF TypeOK, Idle

LEMMA NextPassEffect ==
  ASSUME TypeOK, NEW r \in Runners, NextPass(r)
  PROVE  /\ \A q \in Runners : q # r => loop'[q] = loop[q]
         /\ loop'[r].pc = "scan" /\ loop'[r].at = 0
  BY IdleEffect DEF NextPass

LEMMA ReadExistingEffect ==
  ASSUME TypeOK, NEW r \in Runners,
         loop' = [loop EXCEPT ![r].pc = "takeover", ![r].seen = lock]
  PROVE  /\ \A q \in Runners : q # r => loop'[q] = loop[q]
         /\ loop'[r].pc = "takeover" /\ loop'[r].at = loop[r].at
         /\ loop'[r].cand = loop[r].cand
<1>1. loop \in [Runners -> LoopState]
  BY DEF TypeOK
<1>2. loop' = [loop EXCEPT ![r] = [loop[r] EXCEPT !.pc = "takeover", !.seen = lock]]
  BY <1>1
<1>3. \A q \in Runners : q # r => loop'[q] = loop[q]
  BY <1>1, <1>2
<1>4. loop'[r] = [loop[r] EXCEPT !.pc = "takeover", !.seen = lock]
  BY <1>1, <1>2
<1>5. loop[r] \in LoopState
  BY <1>1
<1>6. /\ loop'[r].pc = "takeover" /\ loop'[r].at = loop[r].at
      /\ loop'[r].cand = loop[r].cand
  BY <1>4, <1>5 DEF LoopState
<1>7. QED
  BY <1>3, <1>6

\* How one loop step moves the locals of a claim: the other runners' locals
\* stay, timestamps come from the clock, and a claim keeps its candidate and
\* timestamp until it ends.
LEMMA LoopEffect ==
  ASSUME TypeOK, CallsTimed, NEW r \in Runners, LoopStep(r) \/ Crash(r)
  PROVE  /\ \A q \in Runners : q # r => loop'[q] = loop[q]
         /\ loop'[r].at \in {loop[r].at, now, 0}
         /\ Claiming(r)' => \/ /\ Claiming(r)
                               /\ loop'[r].cand = loop[r].cand
                               /\ loop'[r].at = loop[r].at
                            \/ /\ loop'[r].pc = "insert"
                               /\ loop'[r].cand \in TaskIds
                               /\ loop'[r].at = now
                               /\ task[loop'[r].cand].status = "pending"
                               /\ UNCHANGED <<task, lock, handler>>
         /\ UNCHANGED now
<1> USE DEF Claiming
<1>1. CASE ScanLocks(r)
  BY <1>1, GotoEffect DEF ScanLocks, TypeOK
<1>2. CASE MarkStale(r)
  BY <1>2, GotoEffect DEF MarkStale
<1>3. CASE DeleteStale(r)
  BY <1>3, IdleEffect DEF DeleteStale
<1>4. CASE SkipScan(r)
  BY <1>4, IdleEffect DEF SkipScan
<1>5. CASE Schedule(r)
  BY <1>5, GotoEffect DEF Schedule
<1>6. CASE SchedulerCreate(r)
  BY <1>6, GotoEffect DEF SchedulerCreate
<1>7. CASE ClaimRead(r)
  BY <1>7, NextPassEffect DEF ClaimRead, TypeOK
<1>8. CASE InsertLock(r)
  BY <1>8, GotoEffect DEF InsertLock
<1>9. CASE ReadExistingLock(r)
  BY <1>9, ReadExistingEffect, NextPassEffect DEF ReadExistingLock
<1>10. CASE TakeOverLock(r)
  BY <1>10, GotoEffect, NextPassEffect DEF TakeOverLock
<1>11. CASE MarkOld(r)
  BY <1>11, GotoEffect DEF MarkOld
<1>12. CASE StartTask(r)
  BY <1>12, GotoEffect, NextPassEffect DEF StartTask
<1>13. CASE ReleaseClaim(r)
  BY <1>13, NextPassEffect DEF ReleaseClaim
<1>14. CASE Crash(r)
  <2>1. loop' = [loop EXCEPT ![r] = Idle("dead")] /\ UNCHANGED now
    BY <1>14 DEF Crash
  <2>2. loop'[r].pc = "dead" /\ loop'[r].at = 0
    BY <2>1, IdleEffect
  <2>3. \A q \in Runners : q # r => loop'[q] = loop[q]
    BY <2>1, IdleEffect
  <2>4. QED
    BY <2>1, <2>2, <2>3
<1>15. QED
  BY <1>1, <1>2, <1>3, <1>4, <1>5, <1>6, <1>7, <1>8, <1>9, <1>10, <1>11, <1>12,
     <1>13, <1>14 DEF LoopStep

\* Timestamps held by calls stay in the past, and claims keep a candidate.
LEMMA CallsStep == TypeOK /\ CallsTimed /\ [Next]_vars => CallsTimed'
<1> SUFFICES ASSUME TypeOK, CallsTimed, [Next]_vars PROVE CallsTimed'
  OBVIOUS
<1>0. now \in Nat /\ \A q \in Runners : loop[q].at \in Nat
  BY LoopFields DEF TypeOK
<1>1. ASSUME NEW r \in Runners, LoopStep(r) \/ Crash(r) PROVE CallsTimed'
  <2> SUFFICES ASSUME NEW q \in Runners
               PROVE  loop'[q].at <= now' /\ (Claiming(q)' => loop'[q].cand \in TaskIds)
    BY DEF CallsTimed
  <2>1. CASE q = r
    BY <1>0, <1>1, <2>1, LoopEffect DEF CallsTimed
  <2>2. CASE q # r
    BY <1>1, <2>2, LoopEffect DEF CallsTimed, Claiming
  <2>3. QED
    BY <2>1, <2>2
<1>2. ASSUME UNCHANGED loop, now' \in {now, now + 1} PROVE CallsTimed'
  BY <1>0, <1>2 DEF CallsTimed, Claiming
<1>3. ASSUME NEW r \in Runners, NEW t \in TaskIds, HandlerStep(r, t) PROVE CallsTimed'
  BY <1>2, <1>3 DEF HandlerStep, Renew, UpdateSystemTaskState, AbandonRun, FinishRelease,
                    FinishSystemTask
<1>4. QED
  BY <1>1, <1>2, <1>3 DEF Next, Enqueue, Tick, vars

\* The life of a row: it is inserted pending, started by the runner that
\* claims it, and then finished or expired; nothing else happens to its
\* status or its owner.
RowStep(t) ==
    \/ task'[t].status = task[t].status /\ task'[t].by = task[t].by
    \/ t = created + 1 /\ task'[t].status = "pending" /\ created' = created + 1
    \/ /\ task[t].status = "running" /\ task'[t].status \in {"succeeded", "failed"}
       /\ task'[t].by = task[t].by
    \/ \E r \in Runners : /\ loop[r].pc = "start" /\ loop[r].cand = t
                          /\ task[t].status = "pending"
                          /\ task'[t].status = "running" /\ task'[t].by = r

LEMMA MarkEffect ==
  ASSUME TypeOK, NEW u, MarkSystemTaskLeaseExpired(u), UNCHANGED created,
         NEW t \in TaskIds
  PROVE  RowStep(t)
  BY DEF TypeOK, MarkSystemTaskLeaseExpired, RowStep, TaskRow

LEMMA CreateEffect ==
  ASSUME TypeOK, CreateSystemTask, NEW t \in TaskIds
  PROVE  RowStep(t) /\ created' \in {created, created + 1}
<1>1. CASE ActiveTasks = {} /\ created < MaxTask
  <2>1. task' = [task EXCEPT ![created + 1] =
                   [status |-> "pending", by |-> None, updatedAt |-> now]]
    BY <1>1 DEF CreateSystemTask
  <2>2. created' = created + 1
    BY <1>1 DEF CreateSystemTask
  <2>3. created + 1 \in TaskIds
    BY <1>1 DEF TypeOK
  <2>4. QED
    BY <2>1, <2>2, <2>3 DEF TypeOK, RowStep
<1>2. QED
  BY <1>1 DEF CreateSystemTask, RowStep

LEMMA RowEffect ==
  ASSUME TypeOK, CallsTimed, [Next]_vars, NEW t \in TaskIds
  PROVE  RowStep(t) /\ created' \in {created, created + 1}
<1>1. ASSUME UNCHANGED <<task, created>> PROVE RowStep(t) /\ created' = created
  BY <1>1 DEF RowStep
<1>2. ASSUME NEW r \in Runners, LoopStep(r) \/ Crash(r)
      PROVE  RowStep(t) /\ created' \in {created, created + 1}
  <2>1. CASE MarkStale(r) \/ MarkOld(r)
    BY <2>1, <1>1, MarkEffect DEF MarkStale, MarkOld
  <2>2. CASE SchedulerCreate(r)
    BY <2>2, CreateEffect DEF SchedulerCreate
  <2>3. CASE StartTask(r)
    <3>1. loop[r].cand \in TaskIds
      BY <2>3 DEF StartTask, CallsTimed, Claiming
    <3>2. QED
      BY <1>1, <2>3, <3>1 DEF StartTask, RowStep, TypeOK
  <2>4. QED
    BY <1>1, <1>2, <2>1, <2>2, <2>3
       DEF LoopStep, ScanLocks, DeleteStale, SkipScan, Schedule, ClaimRead, InsertLock,
           ReadExistingLock, TakeOverLock, ReleaseClaim, Crash
<1>3. ASSUME NEW r \in Runners, NEW u \in TaskIds, HandlerStep(r, u)
      PROVE  RowStep(t) /\ created' \in {created, created + 1}
  <2>1. CASE UpdateSystemTaskState(r, u)
    <3>1. PICK stamp : task' = [task EXCEPT ![u].updatedAt = stamp]
      BY <2>1 DEF UpdateSystemTaskState
    <3>2. QED
      BY <2>1, <3>1 DEF UpdateSystemTaskState, RowStep, TypeOK, TaskRow
  <2>2. ASSUME NEW s \in {"succeeded", "failed"}, FinishSystemTask(r, u, s)
        PROVE  RowStep(t) /\ created' = created
    <3>1. PICK stamp : /\ task' = [task EXCEPT ![u].status = s, ![u].updatedAt = stamp]
                       /\ task[u].status = "running"
      BY <2>2 DEF FinishSystemTask, Owns
    <3>2. QED
      BY <2>2, <3>1 DEF FinishSystemTask, RowStep, TypeOK, TaskRow
  <2>3. QED
    BY <1>1, <1>3, <2>1, <2>2 DEF HandlerStep, Renew, AbandonRun, FinishRelease
<1>4. QED
  BY <1>1, <1>2, <1>3, CreateEffect DEF Next, Enqueue, Tick, vars

\* Rows are created in order.
LEMMA RowsStep == TypeOK /\ CallsTimed /\ RowsInOrder /\ [Next]_vars => RowsInOrder'
  BY RowEffect DEF RowsInOrder, RowStep, TypeOK

\* How a step can touch the goroutines of runner q for task u.
Dispatch(q, u) == /\ StartTask(q) /\ loop[q].cand = u
                  /\ task[u].status = "pending"
                  /\ handler'[q][u].until = LockUntil(loop[q].at)

Renewal(q, u) == /\ lock.task = u /\ lock.by = q
                 /\ lock' = [lock EXCEPT !.until = handler'[q][u].until]
                 /\ handler[q][u].st \in {"run", "release"}

LEMMA HandlerEffect ==
  ASSUME TypeOK, CallsTimed, [Next]_vars, NEW q \in Runners, NEW u \in TaskIds,
         handler'[q][u].st # "none"
  PROVE  \/ Dispatch(q, u)
         \/ Renewal(q, u)
         \/ /\ handler[q][u].st # "none"
            /\ handler'[q][u].st \in {"run", "release"} =>
                 /\ handler[q][u].st \in {"run", "release"}
                 /\ handler'[q][u].until = handler[q][u].until
<1> DEFINE Kept == /\ handler[q][u].st # "none"
                   /\ handler'[q][u].st \in {"run", "release"} =>
                        /\ handler[q][u].st \in {"run", "release"}
                        /\ handler'[q][u].until = handler[q][u].until
<1>0. handler \in [Runners -> [TaskIds -> HandlerState]]
  BY DEF TypeOK
<1>1. ASSUME UNCHANGED handler PROVE Kept
  BY <1>1
<1>2. ASSUME NEW h, NEW r \in Runners, NEW t \in TaskIds,
             handler' = [handler EXCEPT ![r][t] = h]
      PROVE  IF q = r /\ u = t THEN handler'[q][u] = h
             ELSE handler'[q][u] = handler[q][u]
  BY <1>0, <1>2
<1>3. ASSUME NEW r \in Runners, StartTask(r) PROVE Dispatch(q, u) \/ Kept
  <2>1. loop[r].cand \in TaskIds
    BY <1>3 DEF StartTask, CallsTimed, Claiming
  <2>2. CASE UNCHANGED handler
    BY <1>1, <2>2
  <2>3. CASE handler' = [handler EXCEPT ![r][loop[r].cand] =
                 [st |-> "run", beat |-> TRUE, until |-> LockUntil(loop[r].at)]]
             /\ task[loop[r].cand].status = "pending"
    BY <1>2, <1>3, <2>1, <2>3 DEF Dispatch
  <2>4. QED
    BY <1>3, <2>2, <2>3 DEF StartTask
<1>4. ASSUME NEW r \in Runners, Crash(r) PROVE Kept
  BY <1>0, <1>4 DEF Crash, Ended
<1>5. ASSUME NEW r \in Runners, NEW t \in TaskIds, HandlerStep(r, t)
      PROVE  Renewal(q, u) \/ Kept
  <2>0. handler[r][t] \in HandlerState
    BY <1>0
  <2>1. CASE Renew(r, t)
    <3>1. CASE handler' = [handler EXCEPT ![r][t].beat = FALSE]
      <4>1. handler' = [handler EXCEPT ![r][t] = [handler[r][t] EXCEPT !.beat = FALSE]]
        BY <3>1, <1>0
      <4>2. QED
        BY <1>2, <2>0, <4>1 DEF HandlerState
    <3>2. ASSUME NEW stamp, HoldsLock(r, t, stamp),
                 lock' = [lock EXCEPT !.until = LockUntil(stamp)],
                 handler' = [handler EXCEPT ![r][t].until = LockUntil(stamp)]
          PROVE  Renewal(q, u) \/ Kept
      <4>1. handler' = [handler EXCEPT ![r][t] =
                          [handler[r][t] EXCEPT !.until = LockUntil(stamp)]]
        BY <3>2, <1>0
      <4>2. CASE q = r /\ u = t
        <5>1. handler'[q][u].until = LockUntil(stamp)
          <6>1. handler'[q][u] = [handler[r][t] EXCEPT !.until = LockUntil(stamp)]
            BY <1>2, <4>1, <4>2
          <6>2. QED
            BY <2>0, <6>1 DEF HandlerState
        <5>2. QED
          BY <2>1, <3>2, <4>2, <5>1 DEF Renewal, HoldsLock, Renew
      <4>3. CASE ~(q = r /\ u = t)
        BY <1>2, <4>1, <4>3
      <4>4. QED
        BY <4>2, <4>3
    <3>3. QED
      BY <2>1, <3>1, <3>2 DEF Renew
  <2>2. CASE AbandonRun(r, t) \/ FinishRelease(r, t)
    <3>1. handler' = [handler EXCEPT ![r][t] = Ended(handler[r][t])]
      BY <2>2, <1>0 DEF AbandonRun, FinishRelease
    <3>2. handler[r][t].st # "none"
      BY <2>2 DEF AbandonRun, FinishRelease
    <3>3. QED
      BY <1>2, <3>1, <3>2 DEF Ended
  <2>3. ASSUME NEW s, FinishSystemTask(r, t, s) PROVE Kept
    <3>1. handler' = [handler EXCEPT ![r][t] = [handler[r][t] EXCEPT !.st = "release"]]
      BY <2>3, <1>0 DEF FinishSystemTask
    <3>2. QED
      BY <1>2, <2>0, <2>3, <3>1 DEF HandlerState, FinishSystemTask
  <2>4. QED
    BY <1>1, <1>5, <2>1, <2>2, <2>3 DEF HandlerStep, UpdateSystemTaskState
<1>6. QED
  BY <1>1, <1>3, <1>4, <1>5
     DEF Next, LoopStep, ScanLocks, MarkStale, DeleteStale, SkipScan, Schedule,
         SchedulerCreate, ClaimRead, InsertLock, ReadExistingLock, TakeOverLock, MarkOld,
         ReleaseClaim, Enqueue, Tick, vars

\* A dispatched task keeps its starter, and its starter never claims it again.
LEMMA DispatchStep ==
  TypeOK /\ CallsTimed /\ RowsInOrder /\ DispatchedByStarter /\ [Next]_vars
     => DispatchedByStarter'
<1> SUFFICES ASSUME TypeOK, CallsTimed, RowsInOrder, DispatchedByStarter, [Next]_vars,
                    NEW q \in Runners, NEW u \in TaskIds, handler'[q][u].st # "none"
             PROVE  /\ task'[u].by = q
                    /\ task'[u].status \notin {"none", "pending"}
                    /\ ~(Claiming(q)' /\ loop'[q].cand = u)
  BY DEF DispatchedByStarter
<1>0. loop \in [Runners -> LoopState] /\ created \in Nat
  BY DEF TypeOK
<1>1. CASE Dispatch(q, u)
  <2>1. CASE task' = task
    <3>1. UNCHANGED handler
      BY <1>0, <1>1, <2>1 DEF Dispatch, StartTask, TypeOK, TaskRow, CallsTimed, Claiming
    <3>2. QED
      BY <1>1, <3>1 DEF Dispatch, DispatchedByStarter
  <2>2. CASE task' # task
    <3>1. /\ task' = [task EXCEPT ![u] = [status |-> "running", by |-> q,
                                          updatedAt |-> loop[q].at]]
          /\ NextPass(q)
      BY <1>1, <2>2 DEF Dispatch, StartTask
    <3>2. loop'[q].pc = "scan"
      BY <3>1, NextPassEffect
    <3>3. QED
      BY <3>1, <3>2 DEF TypeOK, Claiming
  <2>3. QED
    BY <2>1, <2>2
<1>2. CASE handler[q][u].st # "none"
  <2>1. /\ task[u].by = q /\ task[u].status \notin {"none", "pending"}
        /\ ~(Claiming(q) /\ loop[q].cand = u)
    BY <1>2 DEF DispatchedByStarter
  <2>2. task'[u].by = q /\ task'[u].status \notin {"none", "pending"}
    BY <1>0, <2>1, RowEffect DEF RowStep, RowsInOrder
  <2>3. ASSUME NEW r \in Runners, LoopStep(r) \/ Crash(r)
        PROVE  ~(Claiming(q)' /\ loop'[q].cand = u)
    <3>1. CASE q = r
      BY <2>1, <2>3, <3>1, LoopEffect
    <3>2. CASE q # r
      BY <2>1, <2>3, <3>2, LoopEffect DEF Claiming
    <3>3. QED
      BY <3>1, <3>2
  <2>4. ASSUME UNCHANGED loop PROVE ~(Claiming(q)' /\ loop'[q].cand = u)
    BY <2>1, <2>4 DEF Claiming
  <2>5. ~(Claiming(q)' /\ loop'[q].cand = u)
    BY <2>3, <2>4 DEF Next, HandlerStep, Renew, UpdateSystemTaskState, AbandonRun,
                      FinishRelease, FinishSystemTask, Enqueue, Tick, vars
  <2>6. QED
    BY <2>2, <2>5
<1>3. QED
  BY <1>1, <1>2, HandlerEffect DEF Renewal

\* While the lease on the lock lasts, the lock row changes only by a release
\* or a renewal of the run or the claim that owns it: a scan and a takeover
\* look for locks older than a timestamp of the past.
LEMMA LockEffect ==
  ASSUME TypeOK, CallsTimed, [Next]_vars, lock # NoLock, now <= lock.until
  PROVE  \/ lock' = lock
         \/ \E r \in Runners : ReleaseClaim(r) /\ lock.by = r /\ lock.task = loop[r].cand
         \/ \E r \in Runners, t \in TaskIds :
               /\ FinishRelease(r, t) \/ Renew(r, t)
               /\ lock.by = r /\ lock.task = t
<1>0. /\ lock.until \in Nat /\ now \in Nat
      /\ \A r \in Runners : loop[r].at \in Nat /\ loop[r].at <= now
  BY LockFields, LoopFields DEF TypeOK, CallsTimed
<1>1. ASSUME NEW r \in Runners, LoopStep(r) \/ Crash(r)
      PROVE  lock' = lock \/ (ReleaseClaim(r) /\ lock.by = r /\ lock.task = loop[r].cand)
  <2>1. CASE DeleteStale(r)
    BY <1>0, <2>1 DEF DeleteStale
  <2>2. CASE InsertLock(r)
    BY <2>2 DEF InsertLock
  <2>3. CASE TakeOverLock(r)
    BY <1>0, <2>3 DEF TakeOverLock
  <2>4. CASE ReleaseClaim(r)
    BY <2>4 DEF ReleaseClaim, ReleaseSystemTaskLock
  <2>5. QED
    BY <1>1, <2>1, <2>2, <2>3, <2>4
       DEF LoopStep, ScanLocks, MarkStale, SkipScan, Schedule, SchedulerCreate, ClaimRead,
           ReadExistingLock, MarkOld, StartTask, Crash
<1>2. ASSUME NEW r \in Runners, NEW t \in TaskIds, HandlerStep(r, t)
      PROVE  \/ lock' = lock
             \/ (FinishRelease(r, t) \/ Renew(r, t)) /\ lock.by = r /\ lock.task = t
  BY <1>2 DEF HandlerStep, Renew, HoldsLock, UpdateSystemTaskState, AbandonRun,
              FinishRelease, ReleaseSystemTaskLock, FinishSystemTask
<1>3. QED
  BY <1>1, <1>2 DEF Next, Enqueue, Tick, vars

\* A claim keeps the lock it took for as long as the lease lasts.
LEMMA ClaimHoldsStep == LeaseInv /\ [Next]_vars => ClaimHoldsLock'
<1> SUFFICES ASSUME LeaseInv, [Next]_vars, NEW q \in Runners, Claimed(q)',
                    now' <= LockUntil(loop'[q].at)
             PROVE  lock' = [task |-> loop'[q].cand, by |-> q,
                             until |-> LockUntil(loop'[q].at)]
  BY DEF ClaimHoldsLock
<1> USE DEF LeaseInv
<1>0. /\ now \in Nat /\ now' \in {now, now + 1} /\ loop[q].at \in Nat
      /\ loop \in [Runners -> LoopState]
  <2>1. now \in Nat /\ loop[q].at \in Nat /\ loop \in [Runners -> LoopState]
    BY LoopFields DEF TypeOK
  <2>2. now' \in {now, now + 1}
    BY LoopEffect DEF Next, HandlerStep, Renew, UpdateSystemTaskState, AbandonRun,
                      FinishRelease, FinishSystemTask, Enqueue, Tick, vars
  <2>3. QED
    BY <2>1, <2>2
<1>1. CASE InsertLock(q) \/ TakeOverLock(q)
  <2>1. CASE InsertLock(q)
    BY <2>1, GotoEffect DEF InsertLock, Claimed
  <2>2. CASE TakeOverLock(q)
    BY <2>2, GotoEffect, NextPassEffect DEF TakeOverLock, Claimed
  <2>3. QED
    BY <1>1, <2>1, <2>2
<1>2. ASSUME Claimed(q), loop'[q].cand = loop[q].cand, loop'[q].at = loop[q].at,
             ~ReleaseClaim(q)
      PROVE  lock' = [task |-> loop'[q].cand, by |-> q, until |-> LockUntil(loop'[q].at)]
  <2>1. now <= LockUntil(loop[q].at)
    BY <1>0, <1>2 DEF LockUntil
  <2>2. lock = [task |-> loop[q].cand, by |-> q, until |-> LockUntil(loop[q].at)]
    BY <1>2, <2>1 DEF ClaimHoldsLock
  <2>3. loop[q].cand \in TaskIds /\ handler[q][loop[q].cand].st = "none"
    BY <1>2 DEF Claimed, Claiming, CallsTimed, DispatchedByStarter
  <2>4. lock # NoLock /\ now <= lock.until
    BY <2>1, <2>2, <2>3 DEF NoLock
  <2>5. lock' = lock
    BY <1>2, <2>2, <2>3, <2>4, LockEffect DEF FinishRelease, Renew
  <2>6. QED
    BY <1>2, <2>2, <2>5
<1>3. ASSUME NEW r \in Runners, LoopStep(r) \/ Crash(r), ~InsertLock(q), ~TakeOverLock(q)
      PROVE  /\ Claimed(q) /\ loop'[q].cand = loop[q].cand /\ loop'[q].at = loop[q].at
             /\ ~ReleaseClaim(q)
  <2>1. CASE r # q
    <3>1. loop'[q] = loop[q]
      BY <1>3, <2>1, LoopEffect
    <3>2. ~ReleaseClaim(q)
      BY <3>1, NextPassEffect DEF ReleaseClaim, Claimed
    <3>3. QED
      BY <3>1, <3>2 DEF Claimed
  <2>2. CASE r = q
    <3>1. CASE MarkOld(q)
      BY <3>1, GotoEffect DEF MarkOld, Claimed, ReleaseClaim
    <3>2. CASE StartTask(q)
      BY <3>2, GotoEffect, NextPassEffect DEF StartTask, Claimed, ReleaseClaim
    <3>3. CASE ~MarkOld(q) /\ ~StartTask(q)
      <4>1. loop'[q].pc \notin {"markOld", "start", "release"}
        BY <1>3, <2>2, <3>3, GotoEffect, IdleEffect, NextPassEffect, ReadExistingEffect, <1>0
           DEF LoopStep, ScanLocks, MarkStale, DeleteStale, SkipScan, Schedule,
               SchedulerCreate, ClaimRead, ReadExistingLock, ReleaseClaim, Crash
      <4>2. QED
        BY <4>1 DEF Claimed
    <3>4. QED
      BY <3>1, <3>2, <3>3
  <2>3. QED
    BY <2>1, <2>2
<1>4. ASSUME UNCHANGED loop
      PROVE  /\ Claimed(q) /\ loop'[q].cand = loop[q].cand /\ loop'[q].at = loop[q].at
             /\ ~ReleaseClaim(q)
  <2>1. ~ReleaseClaim(q)
    BY <1>4, NextPassEffect DEF ReleaseClaim, Claimed
  <2>2. QED
    BY <1>4, <2>1 DEF Claimed
<1>5. QED
  BY <1>1, <1>2, <1>3, <1>4
     DEF Next, HandlerStep, Renew, UpdateSystemTaskState, AbandonRun, FinishRelease,
         FinishSystemTask, Enqueue, Tick, vars

\* A dispatched run keeps the lock for as long as its last lease lasts.
LEMMA RunHoldsStep == LeaseInv /\ [Next]_vars => RunHoldsLock'
<1> SUFFICES ASSUME LeaseInv, [Next]_vars, NEW q \in Runners, NEW u \in TaskIds,
                    handler'[q][u].st \in {"run", "release"},
                    now' <= handler'[q][u].until
             PROVE  lock' = [task |-> u, by |-> q, until |-> handler'[q][u].until]
  BY DEF RunHoldsLock
<1> USE DEF LeaseInv
<1>0. /\ now \in Nat /\ now' \in {now, now + 1}
      /\ handler[q][u].until \in Nat /\ loop[q].at \in Nat
      /\ handler[q][u] \in HandlerState /\ lock \in LockRow \cup {NoLock}
  <2>1. /\ now \in Nat /\ loop[q].at \in Nat /\ handler[q][u] \in HandlerState
        /\ lock \in LockRow \cup {NoLock}
    BY LoopFields DEF TypeOK
  <2>2. now' \in {now, now + 1}
    BY LoopEffect DEF Next, HandlerStep, Renew, UpdateSystemTaskState, AbandonRun,
                      FinishRelease, FinishSystemTask, Enqueue, Tick, vars
  <2>3. QED
    BY <2>1, <2>2 DEF HandlerState
<1>1. CASE Dispatch(q, u)
  <2>1. Claimed(q) /\ now' = now /\ lock' = lock
    BY <1>1 DEF Dispatch, StartTask, Claimed
  <2>2. lock = [task |-> u, by |-> q, until |-> LockUntil(loop[q].at)]
    BY <1>1, <2>1 DEF ClaimHoldsLock, Dispatch
  <2>3. QED
    BY <1>1, <2>1, <2>2 DEF Dispatch
<1>2. CASE Renewal(q, u)
  <2>1. lock \in LockRow
    BY <1>0, <1>2 DEF Renewal, NoLock
  <2>2. QED
    BY <1>2, <2>1 DEF Renewal, LockRow
<1>3. CASE /\ handler[q][u].st \in {"run", "release"}
           /\ handler'[q][u].until = handler[q][u].until
  <2>1. lock = [task |-> u, by |-> q, until |-> handler[q][u].until]
    BY <1>0, <1>3 DEF RunHoldsLock
  <2>2. lock # NoLock /\ now <= lock.until
    BY <1>0, <1>3, <2>1 DEF NoLock
  <2>3. ~(ReleaseClaim(q) /\ lock.task = loop[q].cand)
    BY <1>3, <2>1 DEF ReleaseClaim, DispatchedByStarter, Claiming
  <2>4. ~FinishRelease(q, u)
    BY <1>0 DEF FinishRelease, Ended, TypeOK
  <2>5. CASE lock' = lock
    BY <1>3, <2>1, <2>5
  <2>6. CASE Renew(q, u) /\ lock' # lock
    <3>1. PICK stamp \in 1..now :
             /\ lock' = [lock EXCEPT !.until = LockUntil(stamp)]
             /\ handler' = [handler EXCEPT ![q][u].until = LockUntil(stamp)]
      BY <2>6 DEF Renew
    <3>2. handler'[q][u].until = LockUntil(stamp)
      <4>1. handler' = [handler EXCEPT ![q][u] =
                          [handler[q][u] EXCEPT !.until = LockUntil(stamp)]]
        BY <3>1 DEF TypeOK
      <4>2. handler'[q][u] = [handler[q][u] EXCEPT !.until = LockUntil(stamp)]
        BY <4>1 DEF TypeOK
      <4>3. QED
        BY <1>0, <4>2 DEF HandlerState
    <3>3. QED
      BY <2>1, <3>1, <3>2
  <2>7. QED
    BY <2>1, <2>2, <2>3, <2>4, <2>5, <2>6, LockEffect
<1>4. QED
  BY <1>1, <1>2, <1>3, HandlerEffect

\* The lease invariant is inductive.
LEMMA LeaseInvStep == LeaseInv /\ [Next]_vars => LeaseInv'
  BY TypeStep, CallsStep, RowsStep, DispatchStep, ClaimHoldsStep, RunHoldsStep DEF LeaseInv

\* The lease invariant holds in every reachable state.
LEMMA LeaseInvariant == Spec => []LeaseInv
  BY LeaseInvInit, LeaseInvStep, PTL DEF Spec

-----------------------------------------------------------------------------

\* The tables, the passes and the goroutines keep their types
\* (model/system_task.go, service/system_task.go).
THEOREM TypeCorrect == Spec => []TypeOK
<1>1. LeaseInv => TypeOK
  BY DEF LeaseInv
<1>2. QED
  BY <1>1, LeaseInvariant, PTL

\* The per-type lock excludes overlapping handlers for as long as their
\* leases last, although claims, scans, takeovers and heartbeats act on rows
\* they read earlier (acquireSystemTaskLock, ExpireStaleSystemTaskLocks,
\* RenewSystemTaskLock).
THEOREM Exclusion == Spec => []MutualExclusion
<1>1. LeaseInv => MutualExclusion
  <2> SUFFICES ASSUME LeaseInv, NEW r1 \in Runners, NEW r2 \in Runners,
                      NEW t1 \in TaskIds, NEW t2 \in TaskIds,
                      Leased(r1, t1), Leased(r2, t2)
               PROVE  r1 = r2 /\ t1 = t2
    BY DEF MutualExclusion
  <2>1. lock = [task |-> t1, by |-> r1, until |-> handler[r1][t1].until]
    BY DEF LeaseInv, RunHoldsLock, Leased
  <2>2. lock = [task |-> t2, by |-> r2, until |-> handler[r2][t2].until]
    BY DEF LeaseInv, RunHoldsLock, Leased
  <2>3. QED
    BY <2>1, <2>2
<1>2. QED
  BY <1>1, LeaseInvariant, PTL

\* A task is dispatched by one runner only (the update pending -> running of
\* ClaimSystemTask), whatever happens to the lock during the claim.
THEOREM DispatchedOnce == Spec => []RunsOnce
<1>1. LeaseInv => RunsOnce
  BY DEF LeaseInv, DispatchedByStarter, RunsOnce
<1>2. QED
  BY <1>1, LeaseInvariant, PTL

\* A finished row is never rewritten (the status conditions of
\* FinishSystemTask, MarkSystemTaskLeaseExpired and ClaimSystemTask).
THEOREM FinalOutcome == Spec => OutcomeIsFinal
<1>1. LeaseInv /\ [Next]_vars =>
        [\A t \in TaskIds : task[t].status \in {"succeeded", "failed"} =>
            task'[t].status = task[t].status]_vars
  <2> SUFFICES ASSUME LeaseInv, [Next]_vars, NEW t \in TaskIds,
                      task[t].status \in {"succeeded", "failed"}
               PROVE  task'[t].status = task[t].status
    OBVIOUS
  <2>1. t # created + 1
    BY DEF LeaseInv, RowsInOrder, TypeOK
  <2>2. QED
    BY <2>1, RowEffect DEF RowStep, LeaseInv
<1>2. QED
  BY <1>1, LeaseInvariant, PTL DEF Spec, OutcomeIsFinal

-----------------------------------------------------------------------------
(* The runner implements TaskQueue.                                        *)

\* Every row but the newest is over.
FinishedRows == \A t \in TaskIds : /\ t < created => task[t].status \in {"succeeded", "failed"}
                                   /\ t = created => task[t].status # "none"

\* What a step does to the rows' status.
Creating == /\ ActiveTasks = {} /\ created < MaxTask
            /\ created' = created + 1
            /\ task' = [task EXCEPT ![created + 1] =
                          [status |-> "pending", by |-> None, updatedAt |-> now]]

Moving(u, status) == /\ UNCHANGED created
                     /\ task'[u].status = status
                     /\ \A t \in TaskIds : t # u => task'[t].status = task[t].status

Ending(u) == /\ task[u].status = "running"
             /\ \E status \in {"succeeded", "failed"} : Moving(u, status)

Resting == UNCHANGED created /\ \A t \in TaskIds : task'[t].status = task[t].status

LEMMA CreateMoves ==
  ASSUME CreateSystemTask
  PROVE  Creating \/ Resting
  BY DEF CreateSystemTask, Creating, Resting

LEMMA MarkMoves ==
  ASSUME TypeOK, NEW u, MarkSystemTaskLeaseExpired(u), UNCHANGED created
  PROVE  Resting \/ \E t \in TaskIds : Ending(t)
<1>1. CASE u \in TaskIds /\ task[u].status = "running"
  <2>1. task'[u].status = "failed" /\ \A t \in TaskIds : t # u => task'[t].status = task[t].status
    BY <1>1 DEF MarkSystemTaskLeaseExpired, TypeOK, TaskRow
  <2>2. QED
    BY <1>1, <2>1 DEF Ending, Moving
<1>2. QED
  BY <1>1 DEF MarkSystemTaskLeaseExpired, Resting

LEMMA StartMoves ==
  ASSUME TypeOK, CallsTimed, NEW r \in Runners, StartTask(r), ~Resting
  PROVE  /\ loop[r].cand \in TaskIds /\ task[loop[r].cand].status = "pending"
         /\ Moving(loop[r].cand, "running")
<1> DEFINE t == loop[r].cand
<1>1. t \in TaskIds
  BY DEF StartTask, CallsTimed, Claiming
<1>2. /\ task[t].status = "pending" /\ UNCHANGED created
      /\ task' = [task EXCEPT ![t] = [status |-> "running", by |-> r, updatedAt |-> loop[r].at]]
  BY DEF StartTask, Resting
<1>3. QED
  BY <1>1, <1>2 DEF Moving, TypeOK

LEMMA FinishMoves ==
  ASSUME TypeOK, NEW r \in Runners, NEW u \in TaskIds, NEW s \in {"succeeded", "failed"},
         FinishSystemTask(r, u, s)
  PROVE  Ending(u)
<1>1. PICK stamp : /\ task' = [task EXCEPT ![u].status = s, ![u].updatedAt = stamp]
                   /\ task[u].status = "running"
  BY DEF FinishSystemTask, Owns
<1>2. task'[u].status = s /\ \A t \in TaskIds : t # u => task'[t].status = task[t].status
  BY <1>1 DEF TypeOK, TaskRow
<1>3. QED
  BY <1>1, <1>2 DEF FinishSystemTask, Ending, Moving

\* A goroutine that has been dispatched stays so, and no other is.
LEMMA SameDispatched ==
  ASSUME \A r \in Runners, t \in TaskIds : handler'[r][t].st = "none" <=> handler[r][t].st = "none"
  PROVE  Dispatched' = Dispatched
  BY DEF Dispatched

LEMMA StillDispatched ==
  ASSUME TypeOK, [Next]_vars, \A r \in Runners : ~StartTask(r)
  PROVE  Dispatched' = Dispatched
<1>0. handler \in [Runners -> [TaskIds -> HandlerState]]
  BY DEF TypeOK
<1>1. ASSUME UNCHANGED handler PROVE Dispatched' = Dispatched
  BY <1>1 DEF Dispatched
<1>2. ASSUME NEW r \in Runners, LoopStep(r) PROVE Dispatched' = Dispatched
  BY <1>1, <1>2
     DEF LoopStep, ScanLocks, MarkStale, DeleteStale, SkipScan, Schedule, SchedulerCreate, ClaimRead,
         InsertLock, ReadExistingLock, TakeOverLock, MarkOld, ReleaseClaim
<1>3. ASSUME NEW r \in Runners, Crash(r) PROVE Dispatched' = Dispatched
  <2>1. handler' = [handler EXCEPT ![r] = [t \in TaskIds |-> Ended(handler[r][t])]]
    BY <1>3 DEF Crash
  <2>2. ASSUME NEW q \in Runners, NEW t \in TaskIds
        PROVE  handler'[q][t].st = "none" <=> handler[q][t].st = "none"
    BY <1>0, <2>1 DEF Ended
  <2>3. QED
    BY <2>2, SameDispatched
<1>4. ASSUME NEW r \in Runners, NEW u \in TaskIds, HandlerStep(r, u) PROVE Dispatched' = Dispatched
  <2>1. \/ UNCHANGED handler
        \/ /\ handler[r][u].st # "none"
           /\ \/ \E x : handler' = [handler EXCEPT ![r][u].until = x]
              \/ handler' = [handler EXCEPT ![r][u].beat = FALSE]
              \/ handler' = [handler EXCEPT ![r][u].st = "release"]
              \/ handler' = [handler EXCEPT ![r][u] = Ended(@)]
    BY <1>4 DEF HandlerStep, Renew, UpdateSystemTaskState, AbandonRun, FinishRelease, FinishSystemTask
  <2>2. handler'[r][u].st # "none" \/ UNCHANGED handler
    BY <1>0, <2>1 DEF Ended, HandlerState
  <2>3. ASSUME NEW q \in Runners, NEW t \in TaskIds
        PROVE  handler'[q][t].st = "none" <=> handler[q][t].st = "none"
    <3>1. (q # r \/ t # u) => handler'[q][t] = handler[q][t]
      BY <1>0, <2>1
    <3>2. QED
      BY <2>1, <2>2, <3>1
  <2>4. QED
    BY <2>3, SameDispatched
<1>5. QED
  BY <1>1, <1>2, <1>3, <1>4 DEF Next, Enqueue, Tick, vars

\* The steps of the runner, as the queue sees them.
LEMMA Moves ==
  ASSUME TypeOK, CallsTimed, [Next]_vars
  PROVE  \/ Dispatched' = Dispatched /\ (Creating \/ Resting \/ \E u \in TaskIds : Ending(u))
         \/ \E r \in Runners : StartTask(r)
<1> SUFFICES ASSUME \A r \in Runners : ~StartTask(r)
             PROVE  Creating \/ Resting \/ \E u \in TaskIds : Ending(u)
  BY StillDispatched
<1>1. ASSUME UNCHANGED <<task, created>> PROVE Resting
  BY <1>1 DEF Resting
<1>2. ASSUME NEW r \in Runners, LoopStep(r) \/ Crash(r)
      PROVE  Creating \/ Resting \/ \E u \in TaskIds : Ending(u)
  <2>1. CASE MarkStale(r) \/ MarkOld(r)
    BY <1>1, <2>1, MarkMoves DEF MarkStale, MarkOld
  <2>2. CASE SchedulerCreate(r)
    BY <2>2, CreateMoves DEF SchedulerCreate
  <2>3. QED
    BY <1>1, <1>2, <2>1, <2>2
       DEF LoopStep, ScanLocks, DeleteStale, SkipScan, Schedule, ClaimRead, InsertLock,
           ReadExistingLock, TakeOverLock, ReleaseClaim, Crash
<1>3. ASSUME NEW r \in Runners, NEW u \in TaskIds, HandlerStep(r, u)
      PROVE  Resting \/ \E t \in TaskIds : Ending(t)
  <2>1. CASE UpdateSystemTaskState(r, u)
    <3>1. PICK stamp : task' = [task EXCEPT ![u].updatedAt = stamp]
      BY <2>1 DEF UpdateSystemTaskState
    <3>2. QED
      BY <2>1, <3>1 DEF UpdateSystemTaskState, Resting, TypeOK, TaskRow
  <2>2. QED
    BY <1>1, <1>3, <2>1, FinishMoves DEF HandlerStep, Renew, AbandonRun, FinishRelease
<1>4. QED
  BY <1>1, <1>2, <1>3, CreateMoves DEF Next, Enqueue, Tick, vars

\* An active row is the newest one.
LEMMA ActiveIsNewest ==
  ASSUME LeaseInv, FinishedRows, NEW u \in TaskIds, task[u].status \in ActiveStatus
  PROVE  u = created
<1>1. u <= created
  BY DEF LeaseInv, TypeOK, RowsInOrder, ActiveStatus
<1>2. ~(u < created)
  BY DEF FinishedRows, ActiveStatus
<1>3. QED
  BY <1>1, <1>2 DEF LeaseInv, TypeOK

LEMMA FinishedStep == LeaseInv /\ FinishedRows /\ [Next]_vars => FinishedRows'
<1> SUFFICES ASSUME LeaseInv, FinishedRows, [Next]_vars PROVE FinishedRows'
  OBVIOUS
<1>0. TypeOK /\ CallsTimed /\ created \in Nat /\ task \in [TaskIds -> TaskRow]
  BY DEF LeaseInv, TypeOK
<1>1. CASE Creating
  <2> SUFFICES ASSUME NEW t \in TaskIds, t <= created + 1
               PROVE  /\ t < created + 1 => task'[t].status \in {"succeeded", "failed"}
                      /\ t = created + 1 => task'[t].status # "none"
    BY <1>0, <1>1 DEF Creating, FinishedRows
  <2>1. t <= created => task[t].status \in {"succeeded", "failed"}
    BY <1>0, <1>1 DEF Creating, FinishedRows, ActiveTasks, ActiveStatus, TaskRow, TaskStatus
  <2>2. task'[t] = IF t = created + 1 THEN [status |-> "pending", by |-> None, updatedAt |-> now]
                   ELSE task[t]
    BY <1>0, <1>1 DEF Creating
  <2>3. QED
    BY <1>0, <2>1, <2>2
<1>2. CASE Resting
  BY <1>2 DEF Resting, FinishedRows
<1>3. ASSUME NEW u \in TaskIds, Ending(u) PROVE FinishedRows'
  BY <1>3 DEF Ending, Moving, FinishedRows
<1>4. ASSUME NEW r \in Runners, StartTask(r), ~Resting PROVE FinishedRows'
  <2>1. /\ loop[r].cand \in TaskIds /\ task[loop[r].cand].status = "pending"
        /\ Moving(loop[r].cand, "running")
    BY <1>0, <1>4, StartMoves
  <2>2. QED
    BY <2>1 DEF Moving, FinishedRows
<1>5. QED
  BY <1>0, <1>1, <1>2, <1>3, <1>4, Moves

LEMMA FinishedInvariant == Spec => []FinishedRows
<1>1. Init => FinishedRows
  BY DEF Init, FinishedRows
<1>2. QED
  BY <1>1, FinishedStep, LeaseInvariant, PTL DEF Spec

\* The queue's outcomes, by the number of rows that are over.
Over(n) == [t \in 1..n |-> task[t].status]

LEMMA QueueView ==
  ASSUME TypeOK
  PROVE  /\ created \in TaskIds /\ task[created].status \in ActiveStatus =>
               /\ Stage = task[created].status /\ Outcomes = Over(created - 1)
               /\ Len(Outcomes) = created - 1
         /\ ~(created \in TaskIds /\ task[created].status \in ActiveStatus) =>
               Stage = "none" /\ Outcomes = Over(created)
<1>1. "none" \notin ActiveStatus
  BY DEF ActiveStatus
<1>2. QED
  BY <1>1 DEF Stage, Outcomes, Over, TypeOK

\* The task at hand ends: its outcome is appended.
LEMMA EndRefines ==
  ASSUME LeaseInv, FinishedRows, NEW u \in TaskIds, Ending(u), Dispatched' = Dispatched
  PROVE  Queue!End
<1>0. TypeOK /\ created \in Nat /\ task \in [TaskIds -> TaskRow]
  BY DEF LeaseInv, TypeOK
<1>1. u = created /\ Stage = "running" /\ Outcomes = Over(created - 1)
  BY <1>0, ActiveIsNewest, QueueView DEF Ending, ActiveStatus
<1>2. PICK s \in {"succeeded", "failed"} : Moving(u, s)
  BY DEF Ending
<1>3. created' = created /\ task'[created].status = s
  BY <1>1, <1>2 DEF Moving
<1>4. Stage' = "none" /\ Outcomes' = [t \in 1..created |-> task'[t].status]
  BY <1>3 DEF Stage, Outcomes, ActiveStatus
<1>5. Outcomes' = Append(Outcomes, s)
  <2>1. \A t \in 1..(created - 1) : task'[t].status = task[t].status
    BY <1>0, <1>1, <1>2 DEF Moving
  <2>2. Outcomes \in Seq(TaskStatus) /\ Len(Outcomes) = created - 1 /\ s \in TaskStatus
    BY <1>0, <1>1 DEF Over, TaskRow, TaskStatus
  <2>3. QED
    BY <1>0, <1>1, <1>3, <1>4, <2>1, <2>2 DEF Over
<1>6. QED
  BY <1>1, <1>4, <1>5 DEF Queue!End

\* A pending row is started: it is the newest, and alone may be dispatched.
LEMMA StartRefines ==
  ASSUME LeaseInv, FinishedRows, NEW r \in Runners, StartTask(r), ~Resting
  PROVE  Queue!Start
<1> DEFINE u == loop[r].cand
<1>0. TypeOK /\ CallsTimed /\ created \in Nat
  BY DEF LeaseInv, TypeOK
<1>1. u \in TaskIds /\ task[u].status = "pending" /\ Moving(u, "running")
  BY <1>0, StartMoves
<1>2. u = created /\ Stage = "pending" /\ Outcomes = Over(created - 1) /\ Len(Outcomes) = created - 1
  BY <1>0, <1>1, ActiveIsNewest, QueueView DEF ActiveStatus
<1>3. Stage' = "running" /\ Outcomes' = Outcomes
  <2>1. created' = created /\ task'[created].status = "running"
    BY <1>1, <1>2 DEF Moving
  <2>2. Stage' = "running" /\ Outcomes' = [t \in 1..(created - 1) |-> task'[t].status]
    BY <1>1, <1>2, <2>1 DEF Stage, Outcomes, ActiveStatus
  <2>3. \A t \in 1..(created - 1) : task'[t].status = task[t].status
    BY <1>0, <1>1, <1>2 DEF Moving
  <2>4. QED
    BY <1>2, <2>2, <2>3 DEF Over
<1>4. Dispatched' \in {Dispatched, Dispatched \cup {u}}
  <2>1. CASE UNCHANGED handler
    BY <2>1 DEF Dispatched
  <2>2. CASE handler' = [handler EXCEPT ![r][u] = [st |-> "run", beat |-> TRUE,
                                                   until |-> LockUntil(loop[r].at)]]
    <3>1. handler \in [Runners -> [TaskIds -> HandlerState]]
      BY <1>0 DEF TypeOK
    <3>2. \A q \in Runners, t \in TaskIds :
             handler'[q][t].st # "none" <=> (q = r /\ t = u) \/ handler[q][t].st # "none"
      BY <1>1, <2>2, <3>1
    <3>3. Dispatched' = Dispatched \cup {u}
      BY <1>1, <3>2 DEF Dispatched
    <3>4. QED
      BY <3>3
  <2>3. QED
    BY <2>1, <2>2 DEF StartTask
<1>5. QED
  BY <1>0, <1>2, <1>3, <1>4 DEF Queue!Start

\* A row is only inserted beside rows that are over.
LEMMA CreateRefines ==
  ASSUME LeaseInv, FinishedRows, Creating, Dispatched' = Dispatched
  PROVE  Queue!Create
<1>0. TypeOK /\ created \in Nat /\ MaxTask \in Nat /\ task \in [TaskIds -> TaskRow]
  BY DEF LeaseInv, TypeOK
<1>1. Stage = "none" /\ Outcomes = Over(created)
  BY <1>0, QueueView DEF Creating, ActiveTasks
<1>2. created' = created + 1 /\ created + 1 \in TaskIds
  BY <1>0 DEF Creating
<1>3. /\ task'[created + 1].status = "pending"
      /\ \A t \in 1..created : task'[t].status = task[t].status
  BY <1>0, <1>2 DEF Creating
<1>4. Stage' = "pending" /\ Outcomes' = [t \in 1..(created' - 1) |-> task'[t].status]
  <2>1. Stage' = "pending"
    BY <1>2, <1>3 DEF Stage, ActiveStatus
  <2>2. QED
    BY <2>1 DEF Outcomes
<1>5. Outcomes' = Outcomes
  BY <1>0, <1>1, <1>2, <1>3, <1>4 DEF Over
<1>6. QED
  BY <1>1, <1>4, <1>5 DEF Queue!Create

LEMMA RestRefines ==
  ASSUME TypeOK, Resting
  PROVE  Stage' = Stage /\ Outcomes' = Outcomes
<1>1. created' = created /\ \A t \in TaskIds : task'[t].status = task[t].status
  BY DEF Resting
<1>2. Stage' = Stage
  BY <1>1 DEF Stage
<1>3. created \in 0..MaxTask
  BY DEF TypeOK
<1>4. \A t \in 1..(IF Stage = "none" THEN created ELSE created - 1) : t \in TaskIds
  BY <1>3
<1>5. QED
  BY <1>1, <1>2, <1>4 DEF Outcomes

\* A start that matches no row leaves the goroutines alone as well.
LEMMA IdleStart ==
  ASSUME TypeOK, CallsTimed, NEW r \in Runners, StartTask(r), Resting
  PROVE  Dispatched' = Dispatched
<1> DEFINE t == loop[r].cand
<1>1. t \in TaskIds
  BY DEF StartTask, CallsTimed, Claiming
<1>2. UNCHANGED handler
  BY <1>1 DEF StartTask, Resting, TypeOK
<1>3. QED
  BY <1>2 DEF Dispatched

LEMMA StepRefines == LeaseInv /\ FinishedRows /\ [Next]_vars => [Queue!Next]_(Queue!vars)
<1> SUFFICES ASSUME LeaseInv, FinishedRows, [Next]_vars PROVE [Queue!Next]_(Queue!vars)
  OBVIOUS
<1>0. TypeOK /\ CallsTimed
  BY DEF LeaseInv
<1>1. CASE Resting /\ Dispatched' = Dispatched
  BY <1>0, <1>1, RestRefines DEF Queue!vars
<1>2. CASE Creating /\ Dispatched' = Dispatched
  BY <1>2, CreateRefines DEF Queue!Next
<1>3. CASE Dispatched' = Dispatched /\ \E u \in TaskIds : Ending(u)
  BY <1>3, EndRefines DEF Queue!Next
<1>4. ASSUME NEW r \in Runners, StartTask(r) PROVE [Queue!Next]_(Queue!vars)
  BY <1>0, <1>1, <1>4, IdleStart, StartRefines DEF Queue!Next
<1>5. QED
  BY <1>0, <1>1, <1>2, <1>3, <1>4, Moves

\* The masters together run a type's tasks one after the other: each is started once,
\* handed to a handler at that moment or never, and ends in one way before the next
\* is created (the unique active_key, and the conditions on the status).
THEOREM RunnersImplementQueue == Spec => ImplementsQueue
<1>1. Init => Queue!Init
  BY DEF Init, NoHandler, Queue!Init, Outcomes, Stage, Dispatched
<1>2. QED
  BY <1>1, StepRefines, LeaseInvariant, FinishedInvariant, PTL DEF Spec, ImplementsQueue, Queue!Spec
=============================================================================
