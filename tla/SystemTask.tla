----------------------------- MODULE SystemTask -----------------------------
(***************************************************************************)
(* The background task runner (service/system_task.go) over its two tables *)
(* system_tasks and system_task_locks (model/system_task.go).              *)
(*                                                                         *)
(* Several master nodes share one database.  Each runs one runner loop,    *)
(* whose pass expires stale locks, schedules due tasks and claims a        *)
(* pending task; a claimed task runs in a goroutine of its own beside a    *)
(* heartbeat goroutine that renews the lock.  Every database statement is  *)
(* one atomic step, and steps of different nodes interleave; a node may    *)
(* stall between any two statements or stop for good.  Locks, active keys  *)
(* and passes are per task type and types do not interact: this module     *)
(* follows one type.                                                       *)
(***************************************************************************)
EXTENDS Integers

CONSTANTS Runners,      \* runner ids: one per start of a master process
          Reliable,     \* the runners that never stop
          MaxTask,      \* bound on the rows ever created in system_tasks
          MaxTime,      \* bound on the clock: no lease reaches it
          LockTTL,      \* systemTaskLockTTL, in clock ticks
          Interval,     \* ScheduledSystemTaskHandler.Interval(), in ticks
          ClaimPrompt,  \* TRUE: no claim outlives the lock it has taken
          None          \* absence of a runner, a task or a lock

ASSUME BoundsAssumption == /\ MaxTask \in Nat /\ MaxTime \in Nat
                           /\ LockTTL \in Nat /\ Interval \in Nat
ASSUME ReliableAssumption == Reliable \subseteq Runners
ASSUME ClaimPromptAssumption == ClaimPrompt \in BOOLEAN
ASSUME NoneAssumption == None \notin Runners /\ None \notin Nat

VARIABLES
    now,      \* common.GetTimestamp(), the same on every node
    created,  \* number of rows in system_tasks: ids are 1..created
    task,     \* system_tasks: status, locked_by and updated_at of each row
    lock,     \* system_task_locks: the row of this type
    loop,     \* where each runner's pass is, with the locals of its calls
    handler   \* per runner and task, the goroutines of a dispatched task

vars == <<now, created, task, lock, loop, handler>>

TaskIds == 1..MaxTask

ActiveStatus == {"pending", "running"}

TaskStatus == ActiveStatus \cup {"none", "succeeded", "failed"}

TaskRow == [status : TaskStatus, by : Runners \cup {None}, updatedAt : Nat]

\* A lock row, or NoLock when the table has no row of the type.
LockRow == [task : TaskIds, by : Runners, until : Nat]

NoLock == [task |-> None, by |-> None, until |-> 0]

(***************************************************************************)
(* The runner loop.  "scan" to "delete" is ExpireStaleSystemTaskLocks,     *)
(* "schedule" and "create" runSystemTaskScheduler, "claim" to "release"    *)
(* runSystemTaskClaimPass with ClaimSystemTask.  at is the value of        *)
(* GetTimestamp() the current call was started with, cand the task being   *)
(* claimed, seen the lock row the call read.                               *)
(***************************************************************************)
LoopPc == {"scan", "mark", "delete", "schedule", "create", "claim", "insert",
           "existing", "takeover", "markOld", "start", "release", "dead"}

LoopState == [pc : LoopPc, at : Nat, cand : TaskIds \cup {None},
              seen : LockRow \cup {NoLock}]

Idle(pc) == [pc |-> pc, at |-> 0, cand |-> None, seen |-> NoLock]

(***************************************************************************)
(* A dispatched task: "run" while the handler's Run executes, "release"    *)
(* between the two statements of FinishSystemTask, "done" when the         *)
(* goroutine has ended.  beat says that the heartbeat goroutine renews the *)
(* lock; it ends by cancelling the handler's context.  until is the end of *)
(* the last lease granted to this run.                                     *)
(***************************************************************************)
HandlerState == [st : {"none", "run", "release", "done"}, beat : BOOLEAN,
                 until : Nat]

NoHandler == [st |-> "none", beat |-> FALSE, until |-> 0]

Ended(h) == IF h.st = "none" THEN h
            ELSE [st |-> "done", beat |-> FALSE, until |-> 0]

Init == /\ now = 1
        /\ created = 0
        /\ task = [t \in TaskIds |-> [status |-> "none", by |-> None, updatedAt |-> 0]]
        /\ lock = NoLock
        /\ loop = [r \in Runners |-> Idle("scan")]
        /\ handler = [r \in Runners |-> [t \in TaskIds |-> NoHandler]]

-----------------------------------------------------------------------------
(* Helpers shared by the statements.                                       *)

\* systemTaskLockUntil() for a call made at time stamp.
LockUntil(stamp) == stamp + LockTTL

\* Leases are granted only while the bounded clock can still outlast them.
Leasable(stamp) == LockUntil(stamp) < MaxTime

\* The WHERE clause of RenewSystemTaskLock and of the EXISTS sub-query in
\* FinishSystemTask and UpdateSystemTaskState.  stamp is the GetTimestamp()
\* of the call, which may lie behind the clock when the statement executes.
HoldsLock(r, t, stamp) == /\ lock.task = t
                          /\ lock.by = r
                          /\ lock.until >= stamp

\* The row of system_tasks a conditional update of FinishSystemTask matches.
Owns(r, t, stamp) == /\ task[t].status = "running"
                     /\ task[t].by = r
                     /\ HoldsLock(r, t, stamp)

ActiveTasks == {t \in TaskIds : task[t].status \in ActiveStatus}

\* Mutant: the update forgets the condition on the status.
MarkAnyStatus(t) ==
    task' = IF t \in TaskIds
            THEN [task EXCEPT ![t].status = "failed", ![t].updatedAt = now]
            ELSE task

\* MarkSystemTaskLeaseExpired: fails the row if it is running.
MarkSystemTaskLeaseExpired(t) ==
    task' = IF t \in TaskIds /\ task[t].status = "running"
            THEN [task EXCEPT ![t].status = "failed", ![t].updatedAt = now]
            ELSE task

\* Mutant: the release blanks the owner instead of deleting the row.
ReleaseBlanksOwner(r, t) ==
    lock' = IF lock.task = t /\ lock.by = r THEN [lock EXCEPT !.by = None] ELSE lock

\* ReleaseSystemTaskLock: deletes the lock row of this task and runner.
ReleaseSystemTaskLock(r, t) ==
    lock' = IF lock.task = t /\ lock.by = r THEN NoLock ELSE lock

Goto(r, pc) == loop' = [loop EXCEPT ![r].pc = pc]

NextPass(r) == loop' = [loop EXCEPT ![r] = Idle("scan")]

-----------------------------------------------------------------------------
(* ExpireStaleSystemTaskLocks, throttled by lastStaleLockCleanup.          *)

\* Mutant: a runner looks only for stale locks of its own.
ScanOwnLocks(r) ==
    /\ loop[r].pc = "scan"
    /\ IF lock.by = r /\ lock.until < now
       THEN loop' = [loop EXCEPT ![r] = [pc |-> "mark", at |-> now,
                                         cand |-> None, seen |-> lock]]
       ELSE Goto(r, "schedule")
    /\ UNCHANGED <<now, created, task, lock, handler>>

ScanLocks(r) ==
    /\ loop[r].pc = "scan"
    /\ IF lock # NoLock /\ lock.until < now
       THEN loop' = [loop EXCEPT ![r] = [pc |-> "mark", at |-> now,
                                         cand |-> None, seen |-> lock]]
       ELSE Goto(r, "schedule")
    /\ UNCHANGED <<now, created, task, lock, handler>>

MarkStale(r) ==
    /\ loop[r].pc = "mark"
    /\ MarkSystemTaskLeaseExpired(loop[r].seen.task)
    /\ Goto(r, "delete")
    /\ UNCHANGED <<now, created, lock, handler>>

\* The delete is conditional on the row still being the one that was read
\* and still being older than the timestamp of the scan.
DeleteStale(r) ==
    /\ loop[r].pc = "delete"
    /\ lock' = IF /\ lock.task = loop[r].seen.task
                  /\ lock.by = loop[r].seen.by
                  /\ lock.until < loop[r].at
               THEN NoLock ELSE lock
    /\ loop' = [loop EXCEPT ![r] = Idle("schedule")]
    /\ UNCHANGED <<now, created, task, handler>>

\* The scan is not due, or one of its statements fails.
SkipScan(r) ==
    /\ loop[r].pc \in {"scan", "mark", "delete"}
    /\ loop' = [loop EXCEPT ![r] = Idle("schedule")]
    /\ UNCHANGED <<now, created, task, lock, handler>>

-----------------------------------------------------------------------------
(* runSystemTaskScheduler, throttled by lastScheduler: it reads the latest *)
(* row, then inserts; the unique index on active_key rejects an insert     *)
(* while an active row exists.                                             *)

Due == \/ created = 0
       \/ /\ created \in TaskIds
          /\ task[created].status \notin ActiveStatus
          /\ now - task[created].updatedAt >= Interval

Schedule(r) ==
    /\ loop[r].pc = "schedule"
    /\ \/ Due /\ Goto(r, "create")
       \/ Goto(r, "claim")    \* not due, disabled, throttled or failed query
    /\ UNCHANGED <<now, created, task, lock, handler>>

\* CreateSystemTask: the insert, rejected by the unique index on active_key.
CreateSystemTask ==
    IF ActiveTasks = {} /\ created < MaxTask
    THEN /\ created' = created + 1
         /\ task' = [task EXCEPT ![created + 1] =
                        [status |-> "pending", by |-> None, updatedAt |-> now]]
    ELSE UNCHANGED <<created, task>>

SchedulerCreate(r) ==
    /\ loop[r].pc = "create"
    /\ CreateSystemTask
    /\ Goto(r, "claim")
    /\ UNCHANGED <<now, lock, handler>>

\* StartLogCleanupTask and EnqueueSystemTask, on behalf of an administrator
\* on any node: an active task is returned instead of a new one.
Enqueue ==
    /\ ActiveTasks = {}
    /\ created < MaxTask
    /\ CreateSystemTask
    /\ UNCHANGED <<now, lock, loop, handler>>

-----------------------------------------------------------------------------
(* runSystemTaskClaimPass and ClaimSystemTask.                             *)

\* FindEarliestPendingSystemTasks and the first read of ClaimSystemTask.
ClaimRead(r) ==
    /\ loop[r].pc = "claim"
    /\ \/ \E t \in TaskIds :
            /\ Leasable(now)
            /\ task[t].status = "pending"
            /\ \A u \in TaskIds : task[u].status = "pending" => t <= u
            /\ loop' = [loop EXCEPT ![r] = [pc |-> "insert", at |-> now,
                                            cand |-> t, seen |-> NoLock]]
       \/ NextPass(r)       \* nothing pending, or the query failed
    /\ UNCHANGED <<now, created, task, lock, handler>>

\* acquireSystemTaskLock, the insert: the primary key on type admits one row.
InsertLock(r) ==
    /\ loop[r].pc = "insert"
    /\ IF lock = NoLock
       THEN /\ lock' = [task |-> loop[r].cand, by |-> r,
                        until |-> LockUntil(loop[r].at)]
            /\ Goto(r, "start")
       ELSE Goto(r, "existing") /\ UNCHANGED lock
    /\ UNCHANGED <<now, created, task, handler>>

\* acquireSystemTaskLock, the read of the row that was in the way.
ReadExistingLock(r) ==
    /\ loop[r].pc = "existing"
    /\ IF lock = NoLock \/ lock.until >= loop[r].at
       THEN NextPass(r)
       ELSE loop' = [loop EXCEPT ![r].pc = "takeover", ![r].seen = lock]
    /\ UNCHANGED <<now, created, task, lock, handler>>

\* Mutant: the update trusts the row read before.
TakeOverUnguarded(r) ==
    /\ loop[r].pc = "takeover"
    /\ lock' = [task |-> loop[r].cand, by |-> r, until |-> LockUntil(loop[r].at)]
    /\ Goto(r, IF loop[r].seen.task = loop[r].cand THEN "start" ELSE "markOld")
    /\ UNCHANGED <<now, created, task, handler>>

\* acquireSystemTaskLock, the update guarded by locked_until < now.
TakeOverLock(r) ==
    /\ loop[r].pc = "takeover"
    /\ IF lock # NoLock /\ lock.until < loop[r].at
       THEN /\ lock' = [task |-> loop[r].cand, by |-> r,
                        until |-> LockUntil(loop[r].at)]
            /\ Goto(r, IF loop[r].seen.task = loop[r].cand THEN "start"
                       ELSE "markOld")
       ELSE NextPass(r) /\ UNCHANGED lock
    /\ UNCHANGED <<now, created, task, handler>>

MarkOld(r) ==
    /\ loop[r].pc = "markOld"
    /\ \/ MarkSystemTaskLeaseExpired(loop[r].seen.task) /\ Goto(r, "start")
       \/ UNCHANGED task /\ Goto(r, "release")
    /\ UNCHANGED <<now, created, lock, handler>>

\* Mutant: the update to running is not conditional on pending.
StartAnyStatus(r) ==
    LET t == loop[r].cand
    IN  /\ loop[r].pc = "start"
        /\ task' = [task EXCEPT ![t] = [status |-> "running", by |-> r,
                                        updatedAt |-> loop[r].at]]
        /\ handler' = [handler EXCEPT ![r][t] =
               [st |-> "run", beat |-> TRUE, until |-> LockUntil(loop[r].at)]]
        /\ NextPass(r)
        /\ UNCHANGED <<now, created, lock>>

\* The update pending -> running.  If it matches the row the task is
\* dispatched, unless the final read of the row fails.
StartTask(r) ==
    LET t == loop[r].cand
    IN  /\ loop[r].pc = "start"
        /\ \/ /\ task[t].status = "pending"
              /\ task' = [task EXCEPT ![t] = [status |-> "running", by |-> r,
                                              updatedAt |-> loop[r].at]]
              /\ \/ handler' = [handler EXCEPT ![r][t] =
                        [st |-> "run", beat |-> TRUE,
                         until |-> LockUntil(loop[r].at)]]
                 \/ UNCHANGED handler
              /\ NextPass(r)
           \/ Goto(r, "release") /\ UNCHANGED <<task, handler>>
        /\ UNCHANGED <<now, created, lock>>

\* The release of a claim that failed; its own failure is ignored.
ReleaseClaim(r) ==
    /\ loop[r].pc = "release"
    /\ ReleaseSystemTaskLock(r, loop[r].cand) \/ UNCHANGED lock
    /\ NextPass(r)
    /\ UNCHANGED <<now, created, task, handler>>

-----------------------------------------------------------------------------
(* runWithLeaseHeartbeat and the handler it runs.                          *)

\* RenewSystemTaskLock on a heartbeat tick; any error cancels the context
\* and ends the heartbeat.  Ticks come after the last grant.
Renew(r, t) ==
    /\ handler[r][t].beat
    /\ handler[r][t].st \in {"run", "release"}
    /\ \/ \E stamp \in 1..now :
            /\ LockUntil(stamp) >= handler[r][t].until
            /\ Leasable(stamp)
            /\ HoldsLock(r, t, stamp)
            /\ lock' = [lock EXCEPT !.until = LockUntil(stamp)]
            /\ handler' = [handler EXCEPT ![r][t].until = LockUntil(stamp)]
       \/ /\ handler' = [handler EXCEPT ![r][t].beat = FALSE]
          /\ UNCHANGED lock
    /\ UNCHANGED <<now, created, task, loop>>

\* UpdateSystemTaskState from a running handler: the row changes only under
\* the run's own lock.
UpdateSystemTaskState(r, t) ==
    /\ handler[r][t].st = "run"
    /\ \E stamp \in task[t].updatedAt..now :
          /\ Owns(r, t, stamp)
          /\ task' = [task EXCEPT ![t].updatedAt = stamp]
    /\ UNCHANGED <<now, created, lock, loop, handler>>

\* The log cleanup handler returns without finishing when a state update
\* fails, and every handler returns when the update of FinishSystemTask
\* fails: a lost lock and a database error end the run alike.
AbandonRun(r, t) ==
    /\ handler[r][t].st = "run"
    /\ handler' = [handler EXCEPT ![r][t] = Ended(@)]
    /\ UNCHANGED <<now, created, task, lock, loop>>

\* FinishSystemTask: the guarded update.
FinishSystemTask(r, t, status) ==
    /\ handler[r][t].st = "run"
    /\ \E stamp \in task[t].updatedAt..now :
          /\ Owns(r, t, stamp)
          /\ task' = [task EXCEPT ![t].status = status, ![t].updatedAt = stamp]
    /\ handler' = [handler EXCEPT ![r][t].st = "release"]
    /\ UNCHANGED <<now, created, lock, loop>>

\* FinishSystemTask: the release that follows.
FinishRelease(r, t) ==
    /\ handler[r][t].st = "release"
    /\ ReleaseSystemTaskLock(r, t) \/ UNCHANGED lock
    /\ handler' = [handler EXCEPT ![r][t] = Ended(@)]
    /\ UNCHANGED <<now, created, task, loop>>

-----------------------------------------------------------------------------
\* The process stops: its loop, handlers and heartbeats are gone.  A restart
\* is a new runner id.
Crash(r) ==
    /\ r \notin Reliable
    /\ loop[r].pc # "dead"
    /\ loop' = [loop EXCEPT ![r] = Idle("dead")]
    /\ handler' = [handler EXCEPT ![r] = [t \in TaskIds |-> Ended(handler[r][t])]]
    /\ UNCHANGED <<now, created, task, lock>>

\* Between reading its candidate and giving up or dispatching it.
Claiming(r) == loop[r].pc \in {"insert", "existing", "takeover", "markOld",
                               "start", "release"}

\* Under ClaimPrompt, time does not overtake the lock of a claim in progress.
Tick ==
    /\ now < MaxTime
    /\ ClaimPrompt => \A r \in Runners :
          Claiming(r) => now < LockUntil(loop[r].at)
    /\ now' = now + 1
    /\ UNCHANGED <<created, task, lock, loop, handler>>

LoopStep(r) == \/ ScanLocks(r) \/ MarkStale(r) \/ DeleteStale(r) \/ SkipScan(r)
               \/ Schedule(r) \/ SchedulerCreate(r)
               \/ ClaimRead(r) \/ InsertLock(r) \/ ReadExistingLock(r)
               \/ TakeOverLock(r) \/ MarkOld(r) \/ StartTask(r) \/ ReleaseClaim(r)

HandlerStep(r, t) == \/ Renew(r, t) \/ UpdateSystemTaskState(r, t)
                     \/ AbandonRun(r, t) \/ FinishRelease(r, t)
                     \/ \E s \in {"succeeded", "failed"} : FinishSystemTask(r, t, s)

Next == \/ \E r \in Runners : LoopStep(r) \/ Crash(r)
        \/ \E r \in Runners, t \in TaskIds : HandlerStep(r, t)
        \/ Enqueue
        \/ Tick

Spec == Init /\ [][Next]_vars

(***************************************************************************)
(* A live process keeps executing the pass and the statements it has begun *)
(* (goroutines are scheduled), the ticker starts a scan again and again    *)
(* (StartSystemTaskRunner) and its update does not fail for ever, a        *)
(* handler returns in the end, and time passes.                            *)
(***************************************************************************)
FairSpec == /\ Spec
            /\ \A r \in Runners : WF_vars(LoopStep(r)) /\ SF_vars(ScanLocks(r))
                                  /\ SF_vars(MarkStale(r))
            /\ \A r \in Runners, t \in TaskIds :
                  /\ WF_vars(FinishRelease(r, t))
                  /\ WF_vars(AbandonRun(r, t))
            /\ WF_vars(Tick)

-----------------------------------------------------------------------------
(* Properties.                                                             *)

\* Every variable stays within the values the tables and the code allow.
TypeOK == /\ now \in Nat
          /\ created \in 0..MaxTask
          /\ task \in [TaskIds -> TaskRow]
          /\ lock \in LockRow \cup {NoLock}
          /\ loop \in [Runners -> LoopState]
          /\ handler \in [Runners -> [TaskIds -> HandlerState]]

\* The handler of a dispatched task is executing, within its last lease.
Leased(r, t) == handler[r][t].st = "run" /\ now <= handler[r][t].until

\* Handlers of one type overlap only after one of them has outlived the last
\* lease it was granted: neither a takeover, a stale-lock scan, a failed
\* claim nor a delayed statement ever hands the type to a second run while
\* the first one's lease lasts ("the per-type lock guarantees only one runner
\* executes the task", service/system_task.go:261).
MutualExclusion ==
    \A r1, r2 \in Runners, t1, t2 \in TaskIds :
        Leased(r1, t1) /\ Leased(r2, t2) => r1 = r2 /\ t1 = t2

\* A task is dispatched by at most one runner, whatever locks expire or are
\* taken over while a claim is in progress.
RunsOnce == \A r1, r2 \in Runners, t \in TaskIds :
               handler[r1][t].st # "none" /\ handler[r2][t].st # "none" => r1 = r2

\* A claim that has taken the lock.
Claimed(r) == loop[r].pc \in {"markOld", "start", "release"}

\* Rows beyond the last insert do not exist yet.
RowsInOrder == \A t \in TaskIds : t > created => task[t].status = "none"

\* No call carries a timestamp from the future, and a claim has a candidate.
CallsTimed == \A r \in Runners : /\ loop[r].at <= now
                                 /\ Claiming(r) => loop[r].cand \in TaskIds

\* A dispatched task was started by its runner, and a runner never claims
\* what it has dispatched.
DispatchedByStarter ==
    \A r \in Runners, t \in TaskIds : handler[r][t].st # "none" =>
        /\ task[t].by = r
        /\ task[t].status \notin {"none", "pending"}
        /\ ~(Claiming(r) /\ loop[r].cand = t)

\* Until its lease has run out, a claim that took the lock still has it.
ClaimHoldsLock ==
    \A r \in Runners : Claimed(r) /\ now <= LockUntil(loop[r].at) =>
        lock = [task |-> loop[r].cand, by |-> r, until |-> LockUntil(loop[r].at)]

\* Until its lease has run out, a dispatched run still has the lock.
RunHoldsLock ==
    \A r \in Runners, t \in TaskIds :
        handler[r][t].st \in {"run", "release"} /\ now <= handler[r][t].until =>
            lock = [task |-> t, by |-> r, until |-> handler[r][t].until]

\* The inductive strengthening of MutualExclusion and RunsOnce.
LeaseInv == /\ TypeOK /\ RowsInOrder /\ CallsTimed
            /\ DispatchedByStarter /\ ClaimHoldsLock /\ RunHoldsLock

\* A finished row keeps its outcome: no late statement of a run that lost
\* its lock, nor of a scan that read the lock earlier, rewrites it.
OutcomeIsFinal ==
    [][\A t \in TaskIds : task[t].status \in {"succeeded", "failed"} =>
          task'[t].status = task[t].status]_vars

\* The newest row is the task at hand, until it is over.
Stage == IF created \in TaskIds /\ task[created].status \in ActiveStatus
         THEN task[created].status ELSE "none"

Outcomes == [t \in 1..(IF Stage = "none" THEN created ELSE created - 1) |-> task[t].status]

Dispatched == {t \in TaskIds : \E r \in Runners : handler[r][t].st # "none"}

Queue == INSTANCE TaskQueue WITH outcomes <- Outcomes, stage <- Stage, dispatched <- Dispatched

\* The masters together keep the promises of a queue: no scan, takeover or
\* delayed statement starts or ends a task out of turn, rewrites the outcome
\* of one that is over, or hands it to a handler again.
ImplementsQueue == Queue!Spec

\* A running row always ends, even if its runner stops: the task type is
\* never blocked for good by its active key.
RunningEnds == \A t \in TaskIds :
    (task[t].status = "running") ~> (task[t].status \in {"succeeded", "failed"})
=============================================================================
