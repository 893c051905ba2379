----------------------------- MODULE TaskPolling -----------------------------
(***************************************************************************)
(* The billing of asynchronous tasks, of video and of Suno, after they     *)
(* were submitted: the polling passes of service/task_polling.go, the      *)
(* refunds and settlements of service/task_billing.go, and the user's      *)
(* request for a task's state, relay/relay_task.go.                        *)
(*                                                                         *)
(* The row of a task (model/task.go) is shared by all masters.  A pass     *)
(* sweeps the tasks that have timed out, loads the unfinished ones and     *)
(* asks upstream about each.  The system-task lease normally keeps passes  *)
(* apart, but a master that lost its lease goes on with the task it is at, *)
(* so two may overlap.  Tasks share nothing with each other: a pass works  *)
(* on its tasks in any order.  Every database statement is one step and    *)
(* may fail; a pass that dies with its process loses what it had in        *)
(* memory.  The lookup of a task's channel may fail like a statement: the  *)
(* database is not there, or the cache of this master is not in step.      *)
(***************************************************************************)
EXTENDS Integers

CONSTANTS Tasks,
          Suno,         \* those of the Suno platform; the others are videos
          Realtime,     \* those of Gemini and Vertex channels
          Deletable,    \* those whose channel may be deleted
          Tardy,        \* those that may time out
          Flaky,        \* those about which upstream may answer with an error
          Hasty,        \* those it may call "100%" done before they have ended
          Legacy,       \* those submitted before the legacy cutoff
          Passes, Gets, \* the polling passes and the users' requests
          Quota,        \* what a task has been charged when it is inserted
          Actuals,      \* what it may turn out to cost; 0 if it stays as it is
          MaxFail       \* bound on failed statements and dying passes

ASSUME TasksAssumption == /\ Suno \subseteq Tasks /\ Realtime \subseteq Tasks \ Suno
                          /\ Quota \in Nat /\ Actuals \subseteq Nat /\ MaxFail \in Nat

VARIABLES
    row,      \* the rows of the tasks
    up,       \* the state of each task upstream
    late,     \* the tasks that have timed out
    gone,     \* the tasks whose channel has been deleted
    bulk,     \* history: those that were failed in bulk
    paid,     \* per task, what its wallet or subscription has been charged
    token,    \* per task, what its token has been charged
    pass,     \* what each pass is doing
    work,     \* per pass and task, the task in the memory of the pass
    get,      \* the users' requests
    faulty,   \* the tasks for which something has failed
    fails     \* how often

vars == <<row, up, late, gone, bulk, paid, token, pass, work, get, faulty, fails>>

Unfinished == {"QUEUED", "IN_PROGRESS"}   \* QUEUED: not started or submitted, too
Terminal == {"SUCCESS", "FAILURE"}
Status == Unfinished \cup Terminal

\* full: the progress is "100%".
Row == [status : Status, full : BOOLEAN, quota : Nat]

\* was: the status when the task was loaded; then: what follows the refund.
Work == [pc : {"none", "sweep", "poll", "save", "refund", "refundToken",
               "settle", "settleToken", "quota"},
         was : Status, task : Row, actual : Nat, then : {"none", "save"}]

Idle == [pc |-> "none", was |-> "QUEUED", actual |-> 0, then |-> "none",
         task |-> [status |-> "QUEUED", full |-> FALSE, quota |-> 0]]

Get == [pc : {"none", "ask", "save"}, was : Status, task : Row]

NoGet == [pc |-> "none", was |-> Idle.was, task |-> Idle.task]

Init == /\ row = [t \in Tasks |-> [status |-> "QUEUED", full |-> FALSE, quota |-> Quota]]
        /\ up = [t \in Tasks |-> "QUEUED"]
        /\ late = {} /\ gone = {} /\ bulk = {} /\ faulty = {}
        /\ paid = [t \in Tasks |-> Quota]
        /\ token = [t \in Tasks |-> Quota]
        /\ pass = [p \in Passes |-> "idle"]
        /\ work = [p \in Passes |-> [t \in Tasks |-> Idle]]
        /\ get = [g \in Gets |-> [t \in Tasks |-> NoGet]]
        /\ fails = 0

-----------------------------------------------------------------------------
(* Helpers.                                                                *)

Loaded(pc, t) == [Idle EXCEPT !.pc = pc, !.was = row[t].status, !.task = row[t]]

Goes(p, t, w) == work' = [work EXCEPT ![p][t] = w]

Ends(p, t) == Goes(p, t, Idle)

Fails(t) == /\ fails < MaxFail
            /\ fails' = fails + 1
            /\ faulty' = faulty \cup {t}

NoFailure == UNCHANGED <<faulty, fails>>

Outside == <<up, late, gone, bulk, pass, get>>

Ledger == <<paid, token>>

\* GetAllUnFinishSyncTasks and GetTimedOutUnfinishedTasks.
Listed(t) == row[t].status \in Unfinished /\ ~row[t].full

\* UpdateWithStatus: it writes every column, if the status is still the one
\* that was read.
UpdateWithStatus(was, t, new) == /\ row[t].status = was
                                 /\ row' = [row EXCEPT ![t] = new]

Lost(was, t) == row[t].status # was /\ UNCHANGED row

-----------------------------------------------------------------------------
(* The world outside: upstream, time, and the administrator.               *)

UpstreamMoves(t) ==
    /\ up[t] \in Unfinished
    /\ \E s \in Status \ {"QUEUED", up[t]} : up' = [up EXCEPT ![t] = s]
    /\ UNCHANGED <<row, late, gone, bulk, paid, token, pass, work, get, faulty, fails>>

TimesOut(t) == /\ t \in Tardy \ late
               /\ late' = late \cup {t}
               /\ UNCHANGED <<row, up, gone, bulk, paid, token, pass, work, get, faulty, fails>>

ChannelDeleted(t) == /\ t \in Deletable \ gone
                     /\ gone' = gone \cup {t}
                     /\ UNCHANGED <<row, up, late, bulk, paid, token, pass, work, get, faulty, fails>>

\* What upstream says: the state, or an error that is taken for a failure.
Answers(t) == {up[t]} \cup (IF t \in Flaky THEN {"FAILURE"} ELSE {})

\* Whether the copy is "100%" after the answer s: the progress upstream reports
\* is stored with any status, but for a failure.
Progress(t, s) == IF t \in Hasty /\ s # "FAILURE" THEN BOOLEAN ELSE {s \in Terminal}

-----------------------------------------------------------------------------
(* A pass: sweepTimedOutTasks, then the tasks that are left.               *)

\* Mutant: tasks that never started are not swept.
SweepsStartedOnly(p) ==
    /\ pass[p] = "idle"
    /\ pass' = [pass EXCEPT ![p] = "sweep"]
    /\ work' = [work EXCEPT ![p] = [t \in Tasks |->
                   IF Listed(t) /\ t \in late /\ row[t].status = "IN_PROGRESS"
                   THEN Loaded("sweep", t) ELSE Idle]]
    /\ UNCHANGED <<row, up, late, gone, bulk, paid, token, get, faulty, fails>>

SweepList(p) ==
    /\ pass[p] = "idle"
    /\ pass' = [pass EXCEPT ![p] = "sweep"]
    /\ work' = [work EXCEPT ![p] = [t \in Tasks |->
                   IF Listed(t) /\ t \in late THEN Loaded("sweep", t) ELSE Idle]]
    /\ UNCHANGED <<row, up, late, gone, bulk, paid, token, get, faulty, fails>>

Sweep(p, t) ==
    LET w == work[p][t]
        failed == [w.task EXCEPT !.status = "FAILURE", !.full = TRUE]
    IN  /\ w.pc = "sweep"
        /\ \/ /\ UpdateWithStatus(w.was, t, failed)
              /\ Goes(p, t, IF t \notin Legacy /\ w.task.quota # 0
                            THEN [w EXCEPT !.pc = "refund", !.task = failed] ELSE Idle)
              /\ NoFailure
           \/ Lost(w.was, t) /\ Ends(p, t) /\ NoFailure
           \/ Fails(t) /\ Ends(p, t) /\ UNCHANGED row
        /\ UNCHANGED <<Outside, Ledger>>

PollList(p) ==
    /\ pass[p] = "sweep"
    /\ \A t \in Tasks : work[p][t].pc = "none"
    /\ pass' = [pass EXCEPT ![p] = "poll"]
    /\ work' = [work EXCEPT ![p] = [t \in Tasks |->
                   IF Listed(t) THEN Loaded("poll", t) ELSE Idle]]
    /\ UNCHANGED <<row, up, late, gone, bulk, paid, token, get, faulty, fails>>

EndPass(p) ==
    /\ pass[p] = "poll"
    /\ \A t \in Tasks : work[p][t].pc = "none"
    /\ pass' = [pass EXCEPT ![p] = "idle"]
    /\ UNCHANGED <<row, up, late, gone, bulk, paid, token, work, get, faulty, fails>>

\* No answer, none that can be read, a rate limit, or the lease has been lost.
Skip(p, t) == /\ work[p][t].pc = "poll"
              /\ Ends(p, t)
              /\ UNCHANGED <<row, Outside, Ledger, faulty, fails>>

\* TaskBulkUpdateByID, for the tasks of a channel that is not found, deleted or
\* not: it writes over whatever state the row is in.
BulkFail(p, t) ==
    /\ work[p][t].pc = "poll"
    /\ \/ /\ (t \in gone /\ NoFailure) \/ Fails(t)
          /\ row' = [row EXCEPT ![t].status = "FAILURE", ![t].full = TRUE]
          /\ bulk' = bulk \cup {t}
       \/ Fails(t) /\ UNCHANGED <<row, bulk>>
    /\ Ends(p, t)
    /\ UNCHANGED <<up, late, gone, pass, get, Ledger>>

-----------------------------------------------------------------------------
(* Videos: updateVideoSingleTask.                                          *)

VideoAnswer(p, t) ==
    LET w == work[p][t]
    IN  /\ w.pc = "poll" /\ t \notin Suno \cup gone
        /\ \E s \in Answers(t) : \E full \in Progress(t, s) :
              Goes(p, t, [w EXCEPT !.pc = "save", !.task.status = s, !.task.full = full])
        /\ UNCHANGED <<row, Outside, Ledger, faulty, fails>>

\* Mutant: who loses the update bills all the same.
BillsWithoutWinning(p, t) ==
    LET w == work[p][t]
        next == CASE w.task.status = "SUCCESS" -> [w EXCEPT !.pc = "settle"]
                  [] w.task.status = "FAILURE" -> [w EXCEPT !.pc = "refund"]
                  [] OTHER -> Idle
    IN  /\ w.pc = "save" /\ t \notin Suno
        /\ UpdateWithStatus(w.was, t, w.task) \/ Lost(w.was, t)
        /\ Goes(p, t, next)
        /\ UNCHANGED <<Outside, Ledger, faulty, fails>>

\* Mutant: only the end of a task is guarded, its progress is saved anyway.
SavesProgressAnyway(p, t) ==
    LET w == work[p][t]
        next == CASE w.task.status = "SUCCESS" -> [w EXCEPT !.pc = "settle"]
                  [] w.task.status = "FAILURE" /\ w.task.quota # 0 -> [w EXCEPT !.pc = "refund"]
                  [] OTHER -> Idle
    IN  /\ w.pc = "save" /\ t \notin Suno
        /\ \/ /\ row[t].status = w.was \/ w.task.status \in Unfinished
              /\ row' = [row EXCEPT ![t] = w.task] /\ Goes(p, t, next)
           \/ Lost(w.was, t) /\ Ends(p, t)
        /\ UNCHANGED <<Outside, Ledger, faulty, fails>>

\* Mutant: the refund of a task that failed before it started is forgotten.
RefundsRunningOnly(p, t) ==
    LET w == work[p][t]
        next == CASE w.task.status = "SUCCESS" -> [w EXCEPT !.pc = "settle"]
                  [] w.task.status = "FAILURE" /\ w.was = "IN_PROGRESS" -> [w EXCEPT !.pc = "refund"]
                  [] OTHER -> Idle
    IN  /\ w.pc = "save" /\ t \notin Suno
        /\ UpdateWithStatus(w.was, t, w.task) /\ Goes(p, t, next)
        /\ UNCHANGED <<Outside, Ledger, faulty, fails>>

\* Only the one that moves the task to its end settles or refunds it.
VideoSave(p, t) ==
    LET w == work[p][t]
        next == CASE w.task.status = "SUCCESS" -> [w EXCEPT !.pc = "settle"]
                  [] w.task.status = "FAILURE" /\ w.task.quota # 0 -> [w EXCEPT !.pc = "refund"]
                  [] OTHER -> Idle
    IN  /\ w.pc = "save" /\ t \notin Suno
        /\ \/ UpdateWithStatus(w.was, t, w.task) /\ Goes(p, t, next) /\ NoFailure
           \/ Lost(w.was, t) /\ Ends(p, t) /\ NoFailure
           \/ Fails(t) /\ Ends(p, t) /\ UNCHANGED row
        /\ UNCHANGED <<Outside, Ledger>>

-----------------------------------------------------------------------------
(* Suno: updateSunoTasks refunds first and then saves, whatever the row.   *)

\* Upstream gives a reason for a failure, perhaps before it says so.
SunoAnswer(p, t) ==
    LET w == work[p][t]
    IN  /\ w.pc = "poll" /\ t \in Suno \ gone
        /\ \E reason \in IF up[t] = "IN_PROGRESS" THEN BOOLEAN ELSE {up[t] = "FAILURE"} :
              Goes(p, t, [w EXCEPT !.pc = IF reason /\ w.task.quota # 0 THEN "refund" ELSE "save",
                                   !.then = "save", !.task.status = up[t],
                                   !.task.full = reason \/ up[t] = "SUCCESS"])
        /\ UNCHANGED <<row, Outside, Ledger, faulty, fails>>

\* Mutant: the progress is not saved.
SavesStatusOnly(p, t) ==
    LET w == work[p][t]
    IN  /\ w.pc = "save" /\ t \in Suno
        /\ row' = [row EXCEPT ![t].status = w.task.status]
        /\ Ends(p, t)
        /\ UNCHANGED <<Outside, Ledger, faulty, fails>>

SunoSave(p, t) ==
    LET w == work[p][t]
    IN  /\ w.pc = "save" /\ t \in Suno
        /\ \/ row' = [row EXCEPT ![t] = w.task] /\ NoFailure
           \/ Fails(t) /\ UNCHANGED row
        /\ Ends(p, t)
        /\ UNCHANGED <<Outside, Ledger>>

-----------------------------------------------------------------------------
(* RefundTaskQuota.                                                        *)

\* What follows the refund of w.
Refunded(w) == IF w.then = "save" THEN [w EXCEPT !.pc = "save"] ELSE Idle

\* Mutant: the token is paid back even if the source could not be.
RefundsTokenAnyway(p, t) ==
    LET w == work[p][t]
    IN  /\ w.pc = "refund"
        /\ \/ paid' = [paid EXCEPT ![t] = @ - w.task.quota] /\ NoFailure
           \/ Fails(t) /\ UNCHANGED paid
        /\ Goes(p, t, [w EXCEPT !.pc = "refundToken"])
        /\ UNCHANGED <<row, Outside, token>>

Refund(p, t) ==
    LET w == work[p][t]
    IN  /\ w.pc = "refund"
        /\ \/ /\ paid' = [paid EXCEPT ![t] = @ - w.task.quota]
              /\ Goes(p, t, [w EXCEPT !.pc = "refundToken"])
              /\ NoFailure
           \/ Fails(t) /\ Goes(p, t, Refunded(w)) /\ UNCHANGED paid
        /\ UNCHANGED <<row, Outside, token>>

RefundToken(p, t) ==
    LET w == work[p][t]
    IN  /\ w.pc = "refundToken"
        /\ \/ token' = [token EXCEPT ![t] = @ - w.task.quota] /\ NoFailure
           \/ Fails(t) /\ UNCHANGED token
        /\ Goes(p, t, Refunded(w))
        /\ UNCHANGED <<row, Outside, paid>>

(* settleTaskBillingOnComplete and RecalculateTaskQuota.                   *)

\* Mutant: the actual cost is charged on top of the estimate.
ChargesActual(p, t) ==
    LET w == work[p][t]
    IN  /\ w.pc = "settle"
        /\ \E a \in Actuals : /\ paid' = [paid EXCEPT ![t] = @ + a]
                              /\ Goes(p, t, [w EXCEPT !.pc = "settleToken", !.actual = a])
        /\ UNCHANGED <<row, Outside, token, faulty, fails>>

Settle(p, t) ==
    LET w == work[p][t]
    IN  /\ w.pc = "settle"
        /\ \/ \E a \in Actuals \ {0, w.task.quota} :
                 \/ /\ paid' = [paid EXCEPT ![t] = @ + (a - w.task.quota)]
                    /\ Goes(p, t, [w EXCEPT !.pc = "settleToken", !.actual = a])
                    /\ NoFailure
                 \/ Fails(t) /\ Ends(p, t) /\ UNCHANGED paid
           \/ /\ Actuals \cap {0, w.task.quota} # {}
              /\ Ends(p, t) /\ UNCHANGED paid /\ NoFailure
        /\ UNCHANGED <<row, Outside, token>>

SettleToken(p, t) ==
    LET w == work[p][t]
    IN  /\ w.pc = "settleToken"
        /\ \/ token' = [token EXCEPT ![t] = @ + (w.actual - w.task.quota)] /\ NoFailure
           \/ Fails(t) /\ UNCHANGED token
        /\ Goes(p, t, [w EXCEPT !.pc = "quota"])
        /\ UNCHANGED <<row, Outside, paid>>

UpdateQuota(p, t) ==
    LET w == work[p][t]
    IN  /\ w.pc = "quota"
        /\ \/ row' = [row EXCEPT ![t].quota = w.actual] /\ NoFailure
           \/ Fails(t) /\ UNCHANGED row
        /\ Ends(p, t)
        /\ UNCHANGED <<Outside, Ledger>>

\* The process of a pass stops.
Crash(p) == /\ pass[p] # "idle" /\ fails < MaxFail
            /\ fails' = fails + 1
            /\ faulty' = faulty \cup {t \in Tasks : work[p][t].pc # "none"}
            /\ pass' = [pass EXCEPT ![p] = "idle"]
            /\ work' = [work EXCEPT ![p] = [t \in Tasks |-> Idle]]
            /\ UNCHANGED <<row, up, late, gone, bulk, paid, token, get>>

-----------------------------------------------------------------------------
(* A user asks for a task: tryRealtimeFetch asks upstream at once, in      *)
(* whatever state the task is, and bills nothing.                          *)

Asks(g, t, r) == get' = [get EXCEPT ![g][t] = r]

Inside == <<up, late, gone, bulk, paid, token, pass, work>>

GetRead(g, t) ==
    /\ t \in Realtime /\ get[g][t].pc = "none"
    /\ Asks(g, t, [pc |-> "ask", was |-> row[t].status, task |-> row[t]])
    /\ UNCHANGED <<Inside, row, faulty, fails>>

GetAnswer(g, t) ==
    LET r == get[g][t]
    IN  /\ r.pc = "ask"
        /\ \/ /\ t \notin gone
              /\ \E s \in Answers(t) : \E full \in Progress(t, s) :
                    Asks(g, t, [r EXCEPT !.pc = "save", !.task.status = s, !.task.full = full])
           \/ Asks(g, t, NoGet)
        /\ UNCHANGED <<Inside, row, faulty, fails>>

\* The request is answered, whether the row could be updated or not.
GetSave(g, t) ==
    LET r == get[g][t]
    IN  /\ r.pc = "save"
        /\ \/ UpdateWithStatus(r.was, t, r.task) /\ NoFailure
           \/ Lost(r.was, t) /\ NoFailure
           \/ Fails(t) /\ UNCHANGED row
        /\ Asks(g, t, NoGet)
        /\ UNCHANGED Inside

-----------------------------------------------------------------------------
World(t) == UpstreamMoves(t) \/ TimesOut(t) \/ ChannelDeleted(t)

TaskStep(p, t) == \/ Sweep(p, t) \/ Skip(p, t) \/ BulkFail(p, t)
                  \/ VideoAnswer(p, t) \/ VideoSave(p, t)
                  \/ SunoAnswer(p, t) \/ SunoSave(p, t)
                  \/ Refund(p, t) \/ RefundToken(p, t)
                  \/ Settle(p, t) \/ SettleToken(p, t) \/ UpdateQuota(p, t)

PassStep(p) == \/ SweepList(p) \/ PollList(p) \/ EndPass(p)
               \/ \E t \in Tasks : TaskStep(p, t)

GetStep(g) == \E t \in Tasks : GetRead(g, t) \/ GetAnswer(g, t) \/ GetSave(g, t)

Next == \/ \E t \in Tasks : World(t)
        \/ \E p \in Passes : PassStep(p) \/ Crash(p)
        \/ \E g \in Gets : GetStep(g)

Spec == Init /\ [][Next]_vars

\* The scheduler of the system tasks starts a pass every 15 seconds.
FairSpec == Spec /\ \A p \in Passes : WF_vars(PassStep(p))

-----------------------------------------------------------------------------
(* Properties.                                                             *)

TypeOK == /\ row \in [Tasks -> Row] /\ up \in [Tasks -> Status]
          /\ late \subseteq Tasks /\ gone \subseteq Tasks /\ bulk \subseteq Tasks /\ faulty \subseteq Tasks
          /\ paid \in [Tasks -> Int] /\ token \in [Tasks -> Int]
          /\ pass \in [Passes -> {"idle", "sweep", "poll"}]
          /\ work \in [Passes -> [Tasks -> Work]]
          /\ get \in [Gets -> [Tasks -> Get]]
          /\ fails \in 0..MaxFail

\* Nobody is at work on the task.
Quiet(t) == \A p \in Passes : work[p][t].pc = "none"

\* No two passes overlap.
Alone == \A p, q \in Passes : p = q

\* The tasks whose rows are written over by somebody who has not seen how they
\* ended: those of Suno, which are saved without a look at the row, when
\* passes overlap; and those a user's request may bring back to life, because
\* upstream goes on after the row has failed by a timeout, by an error or in bulk.
Contested == (Realtime \cap (Flaky \cup Tardy \cup bulk)) \cup {t \in Suno : ~Alone}

\* No task is given back more than it was charged, however passes and
\* requests meet: "CAS lost: user quota should NOT change (no double refund)"
\* (service/task_billing_test.go:566).  It is not so of a Suno task one of
\* whose statements has failed, or whose pass has died: it is refunded before
\* its row is saved.
RefundedOnce == \A t \in Tasks \ (Contested \cup (Suno \cap faulty)) :
                    paid[t] >= 0 /\ token[t] >= 0

\* Nobody is at work on t, which has failed, and it still costs something.
Unrefunded(t) == row[t].status = "FAILURE" /\ Quiet(t) /\ ~(paid[t] = 0 /\ token[t] = 0)

\* A failed task has been refunded in full, on its source and its token, once
\* nobody is at work on it, unless it was submitted before the cutoff and has
\* timed out: RefundTaskQuota is the unified refund "when an asynchronous
\* task fails" (service/task_billing.go:150).
EveryFailureRefunded ==
    \A t \in Tasks \ ((Legacy \cap late) \cup faulty) : ~Unrefunded(t)

\* The same but for the tasks that are failed in bulk, which nobody refunds,
\* those whose failure a user's request may record, and the contested ones.
FailedIsRefunded ==
    \A t \in Tasks \ (Contested \cup (Legacy \cap late) \cup faulty \cup Realtime \cup bulk) :
        ~Unrefunded(t)

\* A task that succeeded has paid its estimate or its actual cost, once, on
\* both, although passes race to settle it.
SucceededPays ==
    \A t \in Tasks \ (Contested \cup faulty) :
        row[t].status = "SUCCESS" /\ Quiet(t)
        => paid[t] = token[t] /\ paid[t] \in {Quota} \cup (Actuals \ {0})

\* The bills of tasks of unlike kinds, side by side.
Billed == RefundedOnce /\ FailedIsRefunded /\ SucceededPays

\* The end of a task is final: "prevents overwriting tasks that the polling
\* has already moved on" (service/task_polling.go:42), but for a contested one
\* and for a bulk failure, which no status guards.
EndIsFinal ==
    [][\A t \in Tasks \ Contested :
          row[t].status \in Terminal /\ row'[t].status # row[t].status
          => row'[t].status = "FAILURE" /\ t \in bulk']_vars

\* What the bill of t may move to: nothing if the task has failed (Suno says so
\* before the row does), an actual cost if it has succeeded, also when its row was
\* failed in bulk since.
Costs(t) == {c \in {0} \cup Actuals :
                IF c = 0 THEN row[t].status = "FAILURE" \/ t \in Suno
                         ELSE row[t].status = "SUCCESS" \/ t \in bulk}

\* The bill of a task moves once from what it was charged when it was submitted,
\* to nothing or to one actual cost, on its source first and then on its token:
\* who has an old copy never moves a bill that has moved, and the token goes
\* nowhere the source did not go.  One pass has "won" the task, the others find
\* it "already transitioned" (service/task_polling.go:570).
BillMovesOnce ==
    [][\A t \in Tasks \ (Contested \cup (Suno \cap faulty)) :
          (paid'[t] # paid[t] \/ token'[t] # token[t])
          => \E cost \in Costs(t) :
                /\ paid'[t] = cost /\ token[t] = Quota
                /\ \/ paid[t] = Quota /\ token'[t] = Quota
                   \/ paid[t] = cost /\ token'[t] = cost]_vars

\* A video that has timed out comes to an end, whatever upstream says or not.  It
\* is not so once upstream has called it "100%" done while it was still running,
\* nor of a song for which a reason to fail came before the failure: such a row
\* is on no list any more, neither of a pass nor of a sweep.
TimedOutEnds == \A t \in Tasks \ (Hasty \cup Suno) :
                    (t \in late) ~> (row[t].status \in Terminal)
=============================================================================
