-------------------------- MODULE TaskPollingProofs --------------------------
(***************************************************************************)
(* Proofs about TaskPolling, for any tasks of any kind, any number of      *)
(* passes and requests, any costs, and any number of failing statements    *)
(* and dying passes.                                                       *)
(*                                                                         *)
(* Tasks share nothing, so the invariant is one of each task (TaskInv),    *)
(* and a step keeps it for the tasks it is not about (Kept).  At its core  *)
(* stand that a listed task is billed by nobody (Single) and how far the   *)
(* bill of a task is at each point of the pass that bills it (Due); a Suno *)
(* task, whose row nothing guards, rests on the pass being alone (Held),   *)
(* and a task that users may fetch, on upstream's end being final          *)
(* (Mirrors).                                                              *)
(***************************************************************************)
EXTENDS TaskPolling, TLAPS

Refunding == {"refund", "refundToken"}
Settling == {"settle", "settleToken", "quota"}
Billing == Refunding \cup Settling

\* What a Suno task in memory is worth once its refund has been tried.
Spent(task) == task.status = "FAILURE" \/ (task.status # "SUCCESS" /\ task.full)

\* What a pass has loaded was unfinished, and has not been settled.
Loads(t) ==
    \A p \in Passes :
        LET w == work[p][t]
        IN  /\ w.pc \in {"sweep", "poll"} => w.was \in Unfinished /\ w.then = "none"
            /\ w.pc = "save" /\ t \notin Suno => w.was \in Unfinished
            /\ w.pc \in {"sweep", "poll", "save", "refund", "refundToken", "settle", "settleToken"}
                 => w.task.quota = Quota
            /\ w.pc = "sweep" => t \in late
            /\ w.then = "save" => t \in Suno /\ w.pc \in {"save"} \cup Refunding
            /\ w.pc \in Settling => t \notin Suno

\* One pass at most bills a task, and never while it is still listed.
Single(t) ==
    /\ \A p, q \in Passes : work[p][t].pc \in Billing /\ work[q][t].pc \in Billing => p = q
    /\ row[t].status \in Unfinished => row[t].quota = Quota
    /\ t \in Suno => row[t].quota = Quota
    /\ row[t].status \in Unfinished /\ t \notin Suno =>
          /\ \A p \in Passes : work[p][t].pc \notin Billing
          /\ paid[t] = Quota /\ token[t] = Quota

\* A refund is of a failure, a settlement of a success.
Kinds(t) ==
    \A p \in Passes :
        /\ work[p][t].pc \in Refunding => row[t].status = "FAILURE" \/ work[p][t].then = "save"
        /\ work[p][t].pc \in Settling => row[t].status = "SUCCESS" \/ t \in bulk

\* How far the bill is.
Due(t) ==
    t \notin Suno \cap faulty =>
        /\ paid[t] >= 0 /\ token[t] >= 0
        /\ \A p \in Passes :
              LET w == work[p][t]
              IN  /\ w.pc \in {"refund", "settle"} => paid[t] = Quota /\ token[t] = Quota
                  /\ w.pc = "refundToken" => paid[t] = 0 /\ token[t] = Quota
                  /\ w.pc = "settleToken" => /\ w.actual \in Actuals \ {0}
                                             /\ paid[t] = w.actual /\ token[t] = Quota
                  /\ w.pc = "quota" => /\ w.actual \in Actuals \ {0}
                                       /\ paid[t] = w.actual
                                       /\ t \notin faulty => token[t] = w.actual

\* A pass that is alone finds a Suno task as it has left it.
Held(t) ==
    t \in Suno =>
        \A p \in Passes :
            LET w == work[p][t]
            IN  /\ w.pc \in {"sweep", "poll", "save"} \/ w.then = "save" => Listed(t)
                /\ w.pc \in Refunding /\ w.then = "save" => Spent(w.task)
                /\ t \notin faulty =>
                      /\ w.pc = "save" => /\ paid[t] = (IF Spent(w.task) THEN 0 ELSE Quota)
                                          /\ token[t] = paid[t]
                      /\ w.pc \in {"none", "sweep", "poll"} /\ Listed(t)
                            => paid[t] = Quota /\ token[t] = Quota

\* The ends that rows and copies show are upstream's.
Mirrors(t) ==
    t \in Realtime =>
        /\ t \notin late
        /\ row[t].status \in Terminal => row[t].status = up[t]
        /\ \A p \in Passes :
              LET w == work[p][t]
              IN  w.pc = "save" /\ w.task.status \in Terminal => w.task.status = up[t]
        /\ \A g \in Gets :
              LET r == get[g][t]
              IN  /\ r.pc = "ask" /\ r.was \in Terminal => r.was = up[t]
                  /\ r.pc = "save" /\ r.task.status \in Terminal => r.task.status = up[t]
                  /\ r.pc = "save" /\ r.was \in Terminal => r.task.status = r.was
                  /\ r.pc # "none" /\ r.was \in Unfinished => r.task.quota = Quota

\* Requests ask for realtime tasks only.
Asked(t) == t \notin Realtime => \A g \in Gets : get[g][t].pc = "none"

\* A failure is being refunded, or has been.
FailedPays(t) ==
    row[t].status = "FAILURE" /\ t \notin faulty \cup bulk \cup Realtime \cup (Legacy \cap late)
    => \/ \E p \in Passes : work[p][t].pc \in Refunding
       \/ paid[t] = 0 /\ token[t] = 0

\* A success is being settled, or has been.
SuccessPays(t) ==
    row[t].status = "SUCCESS" /\ t \notin faulty
    => \/ \E p \in Passes : work[p][t].pc \in Settling
       \/ paid[t] = token[t] /\ paid[t] \in {Quota} \cup (Actuals \ {0})

TaskInv(t) == /\ Loads(t) /\ Single(t) /\ Kinds(t) /\ Due(t) /\ Held(t)
              /\ Mirrors(t) /\ Asked(t) /\ FailedPays(t) /\ SuccessPays(t)

\* A pass between two rounds is at work on nothing.
Resting == \A p \in Passes, t \in Tasks : pass[p] = "idle" => work[p][t].pc = "none"

IInv == TypeOK /\ Resting /\ late \subseteq Tardy /\ \A t \in Tasks \ Contested : TaskInv(t)

-----------------------------------------------------------------------------
(* Types.                                                                  *)

LEMMA IdleType == Idle \in Work /\ NoGet \in Get
  BY DEF Idle, NoGet, Work, Get, Row, Status, Unfinished, Terminal

LEMMA LoadedType ==
  ASSUME TypeOK, NEW t \in Tasks, NEW pc \in {"sweep", "poll"}
  PROVE  Loaded(pc, t) \in Work
  BY DEF TypeOK, Loaded, Idle, Work, Row, Status, Unfinished, Terminal

LEMMA FieldTypes ==
  ASSUME TypeOK, NEW p \in Passes, NEW t \in Tasks
  PROVE  /\ work[p][t] \in Work /\ row[t] \in Row /\ up[t] \in Status
         /\ work[p][t].task \in Row /\ work[p][t].task.quota \in Nat
         /\ work[p][t].actual \in Nat /\ work[p][t].was \in Status
         /\ paid[t] \in Int /\ token[t] \in Int /\ row[t].quota \in Nat
         /\ row[t].status \in Status /\ row[t].full \in BOOLEAN
  BY DEF TypeOK, Work, Row

\* One worker's step keeps the type of work.
LEMMA GoesType ==
  ASSUME TypeOK, NEW p \in Passes, NEW t \in Tasks, NEW w \in Work, Goes(p, t, w)
  PROVE  work' \in [Passes -> [Tasks -> Work]]
  BY DEF TypeOK, Goes

LEMMA EndsType ==
  ASSUME TypeOK, NEW p \in Passes, NEW t \in Tasks, Ends(p, t)
  PROVE  work' \in [Passes -> [Tasks -> Work]]
  BY GoesType, IdleType DEF Ends

LEMMA FailsType ==
  ASSUME TypeOK, NEW t \in Tasks, Fails(t) \/ NoFailure
  PROVE  faulty' \subseteq Tasks /\ fails' \in 0..MaxFail
  BY TasksAssumption DEF TypeOK, Fails, NoFailure

LEMMA AnswersType ==
  ASSUME TypeOK, NEW t \in Tasks
  PROVE  Answers(t) \subseteq Status
  BY DEF TypeOK, Answers, Status, Terminal

LEMMA ProgressType ==
  ASSUME NEW t, NEW s, NEW full \in Progress(t, s) PROVE full \in BOOLEAN
  BY DEF Progress

LEMMA TypeInit == ASSUME Init PROVE TypeOK
<1> USE TasksAssumption
<1>1. row \in [Tasks -> Row] /\ up \in [Tasks -> Status]
  BY DEF Init, Row, Status, Unfinished, Terminal
<1>2. work \in [Passes -> [Tasks -> Work]] /\ get \in [Gets -> [Tasks -> Get]]
  BY IdleType DEF Init
<1>3. paid \in [Tasks -> Int] /\ token \in [Tasks -> Int] /\ fails \in 0..MaxFail
  BY DEF Init
<1>4. pass \in [Passes -> {"idle", "sweep", "poll"}]
  BY DEF Init
<1>5. late \subseteq Tasks /\ gone \subseteq Tasks /\ bulk \subseteq Tasks /\ faulty \subseteq Tasks
  BY DEF Init
<1>6. QED
  BY <1>1, <1>2, <1>3, <1>4, <1>5 DEF TypeOK

LEMMA TypeWorld ==
  ASSUME TypeOK, NEW t \in Tasks, World(t)
  PROVE  TypeOK'
<1>1. CASE UpstreamMoves(t)
  BY <1>1 DEF UpstreamMoves, TypeOK
<1>2. CASE TimesOut(t)
  BY <1>2 DEF TimesOut, TypeOK
<1>3. CASE ChannelDeleted(t)
  BY <1>3 DEF ChannelDeleted, TypeOK
<1>4. QED
  BY <1>1, <1>2, <1>3 DEF World

LEMMA TypeLists ==
  ASSUME TypeOK, NEW p \in Passes, SweepList(p) \/ PollList(p) \/ EndPass(p) \/ Crash(p)
  PROVE  TypeOK'
<1>1. CASE SweepList(p)
  <2>1. [t \in Tasks |-> IF Listed(t) /\ t \in late THEN Loaded("sweep", t) ELSE Idle] \in [Tasks -> Work]
    BY LoadedType, IdleType
  <2>2. QED
    BY <1>1, <2>1 DEF SweepList, TypeOK
<1>2. CASE PollList(p)
  <2>1. [t \in Tasks |-> IF Listed(t) THEN Loaded("poll", t) ELSE Idle] \in [Tasks -> Work]
    BY LoadedType, IdleType
  <2>2. QED
    BY <1>2, <2>1 DEF PollList, TypeOK
<1>3. CASE EndPass(p)
  BY <1>3 DEF EndPass, TypeOK
<1>4. CASE Crash(p)
  <2>1. [t \in Tasks |-> Idle] \in [Tasks -> Work]
    BY IdleType
  <2>2. fails' \in 0..MaxFail
    BY <1>4, TasksAssumption DEF Crash, TypeOK
  <2>3. QED
    BY <1>4, <2>1, <2>2 DEF Crash, TypeOK
<1>5. QED
  BY <1>1, <1>2, <1>3, <1>4

LEMMA TypeTaskStep ==
  ASSUME TypeOK, NEW p \in Passes, NEW t \in Tasks, TaskStep(p, t)
  PROVE  TypeOK'
<1> DEFINE w == work[p][t]
<1>0. /\ w \in Work /\ w.task \in Row /\ w.task.quota \in Nat /\ w.actual \in Nat
      /\ row[t] \in Row /\ paid[t] \in Int /\ token[t] \in Int /\ up[t] \in Status
  BY FieldTypes
<1>a. ASSUME NEW r \in Row PROVE [row EXCEPT ![t] = r] \in [Tasks -> Row]
  BY DEF TypeOK
<1>1. CASE Sweep(p, t)
  <2> DEFINE failed == [w.task EXCEPT !.status = "FAILURE", !.full = TRUE]
  <2>1. failed \in Row
    BY <1>0 DEF Row, Status, Terminal
  <2>2. [w EXCEPT !.pc = "refund", !.task = failed] \in Work
    BY <1>0, <2>1 DEF Work
  <2>3. work' \in [Passes -> [Tasks -> Work]]
    BY <1>1, <2>2, GoesType, EndsType, IdleType DEF Sweep
  <2>4. row' \in [Tasks -> Row]
    BY <1>1, <2>1, <1>a DEF Sweep, UpdateWithStatus, Lost, TypeOK
  <2>5. faulty' \subseteq Tasks /\ fails' \in 0..MaxFail
    BY <1>1, FailsType DEF Sweep
  <2>6. QED
    BY <1>1, <2>3, <2>4, <2>5 DEF Sweep, Outside, Ledger, TypeOK
<1>2. CASE Skip(p, t)
  BY <1>2, EndsType DEF Skip, Outside, Ledger, TypeOK
<1>3. CASE BulkFail(p, t)
  <2>1. row' \in [Tasks -> Row]
    <3>1. CASE UNCHANGED row
      BY <3>1 DEF TypeOK
    <3>2. CASE row' = [row EXCEPT ![t].status = "FAILURE", ![t].full = TRUE]
      BY <3>2 DEF TypeOK, Row, Status, Terminal
    <3>3. QED
      BY <1>3, <3>1, <3>2 DEF BulkFail
  <2>2. faulty' \subseteq Tasks /\ fails' \in 0..MaxFail /\ bulk' \subseteq Tasks
    BY <1>3, FailsType DEF BulkFail, TypeOK
  <2>3. QED
    BY <1>3, <2>1, <2>2, EndsType DEF BulkFail, Ledger, TypeOK
<1>4. CASE VideoAnswer(p, t)
  <2>1. ASSUME NEW s \in Answers(t), NEW full \in Progress(t, s)
        PROVE  [w EXCEPT !.pc = "save", !.task.status = s, !.task.full = full] \in Work
    <3>1. s \in Status /\ full \in BOOLEAN
      BY AnswersType, ProgressType
    <3>2. QED
      BY <1>0, <3>1 DEF Work, Row
  <2>2. work' \in [Passes -> [Tasks -> Work]]
    BY <1>4, <2>1, GoesType DEF VideoAnswer
  <2>3. QED
    BY <1>4, <2>2 DEF VideoAnswer, Outside, Ledger, TypeOK
<1>5. CASE VideoSave(p, t)
  <2>1. [w EXCEPT !.pc = "settle"] \in Work /\ [w EXCEPT !.pc = "refund"] \in Work
    BY <1>0 DEF Work
  <2>2. work' \in [Passes -> [Tasks -> Work]]
    BY <1>5, <2>1, GoesType, EndsType, IdleType DEF VideoSave
  <2>3. row' \in [Tasks -> Row]
    BY <1>5, <1>0, <1>a DEF VideoSave, UpdateWithStatus, Lost, TypeOK
  <2>4. faulty' \subseteq Tasks /\ fails' \in 0..MaxFail
    BY <1>5, FailsType DEF VideoSave
  <2>5. QED
    BY <1>5, <2>2, <2>3, <2>4 DEF VideoSave, Outside, Ledger, TypeOK
<1>6. CASE SunoAnswer(p, t)
  <2>1. ASSUME NEW reason \in BOOLEAN
        PROVE  [w EXCEPT !.pc = IF reason /\ w.task.quota # 0 THEN "refund" ELSE "save",
                         !.then = "save", !.task.status = up[t],
                         !.task.full = reason \/ up[t] = "SUCCESS"] \in Work
    BY <1>0 DEF Work, Row
  <2>2. work' \in [Passes -> [Tasks -> Work]]
    BY <1>6, <2>1, GoesType DEF SunoAnswer
  <2>3. QED
    BY <1>6, <2>2 DEF SunoAnswer, Outside, Ledger, TypeOK
<1>7. CASE SunoSave(p, t)
  <2>1. row' \in [Tasks -> Row]
    BY <1>7, <1>0, <1>a DEF SunoSave, TypeOK
  <2>2. faulty' \subseteq Tasks /\ fails' \in 0..MaxFail
    BY <1>7, FailsType DEF SunoSave
  <2>3. QED
    BY <1>7, <2>1, <2>2, EndsType DEF SunoSave, Outside, Ledger, TypeOK
<1>r. Refunded(w) \in Work
  BY <1>0, IdleType DEF Refunded, Work
<1>8. CASE Refund(p, t)
  <2>1. [w EXCEPT !.pc = "refundToken"] \in Work
    BY <1>0 DEF Work
  <2>2. work' \in [Passes -> [Tasks -> Work]]
    BY <1>8, <2>1, <1>r, GoesType DEF Refund
  <2>3. paid' \in [Tasks -> Int]
    BY <1>8, <1>0 DEF Refund, TypeOK
  <2>4. faulty' \subseteq Tasks /\ fails' \in 0..MaxFail
    BY <1>8, FailsType DEF Refund
  <2>5. QED
    BY <1>8, <2>2, <2>3, <2>4 DEF Refund, Outside, TypeOK
<1>9. CASE RefundToken(p, t)
  <2>1. work' \in [Passes -> [Tasks -> Work]]
    BY <1>9, <1>r, GoesType DEF RefundToken
  <2>2. token' \in [Tasks -> Int]
    BY <1>9, <1>0 DEF RefundToken, TypeOK
  <2>3. faulty' \subseteq Tasks /\ fails' \in 0..MaxFail
    BY <1>9, FailsType DEF RefundToken
  <2>4. QED
    BY <1>9, <2>1, <2>2, <2>3 DEF RefundToken, Outside, TypeOK
<1>10. CASE Settle(p, t)
  <2>1. \A a \in Actuals : [w EXCEPT !.pc = "settleToken", !.actual = a] \in Work
    BY <1>0, TasksAssumption DEF Work
  <2>2. work' \in [Passes -> [Tasks -> Work]]
    BY <1>10, <2>1, GoesType, EndsType DEF Settle
  <2>3. paid' \in [Tasks -> Int]
    <3>1. \A a \in Actuals : paid[t] + (a - w.task.quota) \in Int
      <4>1. Actuals \subseteq Int
        BY TasksAssumption
      <4>2. w.task.quota \in Int
        BY <1>0
      <4>3. paid[t] \in Int
        BY <1>0
      <4>4. ASSUME NEW n \in Int, NEW a \in Int, NEW k \in Int
            PROVE  n + (a - k) \in Int
        OBVIOUS
      <4>5. QED
        BY <4>1, <4>2, <4>3, <4>4
    <3>2. \A a \in Actuals : [paid EXCEPT ![t] = @ + (a - w.task.quota)] \in [Tasks -> Int]
      BY <3>1 DEF TypeOK
    <3>3. paid' = paid \/ \E a \in Actuals : paid' = [paid EXCEPT ![t] = @ + (a - w.task.quota)]
      BY <1>10 DEF Settle
    <3>4. QED
      BY <3>2, <3>3 DEF TypeOK
  <2>4. faulty' \subseteq Tasks /\ fails' \in 0..MaxFail
    BY <1>10, FailsType DEF Settle
  <2>5. QED
    BY <1>10, <2>2, <2>3, <2>4 DEF Settle, Outside, TypeOK
<1>11. CASE SettleToken(p, t)
  <2>1. [w EXCEPT !.pc = "quota"] \in Work
    BY <1>0 DEF Work
  <2>2. work' \in [Passes -> [Tasks -> Work]]
    BY <1>11, <2>1, GoesType DEF SettleToken
  <2>3. token' \in [Tasks -> Int]
    BY <1>11, <1>0 DEF SettleToken, TypeOK
  <2>4. faulty' \subseteq Tasks /\ fails' \in 0..MaxFail
    BY <1>11, FailsType DEF SettleToken
  <2>5. QED
    BY <1>11, <2>2, <2>3, <2>4 DEF SettleToken, Outside, TypeOK
<1>12. CASE UpdateQuota(p, t)
  <2>1. row' \in [Tasks -> Row]
    <3>1. [row[t] EXCEPT !.quota = w.actual] \in Row
      BY <1>0 DEF Row
    <3>2. QED
      BY <1>12, <3>1 DEF UpdateQuota, TypeOK
  <2>2. faulty' \subseteq Tasks /\ fails' \in 0..MaxFail
    BY <1>12, FailsType DEF UpdateQuota
  <2>3. QED
    BY <1>12, <2>1, <2>2, EndsType DEF UpdateQuota, Outside, Ledger, TypeOK
<1>13. QED
  BY <1>1, <1>2, <1>3, <1>4, <1>5, <1>6, <1>7, <1>8, <1>9, <1>10, <1>11, <1>12 DEF TaskStep

LEMMA TypeGet ==
  ASSUME TypeOK, NEW g \in Gets, NEW t \in Tasks, GetRead(g, t) \/ GetAnswer(g, t) \/ GetSave(g, t)
  PROVE  TypeOK'
<1> DEFINE r == get[g][t]
<1>0. r \in Get /\ r.task \in Row /\ row[t] \in Row /\ row[t].status \in Status
  BY DEF TypeOK, Get, Row
<1>a. ASSUME NEW r2 \in Get, Asks(g, t, r2) PROVE get' \in [Gets -> [Tasks -> Get]]
  BY <1>a DEF Asks, TypeOK
<1>1. CASE GetRead(g, t)
  <2>1. [pc |-> "ask", was |-> row[t].status, task |-> row[t]] \in Get
    BY <1>0 DEF Get
  <2>2. QED
    BY <1>1, <2>1, <1>a DEF GetRead, Inside, TypeOK
<1>2. CASE GetAnswer(g, t)
  <2>1. ASSUME NEW s \in Answers(t), NEW full \in Progress(t, s)
        PROVE  [r EXCEPT !.pc = "save", !.task.status = s, !.task.full = full] \in Get
    <3>1. s \in Status /\ full \in BOOLEAN
      BY AnswersType, ProgressType
    <3>2. QED
      BY <1>0, <3>1 DEF Get, Row
  <2>2. get' \in [Gets -> [Tasks -> Get]]
    BY <1>2, <2>1, <1>a, IdleType DEF GetAnswer
  <2>3. QED
    BY <1>2, <2>2 DEF GetAnswer, Inside, TypeOK
<1>3. CASE GetSave(g, t)
  <2>1. row' \in [Tasks -> Row]
    BY <1>3, <1>0 DEF GetSave, UpdateWithStatus, Lost, TypeOK
  <2>2. faulty' \subseteq Tasks /\ fails' \in 0..MaxFail
    BY <1>3, FailsType DEF GetSave
  <2>3. QED
    BY <1>3, <2>1, <2>2, <1>a, IdleType DEF GetSave, Inside, TypeOK
<1>4. QED
  BY <1>1, <1>2, <1>3

LEMMA TypeNext == ASSUME TypeOK, [Next]_vars PROVE TypeOK'
<1>1. CASE UNCHANGED vars
  BY <1>1 DEF vars, TypeOK
<1>2. CASE Next
  BY <1>2, TypeWorld, TypeLists, TypeTaskStep, TypeGet DEF Next, PassStep, GetStep
<1>3. QED
  BY <1>1, <1>2

\* Every variable keeps its type: no step writes a row, a charge or a copy
\* that is not one, and no failure is counted beyond the bound.
THEOREM TypeCorrect == Spec => []TypeOK
  BY TypeInit, TypeNext, PTL DEF Spec

-----------------------------------------------------------------------------
(* The invariant.                                                          *)

\* A pass p leaves work of a task at w; all other passes keep theirs.
WorkMoves(p, t, w) == \A q \in Passes : work'[q][t] = IF q = p THEN w ELSE work[q][t]

\* Nothing happens around a task.
AroundKept(t) == /\ up'[t] = up[t] /\ late' = late /\ bulk' = bulk
                 /\ \A g \in Gets : get'[g][t] = get[g][t]

FaultsGrow(t) == t \in faulty => t \in faulty'

BillKept(t) == paid'[t] = paid[t] /\ token'[t] = token[t]

\* The work on a task goes on, or is given up before it has billed anything, or
\* is given up and the task is on record as faulty.
WorkKept(t) ==
    \A q \in Passes :
        \/ work'[q][t] = work[q][t]
        \/ /\ work'[q][t] = Idle
           /\ \/ work[q][t].pc \in {"none", "sweep", "poll"}
              \/ work[q][t].pc = "save" /\ t \notin Suno
              \/ t \in faulty'

\* A task is as before when its row and its bill are, its work goes on or is
\* given up in time, and the world outside moves on only.
LEMMA Kept ==
  ASSUME NEW t \in Tasks \ Contested, TaskInv(t),
         row'[t] = row[t], BillKept(t), FaultsGrow(t), WorkKept(t),
         up'[t] = up[t] \/ up[t] \in Unfinished,
         t \in late => t \in late', t \in late' => t \in late \/ t \notin Realtime,
         t \in bulk => t \in bulk',
         \A g \in Gets : get'[g][t] = get[g][t] \/ get'[g][t] = NoGet
  PROVE  TaskInv(t)'
<1>0. Idle.pc = "none" /\ Idle.then = "none" /\ NoGet.pc = "none"
  BY DEF Idle, NoGet
<1>1. Loads(t)'
  BY <1>0 DEF TaskInv, Loads, WorkKept, Settling, Refunding
<1>2. Single(t)'
  BY <1>0 DEF TaskInv, Single, WorkKept, BillKept, Billing, Settling, Refunding
<1>3. Kinds(t)'
  BY <1>0 DEF TaskInv, Kinds, WorkKept, Settling, Refunding
<1>4. Due(t)'
  BY <1>0 DEF TaskInv, Due, WorkKept, BillKept, FaultsGrow
<1>5. Held(t)'
  BY <1>0 DEF TaskInv, Held, Listed, Spent, WorkKept, BillKept, FaultsGrow, Refunding
<1>6. Mirrors(t)'
  BY <1>0 DEF TaskInv, Mirrors, WorkKept, Unfinished, Terminal
<1>7. Asked(t)'
  BY <1>0 DEF TaskInv, Asked
<1>8. FailedPays(t)'
  BY <1>0 DEF TaskInv, FailedPays, WorkKept, BillKept, FaultsGrow, Refunding
<1>9. SuccessPays(t)'
  BY <1>0 DEF TaskInv, SuccessPays, WorkKept, BillKept, FaultsGrow, Settling
<1>10. QED
  BY <1>1, <1>2, <1>3, <1>4, <1>5, <1>6, <1>7, <1>8, <1>9 DEF TaskInv

\* SweepList and PollList: a listed task is loaded.
LEMMA LoadKeeps ==
  ASSUME TypeOK, NEW p \in Passes, NEW t \in Tasks \ Contested, TaskInv(t),
         NEW pc \in {"sweep", "poll"}, Listed(t), pc = "sweep" => t \in late,
         work[p][t].pc = "none",
         WorkMoves(p, t, Loaded(pc, t)), row' = row, BillKept(t), faulty' = faulty, AroundKept(t)
  PROVE  TaskInv(t)'
<1> DEFINE w == Loaded(pc, t)
<1>0. /\ w.pc = pc /\ w.was = row[t].status /\ w.then = "none" /\ w.task = row[t]
      /\ row[t].status \in Unfinished /\ row[t].quota = Quota
  BY DEF Loaded, Idle, Listed, TaskInv, Single
<1> HIDE DEF w
<1>m. WorkMoves(p, t, w)
  BY DEF w
<1>1. Loads(t)'
  BY <1>0, <1>m DEF TaskInv, Loads, WorkMoves, AroundKept, Settling, Refunding
<1>2. Single(t)'
  BY <1>0, <1>m DEF TaskInv, Single, WorkMoves, BillKept, Billing, Settling, Refunding
<1>3. Kinds(t)'
  BY <1>0, <1>m DEF TaskInv, Kinds, WorkMoves, AroundKept, Settling, Refunding
<1>4. Due(t)'
  BY <1>0, <1>m DEF TaskInv, Due, WorkMoves, BillKept
<1>5. Held(t)'
  BY <1>0, <1>m DEF TaskInv, Held, Listed, Spent, WorkMoves, BillKept, Refunding
<1>6. Mirrors(t)'
  BY <1>0, <1>m DEF TaskInv, Mirrors, WorkMoves, AroundKept
<1>7. Asked(t)'
  BY DEF TaskInv, Asked, AroundKept
<1>8. FailedPays(t)'
  BY <1>0, <1>m DEF TaskInv, FailedPays, WorkMoves, BillKept, AroundKept, Refunding
<1>9. SuccessPays(t)'
  BY <1>0, <1>m DEF TaskInv, SuccessPays, WorkMoves, BillKept, Settling
<1>10. QED
  BY <1>1, <1>2, <1>3, <1>4, <1>5, <1>6, <1>7, <1>8, <1>9 DEF TaskInv

\* Sweep: a task that has timed out fails.
LEMMA SweepFails ==
  ASSUME TypeOK, NEW p \in Passes, NEW t \in Tasks \ Contested, TaskInv(t),
         work[p][t].pc = "sweep", row[t].status = work[p][t].was,
         row'[t] = [work[p][t].task EXCEPT !.status = "FAILURE", !.full = TRUE],
         WorkMoves(p, t, IF t \notin Legacy /\ work[p][t].task.quota # 0
                         THEN [work[p][t] EXCEPT !.pc = "refund", !.task = row'[t]] ELSE Idle),
         BillKept(t), FaultsGrow(t), AroundKept(t)
  PROVE  TaskInv(t)'
<1> DEFINE w == work[p][t]
<1> DEFINE w2 == IF t \notin Legacy /\ work[p][t].task.quota # 0
                THEN [work[p][t] EXCEPT !.pc = "refund", !.task = row'[t]] ELSE Idle
<1>t. /\ w \in Work /\ row[t] \in Row /\ w.task \in Row /\ Quota \in Nat /\ up[t] \in Status
      /\ paid[t] \in Int /\ token[t] \in Int
  BY FieldTypes, TasksAssumption
<1>a. t \in Suno => \A q \in Passes : q = p
  BY DEF Contested, Alone
<1>b. /\ w.was \in Unfinished /\ w.then = "none" /\ w.task.quota = Quota /\ t \in late
      /\ t \notin Realtime /\ (t \in Suno => Listed(t))
  BY DEF TaskInv, Loads, Held, Mirrors
<1>c. /\ \A q \in Passes : work[q][t].pc \notin Billing
      /\ t \notin Suno \cap faulty => paid[t] = Quota /\ token[t] = Quota
  BY <1>a, <1>b DEF TaskInv, Single, Held, Billing, Refunding, Settling
<1>d. row'[t].status = "FAILURE" /\ row'[t].full /\ row'[t].quota = Quota
  BY <1>t, <1>b DEF Row
<1>e. \/ w2.pc = "refund" /\ w2.then = "none" /\ w2.task.quota = Quota /\ w2.was = w.was
      \/ w2 = Idle /\ Idle.pc = "none" /\ Idle.then = "none" /\ (t \in Legacy \/ Quota = 0)
  BY <1>t, <1>b, <1>d DEF Work, Row, Idle
<1>m. WorkMoves(p, t, w2)
  OBVIOUS
<1> HIDE DEF w2
<1>1. Loads(t)'
  BY <1>t, <1>a, <1>b, <1>c, <1>d, <1>e, <1>m DEF TaskInv, Loads, WorkMoves, AroundKept, Settling, Refunding, Unfinished, Terminal
<1>2. Single(t)'
  BY <1>t, <1>a, <1>b, <1>c, <1>d, <1>e, <1>m DEF TaskInv, Single, WorkMoves, BillKept, Billing, Settling, Refunding, Unfinished
<1>3. Kinds(t)'
  BY <1>t, <1>a, <1>b, <1>c, <1>d, <1>e, <1>m DEF TaskInv, Kinds, WorkMoves, AroundKept, Settling, Refunding, Billing
<1>4. Due(t)'
  BY <1>t, <1>a, <1>b, <1>c, <1>d, <1>e, <1>m DEF TaskInv, Due, WorkMoves, BillKept, FaultsGrow
<1>5. Held(t)'
  BY <1>t, <1>a, <1>b, <1>c, <1>d, <1>e, <1>m DEF TaskInv, Held, Listed, Spent, WorkMoves, BillKept, FaultsGrow, Refunding, Unfinished
<1>6. Mirrors(t)'
  BY <1>t, <1>a, <1>b, <1>c, <1>d, <1>e, <1>m DEF TaskInv, Mirrors, WorkMoves, AroundKept
<1>7. Asked(t)'
  BY <1>t, <1>a, <1>b, <1>c, <1>d, <1>e, <1>m DEF TaskInv, Asked, AroundKept
<1>8. FailedPays(t)'
  BY <1>t, <1>a, <1>b, <1>c, <1>d, <1>e, <1>m DEF TaskInv, FailedPays, WorkMoves, BillKept, AroundKept, FaultsGrow, Refunding
<1>9. SuccessPays(t)'
  BY <1>t, <1>a, <1>b, <1>c, <1>d, <1>e, <1>m DEF TaskInv, SuccessPays, WorkMoves, BillKept, FaultsGrow, Settling
<1>10. QED
  BY <1>1, <1>2, <1>3, <1>4, <1>5, <1>6, <1>7, <1>8, <1>9 DEF TaskInv

\* BulkFail: a task whose channel is not found fails.
LEMMA BulkFails ==
  ASSUME TypeOK, NEW p \in Passes, NEW t \in Tasks \ Contested, TaskInv(t),
         work[p][t].pc = "poll", t \notin Realtime,
         row'[t] = [row[t] EXCEPT !.status = "FAILURE", !.full = TRUE],
         WorkMoves(p, t, Idle),
         BillKept(t), FaultsGrow(t), up' = up, late' = late, bulk' = bulk \cup {t}, get' = get
  PROVE  TaskInv(t)'
<1> DEFINE w == work[p][t]
<1>t. /\ w \in Work /\ row[t] \in Row /\ w.task \in Row /\ Quota \in Nat /\ up[t] \in Status
      /\ paid[t] \in Int /\ token[t] \in Int
  BY FieldTypes, TasksAssumption
<1>a. t \in Suno => \A q \in Passes : q = p
  BY DEF Contested, Alone
<1>b. row'[t].status = "FAILURE" /\ row'[t].full /\ row'[t].quota = row[t].quota
  BY <1>t DEF Row
<1>c. Idle.pc = "none" /\ Idle.then = "none"
  BY DEF Idle
<1>1. Loads(t)'
  BY <1>t, <1>a, <1>b, <1>c DEF TaskInv, Loads, WorkMoves, Settling, Refunding
<1>2. Single(t)'
  BY <1>t, <1>a, <1>b, <1>c DEF TaskInv, Single, WorkMoves, BillKept, Billing, Settling, Refunding, Unfinished
<1>3. Kinds(t)'
  BY <1>t, <1>a, <1>b, <1>c DEF TaskInv, Kinds, WorkMoves, Settling, Refunding
<1>4. Due(t)'
  BY <1>t, <1>a, <1>b, <1>c DEF TaskInv, Due, WorkMoves, BillKept, FaultsGrow
<1>5. Held(t)'
  BY <1>t, <1>a, <1>b, <1>c DEF TaskInv, Held, Listed, Spent, WorkMoves, BillKept, FaultsGrow, Refunding, Unfinished
<1>6. Mirrors(t)'
  BY <1>t, <1>a, <1>b, <1>c DEF TaskInv, Mirrors, WorkMoves
<1>7. Asked(t)'
  BY <1>t, <1>a, <1>b, <1>c DEF TaskInv, Asked
<1>8. FailedPays(t)'
  BY <1>t, <1>a, <1>b, <1>c DEF TaskInv, FailedPays, WorkMoves, BillKept, FaultsGrow, Refunding
<1>9. SuccessPays(t)'
  BY <1>t, <1>a, <1>b, <1>c DEF TaskInv, SuccessPays, WorkMoves, BillKept, FaultsGrow, Settling
<1>10. QED
  BY <1>1, <1>2, <1>3, <1>4, <1>5, <1>6, <1>7, <1>8, <1>9 DEF TaskInv

\* VideoAnswer: the answer goes into the copy.
LEMMA VideoAnswers ==
  ASSUME TypeOK, NEW p \in Passes, NEW t \in Tasks \ Contested, TaskInv(t),
         work[p][t].pc = "poll", t \notin Suno, NEW s \in Answers(t), NEW full \in BOOLEAN,
         WorkMoves(p, t, [work[p][t] EXCEPT !.pc = "save", !.task.status = s, !.task.full = full]),
         row' = row, BillKept(t), FaultsGrow(t), AroundKept(t)
  PROVE  TaskInv(t)'
<1> DEFINE w == work[p][t]
<1> DEFINE w2 == [work[p][t] EXCEPT !.pc = "save", !.task.status = s, !.task.full = full]
<1>t. /\ w \in Work /\ row[t] \in Row /\ w.task \in Row /\ Quota \in Nat /\ up[t] \in Status
      /\ paid[t] \in Int /\ token[t] \in Int
  BY FieldTypes, TasksAssumption
<1>a. w.was \in Unfinished /\ w.then = "none" /\ w.task.quota = Quota
  BY DEF TaskInv, Loads
<1>b. w2.pc = "save" /\ w2.was = w.was /\ w2.then = "none" /\ w2.task.quota = Quota /\ w2.task.status = s
  BY <1>t, <1>a DEF Work, Row
<1>c. t \in Realtime => s = up[t]
  BY DEF Answers, Contested
<1>m. WorkMoves(p, t, w2)
  OBVIOUS
<1> HIDE DEF w2
<1>1. Loads(t)'
  BY <1>t, <1>a, <1>b, <1>c, <1>m DEF TaskInv, Loads, WorkMoves, AroundKept, Settling, Refunding
<1>2. Single(t)'
  BY <1>t, <1>a, <1>b, <1>c, <1>m DEF TaskInv, Single, WorkMoves, BillKept, Billing, Settling, Refunding
<1>3. Kinds(t)'
  BY <1>t, <1>a, <1>b, <1>c, <1>m DEF TaskInv, Kinds, WorkMoves, AroundKept, Settling, Refunding
<1>4. Due(t)'
  BY <1>t, <1>a, <1>b, <1>c, <1>m DEF TaskInv, Due, WorkMoves, BillKept, FaultsGrow
<1>5. Held(t)'
  BY <1>t, <1>a, <1>b, <1>c, <1>m DEF TaskInv, Held, Listed, Spent, WorkMoves, BillKept, FaultsGrow, Refunding
<1>6. Mirrors(t)'
  BY <1>t, <1>a, <1>b, <1>c, <1>m DEF TaskInv, Mirrors, WorkMoves, AroundKept
<1>7. Asked(t)'
  BY <1>t, <1>a, <1>b, <1>c, <1>m DEF TaskInv, Asked, AroundKept
<1>8. FailedPays(t)'
  BY <1>t, <1>a, <1>b, <1>c, <1>m DEF TaskInv, FailedPays, WorkMoves, BillKept, AroundKept, FaultsGrow, Refunding
<1>9. SuccessPays(t)'
  BY <1>t, <1>a, <1>b, <1>c, <1>m DEF TaskInv, SuccessPays, WorkMoves, BillKept, FaultsGrow, Settling
<1>10. QED
  BY <1>1, <1>2, <1>3, <1>4, <1>5, <1>6, <1>7, <1>8, <1>9 DEF TaskInv

\* VideoSave: who wins the update moves the task, and bills it at its end.
LEMMA VideoSaves ==
  ASSUME TypeOK, NEW p \in Passes, NEW t \in Tasks \ Contested, TaskInv(t),
         work[p][t].pc = "save", t \notin Suno, row[t].status = work[p][t].was,
         row'[t] = work[p][t].task,
         NEW w2 \in {[work[p][t] EXCEPT !.pc = "settle"], [work[p][t] EXCEPT !.pc = "refund"], Idle},
         work[p][t].task.status = "SUCCESS" => w2.pc = "settle",
         work[p][t].task.status = "FAILURE" /\ work[p][t].task.quota # 0 => w2.pc = "refund",
         w2.pc = "settle" => work[p][t].task.status = "SUCCESS",
         w2.pc = "refund" => work[p][t].task.status = "FAILURE",
         WorkMoves(p, t, w2),
         BillKept(t), FaultsGrow(t), AroundKept(t)
  PROVE  TaskInv(t)'
<1> DEFINE w == work[p][t]
<1>t. /\ w \in Work /\ row[t] \in Row /\ w.task \in Row /\ Quota \in Nat /\ up[t] \in Status
      /\ paid[t] \in Int /\ token[t] \in Int
  BY FieldTypes, TasksAssumption
<1>a. w.was \in Unfinished /\ w.then # "save" /\ w.task.quota = Quota
  BY DEF TaskInv, Loads
<1>b. /\ \A q \in Passes : work[q][t].pc \notin Billing
      /\ paid[t] = Quota /\ token[t] = Quota
  BY <1>a DEF TaskInv, Single
<1>c. /\ w2.pc \in {"settle", "refund", "none"} /\ w2.then # "save"
      /\ w2.pc # "none" => w2.task.quota = Quota
  BY <1>t, <1>a DEF Work, Idle
<1>d. w.task.status \in Status
  BY <1>t DEF Row
<1>1. Loads(t)'
  BY <1>t, <1>a, <1>b, <1>c, <1>d DEF TaskInv, Loads, WorkMoves, AroundKept, Settling, Refunding
<1>2. Single(t)'
  BY <1>t, <1>a, <1>b, <1>c, <1>d DEF TaskInv, Single, WorkMoves, BillKept, Billing, Settling, Refunding, Unfinished
<1>3. Kinds(t)'
  BY <1>t, <1>a, <1>b, <1>c, <1>d DEF TaskInv, Kinds, WorkMoves, AroundKept, Settling, Refunding, Billing
<1>4. Due(t)'
  BY <1>t, <1>a, <1>b, <1>c, <1>d DEF TaskInv, Due, WorkMoves, BillKept, FaultsGrow, Billing, Refunding, Settling
<1>5. Held(t)'
  BY <1>t, <1>a, <1>b, <1>c, <1>d DEF TaskInv, Held, Listed, Spent, WorkMoves, BillKept, FaultsGrow, Refunding
<1>6. Mirrors(t)'
  BY <1>t, <1>a, <1>b, <1>c, <1>d DEF TaskInv, Mirrors, WorkMoves, AroundKept
<1>7. Asked(t)'
  BY <1>t, <1>a, <1>b, <1>c, <1>d DEF TaskInv, Asked, AroundKept
<1>8. FailedPays(t)'
  BY <1>t, <1>a, <1>b, <1>c, <1>d DEF TaskInv, FailedPays, WorkMoves, BillKept, AroundKept, FaultsGrow, Refunding, Status, Unfinished, Terminal, Billing
<1>9. SuccessPays(t)'
  BY <1>t, <1>a, <1>b, <1>c, <1>d DEF TaskInv, SuccessPays, WorkMoves, BillKept, FaultsGrow, Settling, Status, Unfinished, Terminal, Billing
<1>10. QED
  BY <1>1, <1>2, <1>3, <1>4, <1>5, <1>6, <1>7, <1>8, <1>9 DEF TaskInv

\* SunoAnswer: the answer goes into the copy, which is refunded at once.
LEMMA SunoAnswers ==
  ASSUME TypeOK, NEW p \in Passes, NEW t \in Tasks \ Contested, TaskInv(t),
         work[p][t].pc = "poll", t \in Suno, NEW reason \in BOOLEAN,
         up[t] = "FAILURE" => reason, reason => up[t] \in {"IN_PROGRESS", "FAILURE"},
         WorkMoves(p, t, [work[p][t] EXCEPT !.pc = IF reason /\ work[p][t].task.quota # 0 THEN "refund" ELSE "save",
                                             !.then = "save", !.task.status = up[t],
                                             !.task.full = reason \/ up[t] = "SUCCESS"]),
         row' = row, BillKept(t), FaultsGrow(t), AroundKept(t)
  PROVE  TaskInv(t)'
<1> DEFINE w == work[p][t]
<1> DEFINE w2 == [work[p][t] EXCEPT !.pc = IF reason /\ work[p][t].task.quota # 0 THEN "refund" ELSE "save",
                                  !.then = "save", !.task.status = up[t],
                                  !.task.full = reason \/ up[t] = "SUCCESS"]
<1>t. /\ w \in Work /\ row[t] \in Row /\ w.task \in Row /\ Quota \in Nat /\ up[t] \in Status
      /\ paid[t] \in Int /\ token[t] \in Int
  BY FieldTypes, TasksAssumption
<1>a. \A q \in Passes : q = p
  BY DEF Contested, Alone
<1>b. w.task.quota = Quota /\ Listed(t) /\ (t \notin faulty => paid[t] = Quota /\ token[t] = Quota)
  BY DEF TaskInv, Loads, Held
<1>c. /\ w2.pc = (IF reason /\ Quota # 0 THEN "refund" ELSE "save") /\ w2.then = "save"
      /\ w2.task.quota = Quota /\ w2.task.status = up[t]
      /\ w2.task.full <=> (reason \/ up[t] = "SUCCESS")
  BY <1>t, <1>b DEF Work, Row
<1>d. t \notin Realtime
  BY TasksAssumption
<1>e. Spent(w2.task) <=> reason
  BY <1>c DEF Spent
<1>m. WorkMoves(p, t, w2)
  OBVIOUS
<1> HIDE DEF w2
<1>1. Loads(t)'
  BY <1>t, <1>a, <1>b, <1>c, <1>d, <1>e, <1>m DEF TaskInv, Loads, WorkMoves, AroundKept, Settling, Refunding
<1>2. Single(t)'
  BY <1>t, <1>a, <1>b, <1>c, <1>d, <1>e, <1>m DEF TaskInv, Single, WorkMoves, BillKept, Billing, Settling, Refunding
<1>3. Kinds(t)'
  BY <1>t, <1>a, <1>b, <1>c, <1>d, <1>e, <1>m DEF TaskInv, Kinds, WorkMoves, AroundKept, Settling, Refunding
<1>4. Due(t)'
  BY <1>t, <1>a, <1>b, <1>c, <1>d, <1>e, <1>m DEF TaskInv, Due, WorkMoves, BillKept, FaultsGrow
<1>5. Held(t)'
  BY <1>t, <1>a, <1>b, <1>c, <1>d, <1>e, <1>m DEF TaskInv, Held, Listed, Spent, WorkMoves, BillKept, FaultsGrow, Refunding
<1>6. Mirrors(t)'
  BY <1>t, <1>a, <1>b, <1>c, <1>d, <1>e, <1>m DEF TaskInv, Mirrors, WorkMoves, AroundKept
<1>7. Asked(t)'
  BY <1>t, <1>a, <1>b, <1>c, <1>d, <1>e, <1>m DEF TaskInv, Asked, AroundKept
<1>8. FailedPays(t)'
  BY <1>t, <1>a, <1>b, <1>c, <1>d, <1>e, <1>m DEF TaskInv, FailedPays, WorkMoves, BillKept, AroundKept, FaultsGrow, Refunding
<1>9. SuccessPays(t)'
  BY <1>t, <1>a, <1>b, <1>c, <1>d, <1>e, <1>m DEF TaskInv, SuccessPays, WorkMoves, BillKept, FaultsGrow, Settling
<1>10. QED
  BY <1>1, <1>2, <1>3, <1>4, <1>5, <1>6, <1>7, <1>8, <1>9 DEF TaskInv

\* SunoSave: the copy is written over the row.
LEMMA SunoSaves ==
  ASSUME TypeOK, NEW p \in Passes, NEW t \in Tasks \ Contested, TaskInv(t),
         work[p][t].pc = "save", t \in Suno,
         row'[t] = work[p][t].task,
         WorkMoves(p, t, Idle),
         BillKept(t), FaultsGrow(t), AroundKept(t)
  PROVE  TaskInv(t)'
<1> DEFINE w == work[p][t]
<1>t. /\ w \in Work /\ row[t] \in Row /\ w.task \in Row /\ Quota \in Nat /\ up[t] \in Status
      /\ paid[t] \in Int /\ token[t] \in Int
  BY FieldTypes, TasksAssumption
<1>a. \A q \in Passes : q = p
  BY DEF Contested, Alone
<1>b. w.task.quota = Quota /\ Listed(t)
  BY DEF TaskInv, Loads, Held
<1>c. t \notin faulty => paid[t] = (IF Spent(w.task) THEN 0 ELSE Quota) /\ token[t] = paid[t]
  BY DEF TaskInv, Held
<1>d. Idle.pc = "none" /\ Idle.then = "none"
  BY DEF Idle
<1>e. t \notin Realtime
  BY TasksAssumption
<1>1. Loads(t)'
  BY <1>t, <1>a, <1>b, <1>c, <1>d, <1>e DEF TaskInv, Loads, WorkMoves, AroundKept, Settling, Refunding
<1>2. Single(t)'
  BY <1>t, <1>a, <1>b, <1>c, <1>d, <1>e DEF TaskInv, Single, WorkMoves, BillKept, Billing, Settling, Refunding
<1>3. Kinds(t)'
  BY <1>t, <1>a, <1>b, <1>c, <1>d, <1>e DEF TaskInv, Kinds, WorkMoves, AroundKept, Settling, Refunding
<1>4. Due(t)'
  BY <1>t, <1>a, <1>b, <1>c, <1>d, <1>e DEF TaskInv, Due, WorkMoves, BillKept, FaultsGrow
<1>5. Held(t)'
  BY <1>t, <1>a, <1>b, <1>c, <1>d, <1>e DEF TaskInv, Held, Listed, Spent, WorkMoves, BillKept, FaultsGrow, Refunding, Unfinished
<1>6. Mirrors(t)'
  BY <1>t, <1>a, <1>b, <1>c, <1>d, <1>e DEF TaskInv, Mirrors, WorkMoves, AroundKept
<1>7. Asked(t)'
  BY <1>t, <1>a, <1>b, <1>c, <1>d, <1>e DEF TaskInv, Asked, AroundKept
<1>8. FailedPays(t)'
  BY <1>t, <1>a, <1>b, <1>c, <1>d, <1>e DEF TaskInv, FailedPays, WorkMoves, BillKept, AroundKept, FaultsGrow, Refunding, Spent
<1>9. SuccessPays(t)'
  BY <1>t, <1>a, <1>b, <1>c, <1>d, <1>e DEF TaskInv, SuccessPays, WorkMoves, BillKept, FaultsGrow, Settling, Spent
<1>10. QED
  BY <1>1, <1>2, <1>3, <1>4, <1>5, <1>6, <1>7, <1>8, <1>9 DEF TaskInv

\* Refund: the source is paid back.
LEMMA RefundPays ==
  ASSUME TypeOK, NEW p \in Passes, NEW t \in Tasks \ Contested, TaskInv(t),
         work[p][t].pc = "refund",
         row' = row, paid'[t] = paid[t] - work[p][t].task.quota, token' = token,
         WorkMoves(p, t, [work[p][t] EXCEPT !.pc = "refundToken"]),
         FaultsGrow(t), AroundKept(t)
  PROVE  TaskInv(t)'
<1> DEFINE w == work[p][t]
<1> DEFINE w2 == [work[p][t] EXCEPT !.pc = "refundToken"]
<1>t. /\ w \in Work /\ row[t] \in Row /\ w.task \in Row /\ Quota \in Nat /\ up[t] \in Status
      /\ paid[t] \in Int /\ token[t] \in Int
  BY FieldTypes, TasksAssumption
<1>a. t \in Suno => \A q \in Passes : q = p
  BY DEF Contested, Alone
<1>b. w.task.quota = Quota /\ (t \notin Suno \cap faulty => paid[t] = Quota /\ token[t] = Quota)
  BY DEF TaskInv, Loads, Due, Refunding
<1>c. /\ w2.pc = "refundToken" /\ w2.then = w.then /\ w2.task = w.task /\ w2.was = w.was
  BY <1>t DEF Work
<1>d. t \notin Suno \cap faulty => paid'[t] = 0 /\ token'[t] = Quota
  BY <1>t, <1>b
<1>e. /\ row[t].status \in Unfinished => t \in Suno
      /\ \A q \in Passes : q # p => work[q][t].pc \notin Billing
  BY DEF TaskInv, Single, Billing, Refunding
<1>f. row[t].status # "SUCCESS"
  BY DEF TaskInv, Kinds, Loads, Held, Listed, Unfinished, Refunding
<1>m. WorkMoves(p, t, w2)
  OBVIOUS
<1> HIDE DEF w2
<1>1. Loads(t)'
  BY <1>t, <1>a, <1>b, <1>c, <1>d, <1>e, <1>f, <1>m DEF TaskInv, Loads, WorkMoves, AroundKept, Settling, Refunding
<1>2. Single(t)'
  BY <1>t, <1>a, <1>b, <1>c, <1>d, <1>e, <1>f, <1>m DEF TaskInv, Single, WorkMoves, BillKept, Billing, Settling, Refunding
<1>3. Kinds(t)'
  BY <1>t, <1>a, <1>b, <1>c, <1>d, <1>e, <1>f, <1>m DEF TaskInv, Kinds, WorkMoves, AroundKept, Settling, Refunding
<1>4. Due(t)'
  BY <1>t, <1>a, <1>b, <1>c, <1>d, <1>e, <1>f, <1>m DEF TaskInv, Due, WorkMoves, BillKept, FaultsGrow, Billing, Refunding, Settling
<1>5. Held(t)'
  BY <1>t, <1>a, <1>b, <1>c, <1>d, <1>e, <1>f, <1>m DEF TaskInv, Held, Listed, Spent, WorkMoves, BillKept, FaultsGrow, Refunding
<1>6. Mirrors(t)'
  BY <1>t, <1>a, <1>b, <1>c, <1>d, <1>e, <1>f, <1>m DEF TaskInv, Mirrors, WorkMoves, AroundKept
<1>7. Asked(t)'
  BY <1>t, <1>a, <1>b, <1>c, <1>d, <1>e, <1>f, <1>m DEF TaskInv, Asked, AroundKept
<1>8. FailedPays(t)'
  BY <1>t, <1>a, <1>b, <1>c, <1>d, <1>e, <1>f, <1>m DEF TaskInv, FailedPays, WorkMoves, BillKept, AroundKept, FaultsGrow, Refunding
<1>9. SuccessPays(t)'
  BY <1>t, <1>a, <1>b, <1>c, <1>d, <1>e, <1>f, <1>m DEF TaskInv, SuccessPays, WorkMoves, BillKept, FaultsGrow, Settling
<1>10. QED
  BY <1>1, <1>2, <1>3, <1>4, <1>5, <1>6, <1>7, <1>8, <1>9 DEF TaskInv

\* RefundToken: the token is paid back.
LEMMA RefundTokenPays ==
  ASSUME TypeOK, NEW p \in Passes, NEW t \in Tasks \ Contested, TaskInv(t),
         work[p][t].pc = "refundToken",
         row' = row, paid' = paid, token'[t] = token[t] - work[p][t].task.quota,
         WorkMoves(p, t, Refunded(work[p][t])),
         FaultsGrow(t), AroundKept(t)
  PROVE  TaskInv(t)'
<1> DEFINE w == work[p][t]
<1> DEFINE w2 == Refunded(work[p][t])
<1>t. /\ w \in Work /\ row[t] \in Row /\ w.task \in Row /\ Quota \in Nat /\ up[t] \in Status
      /\ paid[t] \in Int /\ token[t] \in Int
  BY FieldTypes, TasksAssumption
<1>a. t \in Suno => \A q \in Passes : q = p
  BY DEF Contested, Alone
<1>b. w.task.quota = Quota /\ (t \notin Suno \cap faulty => paid[t] = 0 /\ token[t] = Quota)
  BY DEF TaskInv, Loads, Due, Refunding
<1>c. \/ /\ w.then = "save" /\ w2.pc = "save" /\ w2.then = "save" /\ w2.task = w.task
      \/ w.then # "save" /\ w2.pc = "none" /\ w2.then = "none"
  BY <1>t DEF Refunded, Work, Idle
<1>d. t \notin Suno \cap faulty => paid'[t] = 0 /\ token'[t] = 0
  BY <1>t, <1>b
<1>e. /\ row[t].status \in Unfinished => t \in Suno
      /\ \A q \in Passes : q # p => work[q][t].pc \notin Billing
      /\ w.then = "save" => t \in Suno /\ Spent(w.task)
      /\ t \in Suno /\ w.then # "save" => row[t].status = "FAILURE"
  BY DEF TaskInv, Single, Billing, Refunding, Loads, Held, Kinds
<1>f. /\ t \in Suno => t \notin Realtime
      /\ row[t].status # "SUCCESS"
  BY TasksAssumption DEF TaskInv, Kinds, Loads, Held, Listed, Unfinished, Refunding
<1>m. WorkMoves(p, t, w2)
  OBVIOUS
<1> HIDE DEF w2
<1>1. Loads(t)'
  BY <1>t, <1>a, <1>b, <1>c, <1>d, <1>e, <1>f, <1>m DEF TaskInv, Loads, WorkMoves, AroundKept, Settling, Refunding
<1>2. Single(t)'
  BY <1>t, <1>a, <1>b, <1>c, <1>d, <1>e, <1>f, <1>m DEF TaskInv, Single, WorkMoves, BillKept, Billing, Settling, Refunding
<1>3. Kinds(t)'
  BY <1>t, <1>a, <1>b, <1>c, <1>d, <1>e, <1>f, <1>m DEF TaskInv, Kinds, WorkMoves, AroundKept, Settling, Refunding
<1>4. Due(t)'
  BY <1>t, <1>a, <1>b, <1>c, <1>d, <1>e, <1>f, <1>m DEF TaskInv, Due, WorkMoves, BillKept, FaultsGrow, Billing, Refunding, Settling
<1>5. Held(t)'
  BY <1>t, <1>a, <1>b, <1>c, <1>d, <1>e, <1>f, <1>m DEF TaskInv, Held, Listed, Spent, WorkMoves, BillKept, FaultsGrow, Refunding, Unfinished
<1>6. Mirrors(t)'
  BY <1>t, <1>a, <1>b, <1>c, <1>d, <1>e, <1>f, <1>m DEF TaskInv, Mirrors, WorkMoves, AroundKept
<1>7. Asked(t)'
  BY <1>t, <1>a, <1>b, <1>c, <1>d, <1>e, <1>f, <1>m DEF TaskInv, Asked, AroundKept
<1>8. FailedPays(t)'
  BY <1>t, <1>a, <1>b, <1>c, <1>d, <1>e, <1>f, <1>m DEF TaskInv, FailedPays, WorkMoves, BillKept, AroundKept, FaultsGrow, Refunding
<1>9. SuccessPays(t)'
  BY <1>t, <1>a, <1>b, <1>c, <1>d, <1>e, <1>f, <1>m DEF TaskInv, SuccessPays, WorkMoves, BillKept, FaultsGrow, Settling
<1>10. QED
  BY <1>1, <1>2, <1>3, <1>4, <1>5, <1>6, <1>7, <1>8, <1>9 DEF TaskInv

\* Refund and RefundToken: a statement fails; what follows is done all the same.
LEMMA RefundFails ==
  ASSUME TypeOK, NEW p \in Passes, NEW t \in Tasks \ Contested, TaskInv(t),
         work[p][t].pc \in Refunding,
         row' = row, BillKept(t), t \in faulty', AroundKept(t),
         WorkMoves(p, t, Refunded(work[p][t]))
  PROVE  TaskInv(t)'
<1> DEFINE w == work[p][t]
<1> DEFINE w2 == Refunded(work[p][t])
<1>t. /\ w \in Work /\ row[t] \in Row /\ w.task \in Row /\ Quota \in Nat /\ up[t] \in Status
      /\ paid[t] \in Int /\ token[t] \in Int
  BY FieldTypes, TasksAssumption
<1>a. t \in Suno => \A q \in Passes : q = p
  BY DEF Contested, Alone
<1>b. w.task.quota = Quota
  BY DEF TaskInv, Loads, Refunding
<1>c. \/ /\ w.then = "save" /\ w2.pc = "save" /\ w2.then = "save" /\ w2.task = w.task
      \/ w.then # "save" /\ w2.pc = "none" /\ w2.then = "none"
  BY <1>t DEF Refunded, Work, Idle
<1>d. /\ w.then = "save" => t \in Suno /\ Spent(w.task)
      /\ t \in Suno /\ w.then # "save" => row[t].status = "FAILURE"
  BY DEF TaskInv, Refunding, Loads, Held, Kinds
<1>e. t \in Suno => t \notin Realtime
  BY TasksAssumption
<1>m. WorkMoves(p, t, w2)
  OBVIOUS
<1> HIDE DEF w2
<1>1. Loads(t)'
  BY <1>t, <1>a, <1>b, <1>c, <1>d, <1>e, <1>m DEF TaskInv, Loads, WorkMoves, AroundKept, Settling, Refunding
<1>2. Single(t)'
  BY <1>t, <1>a, <1>b, <1>c, <1>d, <1>e, <1>m DEF TaskInv, Single, WorkMoves, BillKept, Billing, Settling, Refunding
<1>3. Kinds(t)'
  BY <1>t, <1>a, <1>b, <1>c, <1>d, <1>e, <1>m DEF TaskInv, Kinds, WorkMoves, AroundKept, Settling, Refunding
<1>4. Due(t)'
  BY <1>t, <1>a, <1>b, <1>c, <1>d, <1>e, <1>m DEF TaskInv, Due, WorkMoves, BillKept, FaultsGrow
<1>5. Held(t)'
  BY <1>t, <1>a, <1>b, <1>c, <1>d, <1>e, <1>m DEF TaskInv, Held, Listed, Spent, WorkMoves, BillKept, FaultsGrow, Refunding, Unfinished
<1>6. Mirrors(t)'
  BY <1>t, <1>a, <1>b, <1>c, <1>d, <1>e, <1>m DEF TaskInv, Mirrors, WorkMoves, AroundKept
<1>7. Asked(t)'
  BY <1>t, <1>a, <1>b, <1>c, <1>d, <1>e, <1>m DEF TaskInv, Asked, AroundKept
<1>8. FailedPays(t)'
  BY <1>t, <1>a, <1>b, <1>c, <1>d, <1>e, <1>m DEF TaskInv, FailedPays, WorkMoves, BillKept, AroundKept, FaultsGrow, Refunding
<1>9. SuccessPays(t)'
  BY <1>t, <1>a, <1>b, <1>c, <1>d, <1>e, <1>m DEF TaskInv, SuccessPays, WorkMoves, BillKept, FaultsGrow, Settling
<1>10. QED
  BY <1>1, <1>2, <1>3, <1>4, <1>5, <1>6, <1>7, <1>8, <1>9 DEF TaskInv

\* Settle: the source pays the actual cost.
LEMMA SettlePays ==
  ASSUME TypeOK, NEW p \in Passes, NEW t \in Tasks \ Contested, TaskInv(t),
         work[p][t].pc = "settle", NEW a \in Actuals \ {0},
         row' = row, paid'[t] = paid[t] + (a - work[p][t].task.quota), token' = token,
         WorkMoves(p, t, [work[p][t] EXCEPT !.pc = "settleToken", !.actual = a]),
         FaultsGrow(t), AroundKept(t)
  PROVE  TaskInv(t)'
<1> DEFINE w == work[p][t]
<1> DEFINE w2 == [work[p][t] EXCEPT !.pc = "settleToken", !.actual = a]
<1>t. /\ w \in Work /\ row[t] \in Row /\ w.task \in Row /\ Quota \in Nat /\ up[t] \in Status
      /\ paid[t] \in Int /\ token[t] \in Int
  BY FieldTypes, TasksAssumption
<1>a. t \notin Suno /\ row[t].status \notin Unfinished /\ (row[t].status = "FAILURE" => t \in bulk)
  BY DEF TaskInv, Loads, Single, Kinds, Billing, Settling
<1>b. w.task.quota = Quota /\ paid[t] = Quota /\ token[t] = Quota /\ a \in Nat
  BY <1>a, TasksAssumption DEF TaskInv, Loads, Due
<1>c. /\ w2.pc = "settleToken" /\ w2.then = w.then /\ w2.task = w.task /\ w2.was = w.was /\ w2.actual = a
  BY <1>t, <1>b DEF Work
<1>d. paid'[t] = a /\ token'[t] = Quota
  BY <1>t, <1>b
<1>e. \A q \in Passes : q # p => work[q][t].pc \notin Billing
  BY DEF TaskInv, Single, Billing, Settling
<1>m. WorkMoves(p, t, w2)
  OBVIOUS
<1> HIDE DEF w2
<1>1. Loads(t)'
  BY <1>t, <1>a, <1>b, <1>c, <1>d, <1>e, <1>m DEF TaskInv, Loads, WorkMoves, AroundKept, Settling, Refunding
<1>2. Single(t)'
  BY <1>t, <1>a, <1>b, <1>c, <1>d, <1>e, <1>m DEF TaskInv, Single, WorkMoves, BillKept, Billing, Settling, Refunding
<1>3. Kinds(t)'
  BY <1>t, <1>a, <1>b, <1>c, <1>d, <1>e, <1>m DEF TaskInv, Kinds, WorkMoves, AroundKept, Settling, Refunding
<1>4. Due(t)'
  BY <1>t, <1>a, <1>b, <1>c, <1>d, <1>e, <1>m DEF TaskInv, Due, WorkMoves, BillKept, FaultsGrow, Billing, Refunding, Settling
<1>5. Held(t)'
  BY <1>t, <1>a, <1>b, <1>c, <1>d, <1>e, <1>m DEF TaskInv, Held, Listed, Spent, WorkMoves, BillKept, FaultsGrow, Refunding
<1>6. Mirrors(t)'
  BY <1>t, <1>a, <1>b, <1>c, <1>d, <1>e, <1>m DEF TaskInv, Mirrors, WorkMoves, AroundKept
<1>7. Asked(t)'
  BY <1>t, <1>a, <1>b, <1>c, <1>d, <1>e, <1>m DEF TaskInv, Asked, AroundKept
<1>8. FailedPays(t)'
  BY <1>t, <1>a, <1>b, <1>c, <1>d, <1>e, <1>m DEF TaskInv, FailedPays, WorkMoves, BillKept, AroundKept, FaultsGrow, Refunding
<1>9. SuccessPays(t)'
  BY <1>t, <1>a, <1>b, <1>c, <1>d, <1>e, <1>m DEF TaskInv, SuccessPays, WorkMoves, BillKept, FaultsGrow, Settling
<1>10. QED
  BY <1>1, <1>2, <1>3, <1>4, <1>5, <1>6, <1>7, <1>8, <1>9 DEF TaskInv

\* Settle: the estimate stays.
LEMMA SettleStays ==
  ASSUME TypeOK, NEW p \in Passes, NEW t \in Tasks \ Contested, TaskInv(t),
         work[p][t].pc = "settle",
         row' = row, BillKept(t), FaultsGrow(t), AroundKept(t),
         WorkMoves(p, t, Idle)
  PROVE  TaskInv(t)'
<1> DEFINE w == work[p][t]
<1>t. /\ w \in Work /\ row[t] \in Row /\ w.task \in Row /\ Quota \in Nat /\ up[t] \in Status
      /\ paid[t] \in Int /\ token[t] \in Int
  BY FieldTypes, TasksAssumption
<1>a. t \notin Suno /\ row[t].status \notin Unfinished /\ (row[t].status = "FAILURE" => t \in bulk)
  BY DEF TaskInv, Loads, Single, Kinds, Billing, Settling
<1>b. w.task.quota = Quota /\ paid[t] = Quota /\ token[t] = Quota
  BY <1>a DEF TaskInv, Loads, Due
<1>c. Idle.pc = "none" /\ Idle.then = "none"
  BY DEF Idle
<1>1. Loads(t)'
  BY <1>t, <1>a, <1>b, <1>c DEF TaskInv, Loads, WorkMoves, AroundKept, Settling, Refunding
<1>2. Single(t)'
  BY <1>t, <1>a, <1>b, <1>c DEF TaskInv, Single, WorkMoves, BillKept, Billing, Settling, Refunding
<1>3. Kinds(t)'
  BY <1>t, <1>a, <1>b, <1>c DEF TaskInv, Kinds, WorkMoves, AroundKept, Settling, Refunding
<1>4. Due(t)'
  BY <1>t, <1>a, <1>b, <1>c DEF TaskInv, Due, WorkMoves, BillKept, FaultsGrow
<1>5. Held(t)'
  BY <1>t, <1>a, <1>b, <1>c DEF TaskInv, Held, Listed, Spent, WorkMoves, BillKept, FaultsGrow, Refunding
<1>6. Mirrors(t)'
  BY <1>t, <1>a, <1>b, <1>c DEF TaskInv, Mirrors, WorkMoves, AroundKept
<1>7. Asked(t)'
  BY <1>t, <1>a, <1>b, <1>c DEF TaskInv, Asked, AroundKept
<1>8. FailedPays(t)'
  BY <1>t, <1>a, <1>b, <1>c DEF TaskInv, FailedPays, WorkMoves, BillKept, AroundKept, FaultsGrow, Refunding
<1>9. SuccessPays(t)'
  BY <1>t, <1>a, <1>b, <1>c DEF TaskInv, SuccessPays, WorkMoves, BillKept, FaultsGrow, Settling
<1>10. QED
  BY <1>1, <1>2, <1>3, <1>4, <1>5, <1>6, <1>7, <1>8, <1>9 DEF TaskInv

\* SettleToken: the token pays the actual cost, unless the statement fails.
LEMMA SettleTokenPays ==
  ASSUME TypeOK, NEW p \in Passes, NEW t \in Tasks \ Contested, TaskInv(t),
         work[p][t].pc = "settleToken",
         row' = row, paid' = paid, FaultsGrow(t), AroundKept(t),
         \/ token'[t] = token[t] + (work[p][t].actual - work[p][t].task.quota)
         \/ token'[t] = token[t] /\ t \in faulty',
         WorkMoves(p, t, [work[p][t] EXCEPT !.pc = "quota"])
  PROVE  TaskInv(t)'
<1> DEFINE w == work[p][t]
<1> DEFINE w2 == [work[p][t] EXCEPT !.pc = "quota"]
<1>t. /\ w \in Work /\ row[t] \in Row /\ w.task \in Row /\ Quota \in Nat /\ up[t] \in Status
      /\ paid[t] \in Int /\ token[t] \in Int
  BY FieldTypes, TasksAssumption
<1>a. t \notin Suno /\ row[t].status \notin Unfinished /\ (row[t].status = "FAILURE" => t \in bulk)
  BY DEF TaskInv, Loads, Single, Kinds, Billing, Settling
<1>b. /\ w.task.quota = Quota /\ paid[t] = w.actual /\ token[t] = Quota
      /\ w.actual \in Actuals \ {0} /\ w.actual \in Nat
  BY <1>t, <1>a DEF TaskInv, Loads, Due, Work
<1>c. /\ w2.pc = "quota" /\ w2.then = w.then /\ w2.task = w.task /\ w2.was = w.was /\ w2.actual = w.actual
  BY <1>t DEF Work
<1>d. paid'[t] = w.actual /\ token'[t] >= 0 /\ (t \in faulty' \/ token'[t] = w.actual)
  BY <1>t, <1>b
<1>e. \A q \in Passes : q # p => work[q][t].pc \notin Billing
  BY DEF TaskInv, Single, Billing, Settling
<1>m. WorkMoves(p, t, w2)
  OBVIOUS
<1> HIDE DEF w2
<1>1. Loads(t)'
  BY <1>t, <1>a, <1>b, <1>c, <1>d, <1>e, <1>m DEF TaskInv, Loads, WorkMoves, AroundKept, Settling, Refunding
<1>2. Single(t)'
  BY <1>t, <1>a, <1>b, <1>c, <1>d, <1>e, <1>m DEF TaskInv, Single, WorkMoves, BillKept, Billing, Settling, Refunding
<1>3. Kinds(t)'
  BY <1>t, <1>a, <1>b, <1>c, <1>d, <1>e, <1>m DEF TaskInv, Kinds, WorkMoves, AroundKept, Settling, Refunding
<1>4. Due(t)'
  BY <1>t, <1>a, <1>b, <1>c, <1>d, <1>e, <1>m DEF TaskInv, Due, WorkMoves, BillKept, FaultsGrow, Billing, Refunding, Settling
<1>5. Held(t)'
  BY <1>t, <1>a, <1>b, <1>c, <1>d, <1>e, <1>m DEF TaskInv, Held, Listed, Spent, WorkMoves, BillKept, FaultsGrow, Refunding
<1>6. Mirrors(t)'
  BY <1>t, <1>a, <1>b, <1>c, <1>d, <1>e, <1>m DEF TaskInv, Mirrors, WorkMoves, AroundKept
<1>7. Asked(t)'
  BY <1>t, <1>a, <1>b, <1>c, <1>d, <1>e, <1>m DEF TaskInv, Asked, AroundKept
<1>8. FailedPays(t)'
  BY <1>t, <1>a, <1>b, <1>c, <1>d, <1>e, <1>m DEF TaskInv, FailedPays, WorkMoves, BillKept, AroundKept, FaultsGrow, Refunding
<1>9. SuccessPays(t)'
  BY <1>t, <1>a, <1>b, <1>c, <1>d, <1>e, <1>m DEF TaskInv, SuccessPays, WorkMoves, BillKept, FaultsGrow, Settling
<1>10. QED
  BY <1>1, <1>2, <1>3, <1>4, <1>5, <1>6, <1>7, <1>8, <1>9 DEF TaskInv

\* UpdateQuota: the row remembers the actual cost.
LEMMA QuotaStored ==
  ASSUME TypeOK, NEW p \in Passes, NEW t \in Tasks \ Contested, TaskInv(t),
         work[p][t].pc = "quota",
         row'[t] = [row[t] EXCEPT !.quota = work[p][t].actual],
         BillKept(t), FaultsGrow(t), AroundKept(t),
         WorkMoves(p, t, Idle)
  PROVE  TaskInv(t)'
<1> DEFINE w == work[p][t]
<1>t. /\ w \in Work /\ row[t] \in Row /\ w.task \in Row /\ Quota \in Nat /\ up[t] \in Status
      /\ paid[t] \in Int /\ token[t] \in Int
  BY FieldTypes, TasksAssumption
<1>a. t \notin Suno /\ row[t].status \notin Unfinished /\ (row[t].status = "FAILURE" => t \in bulk)
  BY DEF TaskInv, Loads, Single, Kinds, Billing, Settling
<1>b. t \notin faulty => token[t] = paid[t] /\ paid[t] \in Actuals \ {0}
  BY <1>a DEF TaskInv, Due
<1>c. Idle.pc = "none" /\ Idle.then = "none"
  BY DEF Idle
<1>d. row'[t].status = row[t].status /\ row'[t].full = row[t].full
  BY <1>t DEF Row
<1>1. Loads(t)'
  BY <1>t, <1>a, <1>b, <1>c, <1>d DEF TaskInv, Loads, WorkMoves, AroundKept, Settling, Refunding
<1>2. Single(t)'
  BY <1>t, <1>a, <1>b, <1>c, <1>d DEF TaskInv, Single, WorkMoves, BillKept, Billing, Settling, Refunding
<1>3. Kinds(t)'
  BY <1>t, <1>a, <1>b, <1>c, <1>d DEF TaskInv, Kinds, WorkMoves, AroundKept, Settling, Refunding
<1>4. Due(t)'
  BY <1>t, <1>a, <1>b, <1>c, <1>d DEF TaskInv, Due, WorkMoves, BillKept, FaultsGrow
<1>5. Held(t)'
  BY <1>t, <1>a, <1>b, <1>c, <1>d DEF TaskInv, Held, Listed, Spent, WorkMoves, BillKept, FaultsGrow, Refunding
<1>6. Mirrors(t)'
  BY <1>t, <1>a, <1>b, <1>c, <1>d DEF TaskInv, Mirrors, WorkMoves, AroundKept
<1>7. Asked(t)'
  BY <1>t, <1>a, <1>b, <1>c, <1>d DEF TaskInv, Asked, AroundKept
<1>8. FailedPays(t)'
  BY <1>t, <1>a, <1>b, <1>c, <1>d DEF TaskInv, FailedPays, WorkMoves, BillKept, AroundKept, FaultsGrow, Refunding
<1>9. SuccessPays(t)'
  BY <1>t, <1>a, <1>b, <1>c, <1>d DEF TaskInv, SuccessPays, WorkMoves, BillKept, FaultsGrow, Settling
<1>10. QED
  BY <1>1, <1>2, <1>3, <1>4, <1>5, <1>6, <1>7, <1>8, <1>9 DEF TaskInv

\* GetRead: a request reads the row.
LEMMA GetReads ==
  ASSUME TypeOK, NEW g \in Gets, NEW t \in Tasks \ Contested, TaskInv(t), t \in Realtime,
         row' = row, work' = work, BillKept(t), faulty' = faulty,
         up' = up, late' = late, bulk' = bulk,
         \A h \in Gets : get'[h][t] = IF h = g THEN [pc |-> "ask", was |-> row[t].status, task |-> row[t]]
                                              ELSE get[h][t]
  PROVE  TaskInv(t)'
<1>1. Loads(t)' /\ Single(t)' /\ Kinds(t)' /\ Asked(t)'
  BY DEF TaskInv, Loads, Single, Kinds, Asked, BillKept
<1>2. Due(t)'
  BY DEF TaskInv, Due, BillKept
<1>3. Held(t)'
  BY DEF TaskInv, Held, Listed, BillKept
<1>4. Mirrors(t)'
  BY DEF TaskInv, Mirrors, Single
<1>5. FailedPays(t)' /\ SuccessPays(t)'
  BY DEF TaskInv, FailedPays, SuccessPays, BillKept
<1>6. QED
  BY <1>1, <1>2, <1>3, <1>4, <1>5 DEF TaskInv

\* GetAnswer: the answer goes into the copy of the request.
LEMMA GetAnswers ==
  ASSUME TypeOK, NEW g \in Gets, NEW t \in Tasks \ Contested, TaskInv(t), get[g][t].pc = "ask",
         NEW s \in Answers(t),
         row' = row, work' = work, BillKept(t), faulty' = faulty,
         up' = up, late' = late, bulk' = bulk,
         NEW r2, r2.pc = "save", r2.was = get[g][t].was,
         r2.task.status = s, r2.task.quota = get[g][t].task.quota,
         \A h \in Gets : get'[h][t] = IF h = g THEN r2 ELSE get[h][t]
  PROVE  TaskInv(t)'
<1> DEFINE r == get[g][t]
<1>1. Loads(t)' /\ Single(t)' /\ Kinds(t)'
  BY DEF TaskInv, Loads, Single, Kinds, BillKept
<1>2. Due(t)'
  BY DEF TaskInv, Due, BillKept
<1>3. Held(t)'
  BY DEF TaskInv, Held, Listed, BillKept
<1>4. t \in Realtime /\ s = up[t]
  BY DEF TaskInv, Asked, Answers, Contested
<1>7. Mirrors(t)'
  BY <1>4 DEF TaskInv, Mirrors
<1>8. Asked(t)'
  BY <1>4 DEF Asked
<1>9. FailedPays(t)' /\ SuccessPays(t)'
  BY DEF TaskInv, FailedPays, SuccessPays, BillKept
<1>10. QED
  BY <1>1, <1>2, <1>3, <1>7, <1>8, <1>9 DEF TaskInv

\* GetSave: the copy is written over the row whose status it was read with.
LEMMA GetSaves ==
  ASSUME TypeOK, NEW g \in Gets, NEW t \in Tasks \ Contested, TaskInv(t), get[g][t].pc = "save",
         row[t].status = get[g][t].was, row'[t] = get[g][t].task,
         work' = work, BillKept(t), faulty' = faulty,
         up' = up, late' = late, bulk' = bulk,
         \A h \in Gets : get'[h][t] = IF h = g THEN NoGet ELSE get[h][t]
  PROVE  TaskInv(t)'
<1> DEFINE r == get[g][t]
<1>0. /\ t \in Realtime /\ t \notin Suno /\ NoGet.pc = "none"
      /\ r.was \in Status /\ r.task.status \in Status
  BY TasksAssumption DEF TaskInv, Asked, NoGet, TypeOK, Get, Row
<1>1. \/ r.was \in Terminal /\ row'[t].status = row[t].status
      \/ /\ r.was \in Unfinished /\ row[t].status \in Unfinished /\ r.task.quota = Quota
         /\ \A q \in Passes : work[q][t].pc \notin Billing
         /\ paid[t] = Quota /\ token[t] = Quota
  BY <1>0 DEF TaskInv, Mirrors, Single, Status
<1>2. row'[t].status \in Terminal => r.task.status = up[t]
  BY <1>0 DEF TaskInv, Mirrors
<1>3. Loads(t)'
  BY DEF TaskInv, Loads
<1>4. Single(t)'
  BY <1>0, <1>1 DEF TaskInv, Single, BillKept, Unfinished, Terminal
<1>5. Kinds(t)'
  BY <1>1 DEF TaskInv, Kinds, Billing
<1>6. Due(t)'
  BY DEF TaskInv, Due, BillKept
<1>7. Held(t)'
  BY <1>0 DEF Held
<1>8. Mirrors(t)'
  BY <1>0, <1>2 DEF TaskInv, Mirrors
<1>9. Asked(t)'
  BY <1>0 DEF Asked
<1>10. FailedPays(t)'
  BY <1>0 DEF FailedPays
<1>11. SuccessPays(t)'
  BY <1>0, <1>1 DEF TaskInv, SuccessPays, BillKept, Unfinished
<1>12. QED
  BY <1>3, <1>4, <1>5, <1>6, <1>7, <1>8, <1>9, <1>10, <1>11 DEF TaskInv

-----------------------------------------------------------------------------
(* The steps.                                                              *)

LEMMA GoesMoves ==
  ASSUME TypeOK, NEW p \in Passes, NEW t \in Tasks, NEW w, Goes(p, t, w)
  PROVE  /\ WorkMoves(p, t, w)
         /\ \A u \in Tasks \ {t}, q \in Passes : work'[q][u] = work[q][u]
  BY DEF TypeOK, Goes, WorkMoves

LEMMA EndsMoves ==
  ASSUME TypeOK, NEW p \in Passes, NEW t \in Tasks, Ends(p, t)
  PROVE  /\ WorkMoves(p, t, Idle)
         /\ \A u \in Tasks \ {t}, q \in Passes : work'[q][u] = work[q][u]
  BY GoesMoves DEF Ends

LEMMA FailsMoves ==
  ASSUME NEW t \in Tasks, Fails(t) \/ NoFailure
  PROVE  /\ FaultsGrow(t) /\ (Fails(t) => t \in faulty')
         /\ \A u \in Tasks : FaultsGrow(u)
  BY DEF Fails, NoFailure, FaultsGrow

\* A pass is at work on t alone.
LEMMA OthersKept ==
  ASSUME TypeOK, NEW p \in Passes, NEW t \in Tasks, TaskStep(p, t),
         NEW u \in Tasks \ Contested, u # t, TaskInv(u)
  PROVE  TaskInv(u)'
<1>1. row'[u] = row[u]
  BY DEF TaskStep, Sweep, Skip, BulkFail, VideoAnswer, VideoSave, SunoAnswer, SunoSave, Refund, RefundToken,
         Settle, SettleToken, UpdateQuota, UpdateWithStatus, Lost, Outside, Ledger, TypeOK
<1>2. BillKept(u)
  BY DEF TaskStep, Sweep, Skip, BulkFail, VideoAnswer, VideoSave, SunoAnswer, SunoSave, Refund, RefundToken,
         Settle, SettleToken, UpdateQuota, Outside, Ledger, TypeOK, BillKept
<1>3. FaultsGrow(u)
  BY DEF TaskStep, Sweep, Skip, BulkFail, VideoAnswer, VideoSave, SunoAnswer, SunoSave, Refund, RefundToken,
         Settle, SettleToken, UpdateQuota, Fails, NoFailure, FaultsGrow
<1>4. UNCHANGED <<up, late, get>> /\ (u \in bulk => u \in bulk')
  BY DEF TaskStep, Sweep, Skip, BulkFail, VideoAnswer, VideoSave, SunoAnswer, SunoSave, Refund, RefundToken,
         Settle, SettleToken, UpdateQuota, Outside
<1>5. \E w : Goes(p, t, w)
  BY DEF TaskStep, Sweep, Skip, BulkFail, VideoAnswer, VideoSave, SunoAnswer, SunoSave, Refund, RefundToken,
         Settle, SettleToken, UpdateQuota, Ends
<1>6. WorkKept(u)
  BY <1>5, GoesMoves DEF WorkKept
<1>7. QED
  BY <1>1, <1>2, <1>3, <1>4, <1>6, Kept

\* A pass is at work on t.
LEMMA TaskStepKeeps ==
  ASSUME TypeOK, NEW p \in Passes, NEW t \in Tasks \ Contested, TaskInv(t), TaskStep(p, t),
         t \notin Contested'
  PROVE  TaskInv(t)'
<1> DEFINE w == work[p][t]
<1>0. p \in Passes /\ t \in Tasks /\ row \in [Tasks -> Row]
  BY DEF TypeOK
<1>g. ASSUME NEW w2, Goes(p, t, w2) PROVE WorkMoves(p, t, w2)
  BY <1>g, GoesMoves
<1>e. ASSUME Ends(p, t), w.pc \in {"sweep", "poll"} \/ (w.pc = "save" /\ t \notin Suno) \/ t \in faulty'
      PROVE  WorkKept(t)
  BY <1>e, EndsMoves DEF WorkMoves, WorkKept
<1>f. ASSUME Fails(t) \/ NoFailure PROVE FaultsGrow(t) /\ (Fails(t) => t \in faulty')
  BY <1>f, FailsMoves
<1>o. ASSUME UNCHANGED Outside PROVE AroundKept(t)
  BY <1>o DEF Outside, AroundKept
<1>l. ASSUME UNCHANGED Ledger PROVE BillKept(t)
  BY <1>l DEF Ledger, BillKept
<1>k. ASSUME UNCHANGED <<row, Outside, Ledger>>, FaultsGrow(t), WorkKept(t) PROVE TaskInv(t)'
  BY <1>k, <1>l, Kept DEF Outside
<1>1. CASE Sweep(p, t)
  <2> DEFINE failed == [w.task EXCEPT !.status = "FAILURE", !.full = TRUE]
             w2 == IF t \notin Legacy /\ w.task.quota # 0
                   THEN [w EXCEPT !.pc = "refund", !.task = failed] ELSE Idle
  <2>1. CASE UpdateWithStatus(w.was, t, failed) /\ Goes(p, t, w2) /\ NoFailure
    <3>1. row'[t] = failed /\ row[t].status = w.was
      BY <1>0, <2>1 DEF UpdateWithStatus
    <3>2. WorkMoves(p, t, w2)
      BY <2>1, <1>g
    <3>3. BillKept(t) /\ FaultsGrow(t) /\ AroundKept(t) /\ w.pc = "sweep"
      BY <1>1, <2>1, <1>f, <1>l, <1>o DEF Sweep
    <3>4. QED
      BY <3>1, <3>2, <3>3, SweepFails
  <2>2. CASE Ends(p, t) /\ UNCHANGED row /\ (Fails(t) \/ NoFailure)
    BY <1>1, <2>2, <1>e, <1>f, <1>k DEF Sweep
  <2>3. QED
    BY <1>1, <2>1, <2>2 DEF Sweep, Lost
<1>2. CASE Skip(p, t)
  BY <1>2, <1>e, <1>k DEF Skip, FaultsGrow
<1>3. CASE BulkFail(p, t)
  <2>1. CASE /\ row' = [row EXCEPT ![t].status = "FAILURE", ![t].full = TRUE]
             /\ bulk' = bulk \cup {t} /\ (Fails(t) \/ NoFailure)
    <3>1. row'[t] = [row[t] EXCEPT !.status = "FAILURE", !.full = TRUE]
      BY <1>0, <2>1
    <3>2. WorkMoves(p, t, Idle)
      BY <1>3, <1>0, EndsMoves DEF BulkFail
    <3>3. /\ BillKept(t) /\ FaultsGrow(t) /\ w.pc = "poll"
          /\ up' = up /\ late' = late /\ get' = get
      BY <1>3, <2>1, <1>f, <1>l DEF BulkFail
    <3>4. t \notin Realtime
      BY <2>1 DEF Contested
    <3>5. QED
      BY <2>1, <3>1, <3>2, <3>3, <3>4, BulkFails
  <2>2. CASE Fails(t) /\ UNCHANGED <<row, bulk>>
    <3>1. UNCHANGED <<row, Outside, Ledger>>
      BY <1>3, <2>2 DEF BulkFail, Outside
    <3>2. QED
      BY <1>3, <2>2, <3>1, <1>e, <1>f, <1>k DEF BulkFail
  <2>3. QED
    BY <1>3, <2>1, <2>2 DEF BulkFail
<1>4. CASE VideoAnswer(p, t)
  <2>1. PICK s \in Answers(t), full \in BOOLEAN :
           Goes(p, t, [w EXCEPT !.pc = "save", !.task.status = s, !.task.full = full])
    <3>1. PICK s \in Answers(t) : \E full \in Progress(t, s) :
             Goes(p, t, [w EXCEPT !.pc = "save", !.task.status = s, !.task.full = full])
      BY <1>4 DEF VideoAnswer
    <3>2. PICK full \in Progress(t, s) :
             Goes(p, t, [w EXCEPT !.pc = "save", !.task.status = s, !.task.full = full])
      BY <3>1
    <3>3. full \in BOOLEAN
      BY ProgressType
    <3>4. QED
      BY <3>2, <3>3
  <2>2. WorkMoves(p, t, [w EXCEPT !.pc = "save", !.task.status = s, !.task.full = full])
    BY <2>1, <1>g
  <2>3. BillKept(t) /\ FaultsGrow(t) /\ AroundKept(t) /\ w.pc = "poll" /\ t \notin Suno /\ row' = row
    BY <1>4, <1>l, <1>o DEF VideoAnswer, FaultsGrow
  <2>4. QED
    BY <2>2, <2>3, VideoAnswers
<1>5. CASE VideoSave(p, t)
  <2> DEFINE next == CASE w.task.status = "SUCCESS" -> [w EXCEPT !.pc = "settle"]
                       [] w.task.status = "FAILURE" /\ w.task.quota # 0 -> [w EXCEPT !.pc = "refund"]
                       [] OTHER -> Idle
  <2>1. CASE UpdateWithStatus(w.was, t, w.task) /\ Goes(p, t, next) /\ NoFailure
    <3>1. row'[t] = w.task /\ row[t].status = w.was
      BY <1>0, <2>1 DEF UpdateWithStatus
    <3>2. WorkMoves(p, t, next)
      BY <2>1, <1>g
    <3>3. BillKept(t) /\ FaultsGrow(t) /\ AroundKept(t) /\ w.pc = "save" /\ t \notin Suno
      BY <1>5, <2>1, <1>f, <1>l, <1>o DEF VideoSave
    <3>4. /\ next \in {[w EXCEPT !.pc = "settle"], [w EXCEPT !.pc = "refund"], Idle}
          /\ w.task.status = "SUCCESS" => next.pc = "settle"
          /\ w.task.status = "FAILURE" /\ w.task.quota # 0 => next.pc = "refund"
          /\ next.pc = "settle" => w.task.status = "SUCCESS"
          /\ next.pc = "refund" => w.task.status = "FAILURE"
      BY <1>0, FieldTypes DEF Work, Idle
    <3> HIDE DEF next
    <3>5. QED
      BY <3>1, <3>2, <3>3, <3>4, VideoSaves
  <2>2. CASE Ends(p, t) /\ UNCHANGED row /\ (Fails(t) \/ NoFailure)
    BY <1>5, <2>2, <1>e, <1>f, <1>k DEF VideoSave
  <2>3. QED
    BY <1>5, <2>1, <2>2 DEF VideoSave, Lost
<1>6. CASE SunoAnswer(p, t)
  <2> DEFINE w2(reason) == [w EXCEPT !.pc = IF reason /\ w.task.quota # 0 THEN "refund" ELSE "save",
                                     !.then = "save", !.task.status = up[t],
                                     !.task.full = reason \/ up[t] = "SUCCESS"]
  <2>1. PICK reason \in BOOLEAN : /\ Goes(p, t, w2(reason))
                                  /\ up[t] = "FAILURE" => reason
                                  /\ reason => up[t] \in {"IN_PROGRESS", "FAILURE"}
    BY <1>6 DEF SunoAnswer
  <2>2. WorkMoves(p, t, w2(reason))
    BY <2>1, <1>g
  <2>3. BillKept(t) /\ FaultsGrow(t) /\ AroundKept(t) /\ w.pc = "poll" /\ t \in Suno /\ row' = row
    BY <1>6, <1>l, <1>o DEF SunoAnswer, FaultsGrow
  <2>4. QED
    BY <2>1, <2>2, <2>3, SunoAnswers
<1>7. CASE SunoSave(p, t)
  <2>1. CASE row' = [row EXCEPT ![t] = w.task] /\ NoFailure
    <3>1. row'[t] = w.task
      BY <1>0, <2>1
    <3>2. WorkMoves(p, t, Idle)
      BY <1>7, <1>0, EndsMoves DEF SunoSave
    <3>3. BillKept(t) /\ FaultsGrow(t) /\ AroundKept(t) /\ w.pc = "save" /\ t \in Suno
      BY <1>7, <2>1, <1>f, <1>l, <1>o DEF SunoSave
    <3>4. QED
      BY <3>1, <3>2, <3>3, SunoSaves
  <2>2. CASE Fails(t) /\ UNCHANGED row
    BY <1>7, <2>2, <1>e, <1>f, <1>k DEF SunoSave
  <2>3. QED
    BY <1>7, <2>1, <2>2 DEF SunoSave
<1>8. CASE Refund(p, t)
  <2>0. AroundKept(t) /\ row' = row /\ token' = token /\ w.pc = "refund"
    BY <1>8, <1>o DEF Refund
  <2>1. CASE paid' = [paid EXCEPT ![t] = @ - w.task.quota] /\ Goes(p, t, [w EXCEPT !.pc = "refundToken"]) /\ NoFailure
    <3>1. paid'[t] = paid[t] - w.task.quota
      BY <1>0, <2>1 DEF TypeOK
    <3>2. WorkMoves(p, t, [w EXCEPT !.pc = "refundToken"]) /\ FaultsGrow(t)
      BY <2>1, <1>g, <1>f
    <3>3. QED
      BY <2>0, <3>1, <3>2, RefundPays
  <2>2. CASE Fails(t) /\ Goes(p, t, Refunded(w)) /\ UNCHANGED paid
    <3>1. WorkMoves(p, t, Refunded(w)) /\ t \in faulty' /\ BillKept(t) /\ w.pc \in Refunding
      BY <2>0, <2>2, <1>g, <1>f DEF BillKept, Refunding
    <3>2. QED
      BY <2>0, <3>1, RefundFails
  <2>3. QED
    BY <1>8, <2>1, <2>2 DEF Refund
<1>9. CASE RefundToken(p, t)
  <2>0. AroundKept(t) /\ row' = row /\ paid' = paid /\ w.pc = "refundToken" /\ WorkMoves(p, t, Refunded(w))
    BY <1>9, <1>o, <1>g DEF RefundToken
  <2>1. CASE token' = [token EXCEPT ![t] = @ - w.task.quota] /\ NoFailure
    <3>1. token'[t] = token[t] - w.task.quota
      BY <1>0, <2>1 DEF TypeOK
    <3>2. FaultsGrow(t)
      BY <2>1, <1>f
    <3>3. QED
      BY <2>0, <3>1, <3>2, RefundTokenPays
  <2>2. CASE Fails(t) /\ UNCHANGED token
    <3>1. t \in faulty' /\ BillKept(t) /\ w.pc \in Refunding
      BY <2>0, <2>2, <1>f DEF BillKept, Refunding
    <3>2. QED
      BY <2>0, <3>1, RefundFails
  <2>3. QED
    BY <1>9, <2>1, <2>2 DEF RefundToken
<1>10. CASE Settle(p, t)
  <2>0. AroundKept(t) /\ row' = row /\ token' = token /\ w.pc = "settle"
    BY <1>10, <1>o DEF Settle
  <2>1. ASSUME NEW a \in Actuals \ {0}, paid' = [paid EXCEPT ![t] = @ + (a - w.task.quota)],
               Goes(p, t, [w EXCEPT !.pc = "settleToken", !.actual = a]), NoFailure
        PROVE  TaskInv(t)'
    <3>1. paid'[t] = paid[t] + (a - w.task.quota)
      BY <1>0, <2>1 DEF TypeOK
    <3>2. WorkMoves(p, t, [w EXCEPT !.pc = "settleToken", !.actual = a]) /\ FaultsGrow(t)
      BY <2>1, <1>g, <1>f
    <3>3. QED
      BY <2>0, <3>1, <3>2, SettlePays
  <2>2. CASE Fails(t) /\ Ends(p, t) /\ UNCHANGED paid
    BY <1>10, <2>0, <2>2, <1>e, <1>f, <1>k DEF Settle, Ledger
  <2>3. CASE Ends(p, t) /\ UNCHANGED paid /\ NoFailure
    <3>1. BillKept(t) /\ FaultsGrow(t) /\ WorkMoves(p, t, Idle)
      BY <1>0, <2>0, <2>3, <1>f, EndsMoves DEF BillKept
    <3>2. QED
      BY <2>0, <3>1, SettleStays
  <2>4. QED
    BY <1>10, <2>1, <2>2, <2>3 DEF Settle
<1>11. CASE SettleToken(p, t)
  <2>0. AroundKept(t) /\ row' = row /\ paid' = paid /\ w.pc = "settleToken" /\ WorkMoves(p, t, [w EXCEPT !.pc = "quota"])
    BY <1>11, <1>o, <1>g DEF SettleToken
  <2>1. /\ FaultsGrow(t)
        /\ \/ token'[t] = token[t] + (w.actual - w.task.quota)
           \/ token'[t] = token[t] /\ t \in faulty'
    BY <1>0, <1>11, <1>f DEF SettleToken, TypeOK
  <2>2. QED
    BY <2>0, <2>1, SettleTokenPays
<1>12. CASE UpdateQuota(p, t)
  <2>1. CASE row' = [row EXCEPT ![t].quota = w.actual] /\ NoFailure
    <3>1. row'[t] = [row[t] EXCEPT !.quota = w.actual]
      BY <1>0, <2>1
    <3>2. WorkMoves(p, t, Idle)
      BY <1>12, <1>0, EndsMoves DEF UpdateQuota
    <3>3. BillKept(t) /\ FaultsGrow(t) /\ AroundKept(t) /\ w.pc = "quota"
      BY <1>12, <2>1, <1>f, <1>l, <1>o DEF UpdateQuota
    <3>4. QED
      BY <3>1, <3>2, <3>3, QuotaStored
  <2>2. CASE Fails(t) /\ UNCHANGED row
    BY <1>12, <2>2, <1>e, <1>f, <1>k DEF UpdateQuota
  <2>3. QED
    BY <1>12, <2>1, <2>2 DEF UpdateQuota
<1>13. QED
  BY <1>1, <1>2, <1>3, <1>4, <1>5, <1>6, <1>7, <1>8, <1>9, <1>10, <1>11, <1>12 DEF TaskStep

\* SweepList, PollList, EndPass and Crash are about all tasks of the pass.
LEMMA ListsKeep ==
  ASSUME TypeOK, NEW p \in Passes, NEW t \in Tasks \ Contested, TaskInv(t),
         SweepList(p) \/ PollList(p) \/ EndPass(p) \/ Crash(p),
         SweepList(p) => work[p][t].pc = "none"
  PROVE  TaskInv(t)'
<1> DEFINE w == work[p][t]
<1>0. work \in [Passes -> [Tasks -> Work]]
  BY DEF TypeOK
<1>1. ASSUME NEW pc \in {"sweep", "poll"}, w.pc = "none", pc = "sweep" => t \in late,
             work'[p][t] = IF Listed(t) /\ (pc = "sweep" => t \in late) THEN Loaded(pc, t) ELSE Idle,
             \A q \in Passes \ {p} : work'[q] = work[q],
             row' = row, paid' = paid, token' = token, faulty' = faulty,
             up' = up, late' = late, bulk' = bulk, get' = get
      PROVE  TaskInv(t)'
  <2>1. BillKept(t) /\ AroundKept(t) /\ FaultsGrow(t)
    BY <1>1 DEF BillKept, AroundKept, FaultsGrow
  <2>2. CASE Listed(t)
    <3>1. WorkMoves(p, t, Loaded(pc, t))
      BY <1>1, <2>2 DEF WorkMoves
    <3>2. QED
      BY <1>1, <2>1, <2>2, <3>1, LoadKeeps
  <2>3. CASE ~Listed(t)
    <3>1. WorkKept(t)
      BY <1>1, <2>3 DEF WorkKept
    <3>2. QED
      BY <1>1, <2>1, <3>1, Kept
  <2>4. QED
    BY <2>2, <2>3
<1>2. CASE SweepList(p)
  <2>0. /\ w.pc = "none" /\ row' = row /\ paid' = paid /\ token' = token /\ faulty' = faulty
        /\ up' = up /\ late' = late /\ bulk' = bulk /\ get' = get
        /\ \A q \in Passes \ {p} : work'[q] = work[q]
        /\ work'[p][t] = IF Listed(t) /\ t \in late THEN Loaded("sweep", t) ELSE Idle
    BY <1>0, <1>2 DEF SweepList
  <2>1. CASE t \in late
    BY <1>1, <2>0, <2>1
  <2>2. CASE t \notin late
    <3>1. WorkKept(t)
      BY <2>0, <2>2 DEF WorkKept
    <3>2. BillKept(t) /\ FaultsGrow(t)
      BY <2>0 DEF BillKept, FaultsGrow
    <3>3. QED
      BY <2>0, <3>1, <3>2, Kept
  <2>3. QED
    BY <2>1, <2>2
<1>3. CASE PollList(p)
  <2>1. /\ w.pc = "none" /\ row' = row /\ paid' = paid /\ token' = token /\ faulty' = faulty
        /\ up' = up /\ late' = late /\ bulk' = bulk /\ get' = get
        /\ \A q \in Passes \ {p} : work'[q] = work[q]
        /\ work'[p][t] = IF Listed(t) THEN Loaded("poll", t) ELSE Idle
    BY <1>0, <1>3 DEF PollList
  <2>2. QED
    BY <1>1, <2>1
<1>4. CASE EndPass(p)
  <2>1. WorkKept(t) /\ BillKept(t) /\ FaultsGrow(t)
    BY <1>4 DEF EndPass, WorkKept, BillKept, FaultsGrow
  <2>2. QED
    BY <1>4, <2>1, Kept DEF EndPass
<1>5. CASE Crash(p)
  <2>1. WorkKept(t)
    BY <1>0, <1>5 DEF Crash, WorkKept
  <2>2. BillKept(t) /\ FaultsGrow(t)
    BY <1>5 DEF Crash, BillKept, FaultsGrow
  <2>3. QED
    BY <1>5, <2>1, <2>2, Kept DEF Crash
<1>6. QED
  BY <1>2, <1>3, <1>4, <1>5

\* The world outside moves on.
LEMMA WorldKeeps ==
  ASSUME TypeOK, NEW t \in Tasks, World(t), NEW u \in Tasks \ Contested, TaskInv(u)
  PROVE  TaskInv(u)'
<1>1. row' = row /\ BillKept(u) /\ FaultsGrow(u) /\ WorkKept(u) /\ get' = get
  BY DEF World, UpstreamMoves, TimesOut, ChannelDeleted, BillKept, FaultsGrow, WorkKept
<1>2. up'[u] = up[u] \/ up[u] \in Unfinished
  BY DEF World, UpstreamMoves, TimesOut, ChannelDeleted, TypeOK
<1>3. /\ u \in late => u \in late'
      /\ u \in late' => u \in late \/ u \notin Realtime
      /\ u \in bulk => u \in bulk'
  BY DEF World, UpstreamMoves, TimesOut, ChannelDeleted, Contested
<1>4. QED
  BY <1>1, <1>2, <1>3, Kept

\* A request asks for a task.
LEMMA GetKeeps ==
  ASSUME TypeOK, NEW g \in Gets, NEW t \in Tasks, GetRead(g, t) \/ GetAnswer(g, t) \/ GetSave(g, t),
         NEW u \in Tasks \ Contested, TaskInv(u)
  PROVE  TaskInv(u)'
<1> DEFINE r == get[g][t]
<1>0. get \in [Gets -> [Tasks -> Get]] /\ row \in [Tasks -> Row]
  BY DEF TypeOK
<1>a. ASSUME NEW r2, Asks(g, t, r2)
      PROVE  /\ \A h \in Gets : get'[h][t] = IF h = g THEN r2 ELSE get[h][t]
             /\ \A h \in Gets : u # t => get'[h][u] = get[h][u]
  BY <1>0, <1>a DEF Asks
<1>b. /\ BillKept(u) /\ FaultsGrow(u) /\ WorkKept(u) /\ work' = work
      /\ up' = up /\ late' = late /\ bulk' = bulk
  BY DEF GetRead, GetAnswer, GetSave, Inside, BillKept, FaultsGrow, WorkKept, Fails, NoFailure
<1>c. ASSUME row'[u] = row[u], \A h \in Gets : get'[h][u] = get[h][u] \/ get'[h][u] = NoGet
      PROVE  TaskInv(u)'
  BY <1>b, <1>c, Kept
<1>1. CASE u # t
  <2>1. row'[u] = row[u]
    BY <1>0, <1>1 DEF GetRead, GetAnswer, GetSave, UpdateWithStatus, Lost
  <2>2. \E r2 : Asks(g, t, r2)
    BY DEF GetRead, GetAnswer, GetSave
  <2>3. QED
    BY <1>1, <1>a, <1>c, <2>1, <2>2
<1>2. CASE u = t /\ GetRead(g, t)
  BY <1>2, <1>a, <1>b, GetReads DEF GetRead
<1>3. CASE u = t /\ GetAnswer(g, t)
  <2>1. CASE Asks(g, t, NoGet)
    BY <1>3, <1>a, <1>c, <2>1 DEF GetAnswer
  <2>2. ASSUME NEW s \in Answers(t), NEW full \in BOOLEAN, NEW r2,
               r2 = [r EXCEPT !.pc = "save", !.task.status = s, !.task.full = full],
               Asks(g, t, r2)
        PROVE  TaskInv(u)'
    <3>1. row' = row /\ faulty' = faulty /\ r.pc = "ask"
      BY <1>3 DEF GetAnswer
    <3>2. \A h \in Gets : get'[h][t] = IF h = g THEN r2 ELSE get[h][t]
      BY <1>a, <2>2
    <3>3. r2.pc = "save" /\ r2.was = r.was /\ r2.task.status = s /\ r2.task.quota = r.task.quota
      <4>1. r \in Get /\ r.task \in Row
        BY <1>0 DEF Get
      <4>2. QED
        BY <2>2, <4>1 DEF Get, Row
    <3>4. s \in Answers(t) /\ BillKept(t) /\ TaskInv(t) /\ t \in Tasks \ Contested
      BY <1>3, <1>b, <2>2
    <3>5. TaskInv(t)'
      BY <1>b, <3>1, <3>2, <3>3, <3>4, GetAnswers
    <3>6. QED
      BY <1>3, <3>5
  <2>3. CASE \E s \in Answers(t) : \E full \in Progress(t, s) :
                Asks(g, t, [r EXCEPT !.pc = "save", !.task.status = s, !.task.full = full])
    <3>1. ASSUME NEW s \in Answers(t), NEW full \in Progress(t, s),
                 Asks(g, t, [r EXCEPT !.pc = "save", !.task.status = s, !.task.full = full])
          PROVE  TaskInv(u)'
      <4>1. full \in BOOLEAN
        BY <3>1, ProgressType
      <4>2. QED
        BY <2>2, <3>1, <4>1
    <3>2. QED
      BY <2>3, <3>1
  <2>4. QED
    BY <1>3, <2>1, <2>3 DEF GetAnswer
<1>4. CASE u = t /\ GetSave(g, t)
  <2>1. CASE UpdateWithStatus(r.was, t, r.task) /\ NoFailure
    <3>1. row'[t] = r.task /\ row[t].status = r.was /\ faulty' = faulty
      BY <1>0, <2>1 DEF UpdateWithStatus, NoFailure
    <3>2. QED
      BY <1>4, <1>a, <1>b, <3>1, GetSaves DEF GetSave
  <2>2. CASE UNCHANGED row
    BY <1>4, <1>a, <1>c, <2>2 DEF GetSave
  <2>3. QED
    BY <1>4, <2>1, <2>2 DEF GetSave, Lost
<1>5. QED
  BY <1>1, <1>2, <1>3, <1>4

-----------------------------------------------------------------------------
(* The theorems.                                                           *)

LEMMA InvInit == ASSUME Init PROVE IInv
<1>1. TypeOK /\ late \subseteq Tardy
  BY TypeInit DEF Init
<1>2. ASSUME NEW t \in Tasks \ Contested
      PROVE  TaskInv(t)
  <2>1. /\ row[t].status = "QUEUED" /\ row[t].quota = Quota /\ ~row[t].full
        /\ paid[t] = Quota /\ token[t] = Quota /\ t \notin late
        /\ \A p \in Passes : work[p][t].pc = "none" /\ work[p][t].then = "none"
        /\ \A g \in Gets : get[g][t].pc = "none"
    BY DEF Init, Idle, NoGet
  <2>2. Loads(t) /\ Single(t) /\ Kinds(t)
    BY <2>1 DEF Loads, Single, Kinds, Billing, Refunding, Settling
  <2>3. Due(t) /\ Held(t)
    BY <2>1, TasksAssumption DEF Due, Held, Refunding
  <2>4. Mirrors(t) /\ Asked(t) /\ FailedPays(t) /\ SuccessPays(t)
    BY <2>1 DEF Mirrors, Asked, FailedPays, SuccessPays, Terminal
  <2>5. QED
    BY <2>2, <2>3, <2>4 DEF TaskInv
<1>3. Resting
  BY DEF Init, Resting, Idle
<1>4. QED
  BY <1>1, <1>2, <1>3 DEF IInv

\* A pass that is idle has no task in its memory.
LEMMA RestingKept ==
  ASSUME TypeOK, Resting, Next
  PROVE  Resting'
<1> SUFFICES ASSUME NEW q \in Passes, pass'[q] = "idle", NEW u \in Tasks
             PROVE  work'[q][u].pc = "none"
  BY DEF Resting
<1>0. /\ work \in [Passes -> [Tasks -> Work]] /\ pass \in [Passes -> {"idle", "sweep", "poll"}]
      /\ Idle.pc = "none"
  BY DEF TypeOK, Idle
<1>1. CASE pass' = pass /\ work' = work
  BY <1>1 DEF Resting
<1>2. ASSUME NEW p \in Passes, SweepList(p) \/ PollList(p) \/ EndPass(p) \/ Crash(p)
      PROVE  work'[q][u].pc = "none"
  BY <1>0, <1>2 DEF SweepList, PollList, EndPass, Crash, Resting
<1>3. ASSUME NEW p \in Passes, NEW t \in Tasks, TaskStep(p, t)
      PROVE  work'[q][u].pc = "none"
  <2>1. pass' = pass /\ work[p][t].pc # "none"
    BY <1>3 DEF TaskStep, Sweep, Skip, BulkFail, VideoAnswer, VideoSave, SunoAnswer, SunoSave, Refund,
            RefundToken, Settle, SettleToken, UpdateQuota, Outside
  <2>2. q # p
    BY <2>1 DEF Resting
  <2>3. \E w : Goes(p, t, w)
    BY <1>3 DEF TaskStep, Sweep, Skip, BulkFail, VideoAnswer, VideoSave, SunoAnswer, SunoSave, Refund,
            RefundToken, Settle, SettleToken, UpdateQuota, Ends
  <2>4. QED
    BY <1>0, <2>1, <2>2, <2>3 DEF Goes, Resting
<1>4. ASSUME NEW t \in Tasks, World(t)
      PROVE  pass' = pass /\ work' = work
  BY <1>4 DEF World, UpstreamMoves, TimesOut, ChannelDeleted
<1>5. ASSUME NEW g \in Gets, GetStep(g)
      PROVE  pass' = pass /\ work' = work
  BY <1>5 DEF GetStep, GetRead, GetAnswer, GetSave, Inside
<1>6. QED
  BY <1>1, <1>2, <1>3, <1>4, <1>5 DEF Next, PassStep

\* Who was failed in bulk stays on record.
LEMMA BulkGrows == ASSUME Next PROVE bulk \subseteq bulk'
<1>1. ASSUME NEW t \in Tasks, World(t)
      PROVE  bulk \subseteq bulk'
  BY <1>1 DEF World, UpstreamMoves, TimesOut, ChannelDeleted
<1>2. ASSUME NEW p \in Passes, NEW t \in Tasks, TaskStep(p, t)
      PROVE  bulk \subseteq bulk'
  BY <1>2 DEF TaskStep, Sweep, Skip, BulkFail, VideoAnswer, VideoSave, SunoAnswer, SunoSave, Refund,
          RefundToken, Settle, SettleToken, UpdateQuota, Outside
<1>3. ASSUME NEW p \in Passes, SweepList(p) \/ PollList(p) \/ EndPass(p) \/ Crash(p)
      PROVE  bulk \subseteq bulk'
  BY <1>3 DEF SweepList, PollList, EndPass, Crash
<1>4. ASSUME NEW g \in Gets, GetStep(g)
      PROVE  bulk \subseteq bulk'
  BY <1>4 DEF GetStep, GetRead, GetAnswer, GetSave, Inside
<1>5. QED
  BY <1>1, <1>2, <1>3, <1>4 DEF Next, PassStep

LEMMA InvNext == ASSUME IInv, [Next]_vars PROVE IInv'
<1>0. TypeOK /\ Resting /\ late \subseteq Tardy
  BY DEF IInv
<1>1. CASE UNCHANGED vars
  <2>1. ASSUME NEW u \in Tasks, u \notin Contested'
        PROVE  TaskInv(u)'
    BY <1>1, <2>1, Kept DEF IInv, vars, Contested, BillKept, FaultsGrow, WorkKept
  <2>2. QED
    BY <1>0, <1>1, <2>1, TypeNext DEF IInv, Resting, vars
<1>2. CASE Next
  <2>1. ASSUME NEW u \in Tasks, u \notin Contested'
        PROVE  TaskInv(u)'
    <3>0. u \notin Contested /\ TaskInv(u)
      BY <1>2, <2>1, BulkGrows DEF IInv, Contested
    <3>1. ASSUME NEW t \in Tasks, World(t)
          PROVE  TaskInv(u)'
      BY <1>0, <3>0, <3>1, WorldKeeps
    <3>2. ASSUME NEW p \in Passes, PassStep(p) \/ Crash(p)
          PROVE  TaskInv(u)'
      <4>1. CASE SweepList(p) \/ PollList(p) \/ EndPass(p) \/ Crash(p)
        <5>1. SweepList(p) => work[p][u].pc = "none"
          BY <1>0 DEF SweepList, Resting
        <5>2. QED
          BY <1>0, <3>0, <4>1, <5>1, ListsKeep
      <4>2. ASSUME NEW t \in Tasks, TaskStep(p, t)
            PROVE  TaskInv(u)'
        BY <1>0, <2>1, <3>0, <4>2, TaskStepKeeps, OthersKept
      <4>3. QED
        BY <3>2, <4>1, <4>2 DEF PassStep
    <3>3. ASSUME NEW g \in Gets, GetStep(g)
          PROVE  TaskInv(u)'
      BY <1>0, <3>0, <3>3, GetKeeps DEF GetStep
    <3>4. QED
      BY <1>2, <3>1, <3>2, <3>3 DEF Next
  <2>2. late' \subseteq Tardy
    <3>1. ASSUME NEW t \in Tasks, World(t)
          PROVE  late' \subseteq Tardy
      BY <1>0, <3>1 DEF World, UpstreamMoves, TimesOut, ChannelDeleted
    <3>2. ASSUME NEW p \in Passes, PassStep(p) \/ Crash(p)
          PROVE  late' = late
      <4>1. ASSUME NEW t \in Tasks, TaskStep(p, t)
            PROVE  late' = late
        BY <4>1 DEF TaskStep, Sweep, Skip, BulkFail, VideoAnswer, VideoSave, SunoAnswer, SunoSave, Refund,
                RefundToken, Settle, SettleToken, UpdateQuota, Outside
      <4>2. QED
        BY <3>2, <4>1 DEF PassStep, SweepList, PollList, EndPass, Crash
    <3>3. ASSUME NEW g \in Gets, GetStep(g)
          PROVE  late' = late
      BY <3>3 DEF GetStep, GetRead, GetAnswer, GetSave, Inside
    <3>4. QED
      BY <1>0, <1>2, <3>1, <3>2, <3>3 DEF Next
  <2>3. QED
    BY <1>0, <1>2, <2>1, <2>2, TypeNext, RestingKept DEF IInv
<1>3. QED
  BY <1>1, <1>2

\* The invariant holds of every state the passes and requests can reach.
THEOREM Inductive == Spec => []IInv
  BY InvInit, InvNext, PTL DEF Spec

\* A task that passes race for is refunded by one of them at most: the update
\* of its status picks the one, and who has billed it never bills it again.
THEOREM RefundsHappenOnce == Spec => []RefundedOnce
<1>1. IInv => RefundedOnce
  BY DEF IInv, TaskInv, Due, RefundedOnce
<1>2. QED
  BY <1>1, Inductive, PTL

\* A failed task has got back what it was charged, on both sides, once the pass
\* that won it is through, if no statement has failed.
THEOREM FailuresPaidBack == Spec => []FailedIsRefunded
<1>1. IInv => FailedIsRefunded
  BY DEF IInv, TaskInv, FailedPays, FailedIsRefunded, Unrefunded, Quiet, Refunding
<1>2. QED
  BY <1>1, Inductive, PTL

\* A task that succeeded has paid once, the estimate or the actual cost, the
\* same on its source and on its token.
THEOREM SuccessesPay == Spec => []SucceededPays
<1>1. IInv => SucceededPays
  BY DEF IInv, TaskInv, SuccessPays, SucceededPays, Quiet, Settling
<1>2. QED
  BY <1>1, Inductive, PTL

\* The bills of all tasks are right together: each is refunded once at most, the
\* failed ones are paid back and those that succeeded have paid, whatever
\* passes, requests and crashes come in between.
THEOREM BillsRight == Spec => []Billed
<1>1. RefundedOnce /\ FailedIsRefunded /\ SucceededPays => Billed
  BY DEF Billed
<1>2. QED
  BY <1>1, RefundsHappenOnce, FailuresPaidBack, SuccessesPay, PTL

\* What a pass or a request does to the status of a task that has ended.
LEMMA EndStays ==
  ASSUME IInv, Next, NEW t \in Tasks \ Contested, row[t].status \in Terminal,
         row'[t].status # row[t].status
  PROVE  row'[t].status = "FAILURE" /\ t \in bulk'
<1>0. /\ TypeOK /\ TaskInv(t) /\ row \in [Tasks -> Row]
      /\ \A s \in Unfinished : s \notin Terminal
  BY DEF IInv, TypeOK, Unfinished, Terminal
<1>1. ASSUME NEW p \in Passes, NEW u \in Tasks, TaskStep(p, u)
      PROVE  row'[t].status = "FAILURE" /\ t \in bulk'
  <2> DEFINE w == work[p][u]
  <2>1. CASE u # t
    BY <1>0, <1>1, <2>1 DEF TaskStep, Sweep, Skip, BulkFail, VideoAnswer, VideoSave, SunoAnswer, SunoSave,
            Refund, RefundToken, Settle, SettleToken, UpdateQuota, UpdateWithStatus, Lost
  <2>2. CASE u = t
    <3>1. /\ w.pc = "sweep" \/ (w.pc = "save" /\ t \notin Suno) => w.was \in Unfinished
          /\ w.pc = "save" => t \notin Suno
      BY <1>0, <2>2 DEF TaskInv, Loads, Held, Listed
    <3>2. CASE Sweep(p, u)
      BY <1>0, <2>2, <3>1, <3>2 DEF Sweep, UpdateWithStatus, Lost
    <3>3. CASE BulkFail(p, u)
      BY <1>0, <2>2, <3>3 DEF BulkFail, Row
    <3>4. CASE VideoSave(p, u)
      BY <1>0, <2>2, <3>1, <3>4 DEF VideoSave, UpdateWithStatus, Lost
    <3>5. CASE SunoSave(p, u)
      BY <2>2, <3>1, <3>5 DEF SunoSave
    <3>6. CASE UpdateQuota(p, u)
      <4>1. row[t] \in Row
        BY <1>0
      <4>2. QED
        BY <1>0, <2>2, <3>6, <4>1 DEF UpdateQuota, Row
    <3>7. QED
      BY <1>1, <3>2, <3>3, <3>4, <3>5, <3>6 DEF TaskStep, Skip, VideoAnswer, SunoAnswer, Refund, RefundToken,
            Settle, SettleToken
  <2>3. QED
    BY <2>1, <2>2
<1>2. ASSUME NEW p \in Passes, SweepList(p) \/ PollList(p) \/ EndPass(p) \/ Crash(p)
      PROVE  row' = row
  BY <1>2 DEF SweepList, PollList, EndPass, Crash
<1>3. ASSUME NEW u \in Tasks, World(u)
      PROVE  row' = row
  BY <1>3 DEF World, UpstreamMoves, TimesOut, ChannelDeleted
<1>4. ASSUME NEW g \in Gets, NEW u \in Tasks, GetRead(g, u) \/ GetAnswer(g, u) \/ GetSave(g, u)
      PROVE  row'[t].status = row[t].status
  <2>1. CASE u # t
    BY <1>0, <1>4, <2>1 DEF GetRead, GetAnswer, GetSave, UpdateWithStatus, Lost
  <2>2. CASE u = t
    <3>1. get[g][t].pc = "save" /\ get[g][t].was \in Terminal => get[g][t].task.status = get[g][t].was
      BY <1>0 DEF TaskInv, Asked, Mirrors
    <3>2. QED
      BY <1>0, <1>4, <2>2, <3>1 DEF GetRead, GetAnswer, GetSave, UpdateWithStatus, Lost
  <2>3. QED
    BY <2>1, <2>2
<1>5. QED
  BY <1>1, <1>2, <1>3, <1>4 DEF Next, PassStep, GetStep

\* A task that has ended keeps its end, whatever passes and requests still hold
\* of it; only a bulk failure, of a pass that does not find its channel, writes
\* over it.
THEOREM EndsStay == Spec => EndIsFinal
<1>1. IInv /\ [Next]_vars =>
        [\A t \in Tasks \ Contested :
            row[t].status \in Terminal /\ row'[t].status # row[t].status
            => row'[t].status = "FAILURE" /\ t \in bulk']_vars
  BY EndStays
<1>2. QED
  BY <1>1, Inductive, PTL DEF Spec, EndIsFinal

-----------------------------------------------------------------------------
(* The moves of a bill.                                                    *)

\* A step of a pass that is at work on t moves its bill as it should: the pass
\* has it in hand (Kinds), and knows how far it is (Due).
LEMMA BillMoves ==
  ASSUME TypeOK, NEW p \in Passes, NEW t \in Tasks \ (Contested \cup (Suno \cap faulty)), TaskInv(t),
         TaskStep(p, t), ~BillKept(t)
  PROVE  \E cost \in Costs(t) :
            /\ paid'[t] = cost /\ token[t] = Quota
            /\ \/ paid[t] = Quota /\ token'[t] = Quota
               \/ paid[t] = cost /\ token'[t] = cost
<1> DEFINE w == work[p][t]
<1>0. /\ w \in Work /\ w.task \in Row /\ Quota \in Nat /\ Actuals \subseteq Nat
      /\ paid \in [Tasks -> Int] /\ token \in [Tasks -> Int]
      /\ paid[t] \in Int /\ token[t] \in Int
  BY FieldTypes, TasksAssumption DEF TypeOK
<1>1. w.pc \in {"refund", "refundToken", "settle", "settleToken"} => w.task.quota = Quota
  BY DEF TaskInv, Loads
<1>2. w.pc \in Refunding => 0 \in Costs(t)
  BY DEF TaskInv, Kinds, Loads, Costs
<1>3. w.pc \in Settling => Actuals \ {0} \subseteq Costs(t)
  BY DEF TaskInv, Kinds, Costs
<1>4. CASE Refund(p, t)
  <2>1. w.pc = "refund" /\ paid[t] = Quota /\ token[t] = Quota /\ 0 \in Costs(t)
    BY <1>2, <1>4 DEF Refund, TaskInv, Due, Refunding
  <2>2. token' = token /\ paid' = [paid EXCEPT ![t] = @ - w.task.quota]
    BY <1>4 DEF Refund, BillKept
  <2>3. paid'[t] = 0 /\ token'[t] = Quota
    BY <1>0, <1>1, <2>1, <2>2
  <2>4. QED
    BY <2>1, <2>3
<1>5. CASE RefundToken(p, t)
  <2>1. w.pc = "refundToken" /\ paid[t] = 0 /\ token[t] = Quota /\ 0 \in Costs(t)
    BY <1>2, <1>5 DEF RefundToken, TaskInv, Due, Refunding
  <2>2. paid' = paid /\ token' = [token EXCEPT ![t] = @ - w.task.quota]
    BY <1>5 DEF RefundToken, BillKept
  <2>3. paid'[t] = 0 /\ token'[t] = 0
    BY <1>0, <1>1, <2>1, <2>2
  <2>4. QED
    BY <2>1, <2>3
<1>6. CASE Settle(p, t)
  <2>1. w.pc = "settle" /\ paid[t] = Quota /\ token[t] = Quota /\ Actuals \ {0} \subseteq Costs(t)
    BY <1>3, <1>6 DEF Settle, TaskInv, Due, Settling
  <2>2. PICK a \in Actuals \ {0} : paid' = [paid EXCEPT ![t] = @ + (a - w.task.quota)]
    BY <1>6 DEF Settle, BillKept
  <2>3. paid'[t] = a /\ token'[t] = Quota
    <3>1. token' = token
      BY <1>6 DEF Settle
    <3>2. QED
      BY <1>0, <1>1, <2>1, <2>2, <3>1
  <2>4. QED
    BY <2>1, <2>3
<1>7. CASE SettleToken(p, t)
  <2>1. /\ w.pc = "settleToken" /\ paid[t] = w.actual /\ token[t] = Quota
        /\ w.actual \in Actuals \ {0} /\ w.actual \in Costs(t)
    BY <1>3, <1>7 DEF SettleToken, TaskInv, Due, Settling
  <2>2. paid' = paid /\ token' = [token EXCEPT ![t] = @ + (w.actual - w.task.quota)]
    BY <1>7 DEF SettleToken, BillKept
  <2>3. paid'[t] = w.actual /\ token'[t] = w.actual
    BY <1>0, <1>1, <2>1, <2>2
  <2>4. QED
    BY <2>1, <2>3
<1>8. QED
  BY <1>4, <1>5, <1>6, <1>7 DEF TaskStep, BillKept, Ledger, Sweep, Skip, BulkFail, VideoAnswer, VideoSave,
        SunoAnswer, SunoSave, UpdateQuota

\* Only a pass at work on a task moves its bill.
LEMMA OthersKeepBill ==
  ASSUME TypeOK, Next, NEW t \in Tasks, ~BillKept(t)
  PROVE  \E p \in Passes : TaskStep(p, t)
<1>0. paid \in [Tasks -> Int] /\ token \in [Tasks -> Int]
  BY DEF TypeOK
<1>1. ASSUME NEW p \in Passes, NEW u \in Tasks, TaskStep(p, u), u # t
      PROVE  FALSE
  BY <1>0, <1>1 DEF TaskStep, BillKept, Ledger, Sweep, Skip, BulkFail, VideoAnswer, VideoSave, SunoAnswer,
        SunoSave, Refund, RefundToken, Settle, SettleToken, UpdateQuota
<1>2. ASSUME NEW p \in Passes, SweepList(p) \/ PollList(p) \/ EndPass(p) \/ Crash(p)
      PROVE  FALSE
  BY <1>2 DEF BillKept, SweepList, PollList, EndPass, Crash
<1>3. ASSUME NEW u \in Tasks, World(u)
      PROVE  FALSE
  BY <1>3 DEF BillKept, World, UpstreamMoves, TimesOut, ChannelDeleted
<1>4. ASSUME NEW g \in Gets, GetStep(g)
      PROVE  FALSE
  BY <1>4 DEF BillKept, GetStep, GetRead, GetAnswer, GetSave, Inside
<1>5. QED
  BY <1>1, <1>2, <1>3, <1>4 DEF Next, PassStep

\* The bill of a task moves once, to nothing after a failure or to an actual cost
\* after a success, on the source and then on the token; the passes that lost the
\* task, or hold an old copy of it, never move it again.
THEOREM BillsMoveOnce == Spec => BillMovesOnce
<1> DEFINE Moves(t) == (paid'[t] # paid[t] \/ token'[t] # token[t])
                       => \E cost \in Costs(t) :
                             /\ paid'[t] = cost /\ token[t] = Quota
                             /\ \/ paid[t] = Quota /\ token'[t] = Quota
                                \/ paid[t] = cost /\ token'[t] = cost
<1>1. ASSUME IInv, Next, NEW t \in Tasks \ (Contested \cup (Suno \cap faulty))
      PROVE  Moves(t)
  <2>1. TypeOK /\ TaskInv(t)
    BY <1>1 DEF IInv
  <2>2. CASE BillKept(t)
    BY <2>2 DEF BillKept
  <2>3. CASE ~BillKept(t)
    <3>1. PICK p \in Passes : TaskStep(p, t)
      BY <1>1, <2>1, <2>3, OthersKeepBill
    <3>2. QED
      BY <2>1, <2>3, <3>1, BillMoves
  <2>4. QED
    BY <2>2, <2>3
<1>2. IInv /\ [Next]_vars => [\A t \in Tasks \ (Contested \cup (Suno \cap faulty)) : Moves(t)]_vars
  BY <1>1
<1>3. QED
  BY <1>2, Inductive, PTL DEF Spec, BillMovesOnce

=============================================================================
