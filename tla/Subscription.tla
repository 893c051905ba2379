---------------------------- MODULE Subscription ----------------------------
(***************************************************************************)
(* The subscriptions of one user: model/subscription.go with its two       *)
(* callers, service/funding_source.go and                                  *)
(* service/subscription_reset_task.go.                                     *)
(*                                                                         *)
(* A purchase creates a subscription from its plan and may move the user   *)
(* to another group.  Requests charge the subscription that ends first and *)
(* settle or give back what they charged.  Every master runs its own       *)
(* maintenance, without a lease: it ends the subscriptions that are over,  *)
(* moves the user to the group that follows, and starts new periods.  An   *)
(* administrator cancels and deletes subscriptions and changes the reset   *)
(* period of a plan.                                                       *)
(*                                                                         *)
(* No row is locked where the code asks for it (GORM v2 does not read      *)
(* "gorm:query_option").  A transaction that saves whole rows of           *)
(* subscriptions, or an order, works from copies: it reads in one step and *)
(* overwrites, whatever has come between, in a later one.  Transactions    *)
(* whose updates name their columns (purchases, the administrator, the end *)
(* of subscriptions) are one step.                                         *)
(***************************************************************************)
EXTENDS Integers, FiniteSets

CONSTANTS Purchases,   \* how many purchases are made
          Granted,     \* those made without a payment callback
          Managed,     \* the subscriptions an administrator may take away
          Plans, PlanOf,
          Upgrade,     \* the group a plan moves the user to, or None
          Downgrade,   \* the group that follows it, or None
          Editable,    \* the plans whose reset period an administrator changes
          Limit,       \* MaxPurchasePerUser; 0 is unlimited
          None, Base,  \* no group; the group the user starts in
          Total,       \* the quota of a subscription; 0 is unlimited
          Duration, Period,
          Requests, Amounts, Actuals, \* what requests estimate and cost
          Masters,
          Nodes,       \* where callbacks arrive: LockOrder excludes only those of one process
          Snapshot,    \* whether a transaction reads one snapshot (MySQL) or what
                       \* has been committed since (PostgreSQL)
          Batch,       \* subscriptionResetBatchSize
          MaxTime, MaxUpsets \* bounds on the clock and on upsets

Ids == 1..Purchases
Writers == Requests \cup Masters
Upgrades == {Upgrade[p] : p \in Plans} \ {None}
Downgrades == {Downgrade[p] : p \in Plans} \ {None}
Groups == {Base} \cup Upgrades \cup Downgrades

ASSUME PlansAssumption ==
    /\ Purchases \in Nat /\ PlanOf \in [Ids -> Plans] /\ Limit \in [Plans -> Nat]
    /\ Base # None
    /\ Total \in Nat /\ Duration \in Nat \ {0} /\ Period \in Nat \ {0}
    /\ Amounts \subseteq Nat \ {0} /\ Actuals \subseteq Nat
    /\ Batch \in Nat \ {0} /\ MaxTime \in Nat /\ MaxUpsets \in Nat
    /\ Snapshot \in BOOLEAN

\* Finitely many requests are made against one user's subscriptions; none is a
\* master.
ASSUME RequestsAssumption == IsFiniteSet(Requests) /\ Requests \cap Masters = {}

VARIABLES
    now,      \* the clock of the database
    order,    \* the purchases
    callback, \* by order, the nodes that have read it as pending
    paid,     \* the orders with a top-up record, and the grants
    made,     \* how many subscriptions have been created
    sub,      \* the rows of user_subscriptions, by id
    group,    \* the user's group
    periodic, \* the plans whose quota is reset
    req,      \* the requests, with their pre-consume records
    maint,    \* the maintenance of each master
    copy,     \* what the open transaction of a request or a master has read
    upsets,   \* how many failed statements and transactions, acts of the
              \* administrator and callbacks beside another there have been
    overtaken,\* history: who has overwritten a row that had changed since he read it
    swallowed \* history: a query about the group has failed unnoticed

orders == <<order, callback, paid>>
rows == <<made, sub, overtaken>>
users == <<group, swallowed>>
vars == <<now, orders, rows, users, periodic, req, maint, copy, upsets>>

SubStatus == {"none", "active", "expired", "cancelled", "deleted"}

\* last and next: LastResetTime and NextResetTime, 0 for none.
Sub == [status : SubStatus, plan : Plans \cup {None}, used : Nat, start : Nat, end : Nat,
        last : Nat, next : Nat, prev : Groups \cup {None}]

\* amount: what is pre-consumed; owes: what the request should cost by now.
Req == [pc : {"new", "held", "refund", "mark", "done"}, sub : Ids \cup {0},
        amount : Nat, owes : Nat, tries : 0..2]

\* item: the subscription of the list that is looked at.
Maint == [pc : {"scan", "expire", "list", "reset", "read", "write"}, at : Nat,
          list : SUBSET Ids, count : Nat, item : Ids \cup {0}]

Resting == [pc |-> "scan", at |-> 0, list |-> {}, count |-> 0, item |-> 0]

Unborn == [status |-> "none", plan |-> None, used |-> 0, start |-> 0, end |-> 0,
           last |-> 0, next |-> 0, prev |-> None]

\* What a transaction works from: its time, the plans with a reset, and the rows
\* (blank where it has read none).
Copy == [at : Nat, plans : SUBSET Plans, rows : [Ids -> Sub]]

Closed == [at |-> 0, plans |-> {}, rows |-> [i \in Ids |-> Unborn]]

Init == /\ now = 1
        /\ order = [o \in Ids |-> "none"]
        /\ callback = [o \in Ids |-> {}]
        /\ paid = {}
        /\ made = 0
        /\ sub = [i \in Ids |-> Unborn]
        /\ group = Base
        /\ periodic = Plans
        /\ req = [q \in Requests |-> [pc |-> "new", sub |-> 0, amount |-> 0, owes |-> 0, tries |-> 0]]
        /\ maint = [m \in Masters |-> Resting]
        /\ copy = [w \in Writers |-> Closed]
        /\ upsets = 0 /\ overtaken = {} /\ swallowed = FALSE

-----------------------------------------------------------------------------
(* Helpers.                                                                *)

Up(i) == Upgrade[sub[i].plan]
Down(i) == Downgrade[sub[i].plan]

Active(i) == sub[i].status = "active"
IsRow(s) == s.status \notin {"none", "deleted"}
Exists(i) == IsRow(sub[i])

\* In the table or copy t, i comes before j: end_time asc, id asc.
Before(t, i, j) == t[i].end < t[j].end \/ (t[i].end = t[j].end /\ i < j)

\* The user owes his group to i.
Carries(i) == Active(i) /\ Up(i) # None

\* The group the user falls back to when i says so: the downgrade group, or the
\* group of before if it is still i's upgrade that the user has.
Followed(i) == IF Down(i) # None THEN Down(i)
               ELSE IF Up(i) = group /\ sub[i].prev # None THEN sub[i].prev ELSE group

Upset == upsets < MaxUpsets /\ upsets' = upsets + 1

\* calcNextResetTime of a custom period.
NextReset(resets, base, end) == IF resets /\ base + Period <= end THEN base + Period ELSE 0

\* Mutant: the period that has passed is not put on record.
ForgetsLastReset(s, t, plans) ==
    LET base == IF s.last > 0 THEN s.last ELSE s.start
        k == (IF t < s.end THEN t - base ELSE s.end - base) \div Period
    IN  IF s.plan \in plans /\ s.next <= t /\ k > 0
        THEN [s EXCEPT !.used = 0, !.next = base] ELSE s

\* maybeResetUserSubscriptionWithPlanTx, of row s at time t; the row is saved if
\* it has changed.
MaybeReset(s, t, plans) ==
    LET base == IF s.last > 0 THEN s.last ELSE s.start
        k == (IF t < s.end THEN t - base ELSE s.end - base) \div Period \* periods that have passed
        next == NextReset(s.plan \in plans, base, s.end)
        reached == base + k * Period
    IN  IF s.next > t \/ s.plan \notin plans THEN s
        ELSE IF k > 0 THEN [s EXCEPT !.used = 0, !.last = reached,
                                     !.next = NextReset(TRUE, reached, s.end)]
        ELSE IF s.next = 0 /\ next > 0 THEN [s EXCEPT !.last = base, !.next = next]
        ELSE s

Open(w) == copy[w].at > 0

\* w's transaction, of time t, starts and reads the rows of S; closes without a
\* trace; or saves the rows of S as they are in s and is committed.
Reads(w, S, t, plans) ==
    copy' = [copy EXCEPT ![w] = [at |-> t, plans |-> plans,
                                 rows |-> [i \in Ids |-> IF i \in S THEN sub[i] ELSE Unborn]]]

Closes(w) == copy' = [copy EXCEPT ![w] = Closed]

Saves(w, S, s) ==
    /\ Open(w)
    /\ sub' = [i \in Ids |-> IF i \in S THEN s[i] ELSE sub[i]]
    /\ overtaken' = overtaken \cup {w} \X {i \in S : copy[w].rows[i] # sub[i]}
    /\ Closes(w)

-----------------------------------------------------------------------------
(* Purchases.                                                              *)

LimitReached(p) ==
    Limit[p] > 0 /\ Cardinality({i \in Ids : Exists(i) /\ sub[i].plan = p}) >= Limit[p]

\* The handlers that start a payment look at the limit and insert an order.
PlaceOrder(o) ==
    /\ o \notin Granted /\ order[o] = "none" /\ ~LimitReached(PlanOf[o])
    /\ order' = [order EXCEPT ![o] = "pending"]
    /\ UNCHANGED <<now, callback, paid, rows, users, periodic, req, maint, copy, upsets>>

\* CreateUserSubscriptionFromPlanTx; a plan may leave the group alone.  (No more
\* subscriptions are made than there are ids.)
Create(p) ==
    LET i == made + 1
        next == NextReset(p \in periodic, now, now + Duration)
        moves == Upgrade[p] \notin {None, group}
    IN  /\ made < Purchases /\ ~LimitReached(p)
        /\ made' = i
        /\ sub' = [sub EXCEPT ![i] = [status |-> "active", plan |-> p, used |-> 0,
                                      start |-> now, end |-> now + Duration,
                                      last |-> IF next > 0 THEN now ELSE 0, next |-> next,
                                      prev |-> IF moves THEN group ELSE None]]
        /\ group' = IF moves THEN Upgrade[p] ELSE group
        /\ UNCHANGED <<now, overtaken, swallowed, periodic, req, maint, copy, upsets>>

\* A callback, or the end of the payment, reads the order: only one that is
\* pending is worked on.
ReadOrder(n, o) ==
    /\ order[o] = "pending" /\ n \notin callback[o]
    /\ callback' = [callback EXCEPT ![o] = @ \cup {n}]
    /\ IF callback[o] = {} THEN UNCHANGED upsets ELSE Upset
    /\ UNCHANGED <<now, order, paid, rows, users, periodic, req, maint, copy>>

Answers(n, o) == callback' = [callback EXCEPT ![o] = @ \ {n}]

\* Mutant: a top-up record that is there already is taken for the order's own.
CompletesAgain(n, o) ==
    /\ n \in callback[o] /\ Answers(n, o)
    /\ Create(PlanOf[o])
    /\ order' = [order EXCEPT ![o] = "success"]
    /\ paid' = paid \cup {o}

\* The subscription is created, the top-up recorded under the order's number, and
\* the order saved whatever has become of it.  A snapshot does not show the
\* record of a callback that came between, and its number is unique: all is
\* rolled back.
CompleteSubscriptionOrder(n, o) ==
    /\ n \in callback[o] /\ Answers(n, o)
    /\ \/ /\ o \in paid => ~Snapshot
          /\ Create(PlanOf[o])
          /\ order' = [order EXCEPT ![o] = "success"]
          /\ paid' = paid \cup {o}
       \/ /\ LimitReached(PlanOf[o]) \/ (o \in paid /\ Snapshot)
          /\ UNCHANGED <<now, order, paid, rows, users, periodic, req, maint, copy, upsets>>

ExpireSubscriptionOrder(n, o) ==
    /\ n \in callback[o] /\ Answers(n, o)
    /\ order' = [order EXCEPT ![o] = "expired"]
    /\ UNCHANGED <<now, paid, rows, users, periodic, req, maint, copy, upsets>>

\* AdminBindSubscription and PurchaseSubscriptionWithBalance, without a callback.
Grant(o) ==
    /\ o \in Granted /\ order[o] = "none"
    /\ Create(PlanOf[o])
    /\ order' = [order EXCEPT ![o] = "success"]
    /\ paid' = paid \cup {o}
    /\ UNCHANGED callback

-----------------------------------------------------------------------------
(* Requests: PreConsume, Settle and Refund of SubscriptionFunding.         *)

Candidates == {i \in Ids : Active(i) /\ sub[i].end > now}

\* The transaction of a pre-consumption, settlement or refund reads its rows.
Read(q) ==
    /\ req[q].pc \in {"new", "held", "refund"} /\ ~Open(q)
    /\ Reads(q, IF req[q].pc = "new" THEN Candidates ELSE {req[q].sub} \cap Ids, now, periodic)
    /\ UNCHANGED <<now, orders, rows, users, periodic, req, maint, upsets>>

Found(q) == {i \in Ids : IsRow(copy[q].rows[i])}

\* The row of i as PreConsume has reset it, when it has to.
Renewed(q, i) == MaybeReset(copy[q].rows[i], copy[q].at, copy[q].plans)

Holds(q, i, amount) == Total = 0 \/ Total - Renewed(q, i).used >= amount

\* The first candidate that has enough left is charged; those looked at
\* before it are reset too.  When none has, everything is rolled back.
PreConsume(q) ==
    /\ req[q].pc = "new" /\ Open(q)
    /\ \E a \in Amounts :
          \/ \E i \in Found(q) :
                LET earlier == {j \in Found(q) : Before(copy[q].rows, j, i)}
                IN  /\ Holds(q, i, a)
                    /\ \A j \in earlier : ~Holds(q, j, a)
                    /\ Saves(q, {i} \cup {j \in earlier : Renewed(q, j) # copy[q].rows[j]},
                             [[j \in Ids |-> Renewed(q, j)] EXCEPT ![i].used = @ + a])
                    /\ req' = [req EXCEPT ![q] = [@ EXCEPT !.pc = "held", !.sub = i,
                                                           !.amount = a, !.owes = a]]
          \/ /\ \A i \in Found(q) : ~Holds(q, i, a)
             /\ Closes(q)
             /\ req' = [req EXCEPT ![q].pc = "done"]
             /\ UNCHANGED <<sub, overtaken>>
    /\ UNCHANGED <<now, orders, made, users, periodic, maint, upsets>>

\* The usage of row s after PostConsumeUserSubscriptionDelta, by the difference
\* of what is to be paid and what has been paid.
NewUsed(s, was, is) == IF s.used + is < was THEN 0 ELSE s.used + is - was

Fits(s, was, is) == IsRow(s) /\ (Total > 0 => NewUsed(s, was, is) <= Total)

Own(q) == copy[q].rows[req[q].sub]

\* Mutant: the actual cost is charged on top of the estimate.
AddsActual(q, was, is) ==
    /\ IsRow(Own(q))
    /\ Saves(q, {req[q].sub}, [copy[q].rows EXCEPT ![req[q].sub].used = @ + is])

PostConsume(q, was, is) ==
    /\ Fits(Own(q), was, is)
    /\ Saves(q, {req[q].sub}, [copy[q].rows EXCEPT ![req[q].sub].used = NewUsed(Own(q), was, is)])

\* The transaction finds no row, or too little left, or fails.
PostFails(q, was, is) ==
    /\ (Open(q) /\ ~Fits(Own(q), was, is) /\ UNCHANGED upsets) \/ Upset
    /\ Closes(q)
    /\ UNCHANGED <<sub, overtaken>>

\* The request is over, and owes n.
Done(q, n) == [pc |-> "done", sub |-> req[q].sub, amount |-> 0, owes |-> n, tries |-> 0]

\* The actual cost; what cannot be charged stays at the estimate.
Settle(q) ==
    /\ req[q].pc = "held"
    /\ \E a \in Actuals :
          \/ /\ a # req[q].amount
             /\ \/ /\ PostConsume(q, req[q].amount, a)
                   /\ req' = [req EXCEPT ![q] = Done(q, a)]
                   /\ UNCHANGED upsets
                \/ /\ PostFails(q, req[q].amount, a)
                   /\ req' = [req EXCEPT ![q] = Done(q, req[q].owes)]
          \/ /\ a = req[q].amount /\ ~Open(q)
             /\ req' = [req EXCEPT ![q] = Done(q, a)]
             /\ UNCHANGED <<sub, overtaken, copy, upsets>>
    /\ UNCHANGED <<now, orders, made, users, periodic, maint>>

\* The request fails.
Abort(q) == /\ req[q].pc = "held" /\ ~Open(q)
            /\ req' = [req EXCEPT ![q].pc = "refund"]
            /\ UNCHANGED <<now, orders, rows, users, periodic, maint, copy, upsets>>

\* refundWithRetry: the attempt has failed.
Again(q) == IF req[q].tries = 2 THEN Done(q, req[q].owes)
            ELSE [req[q] EXCEPT !.pc = "refund", !.tries = @ + 1]

\* RefundSubscriptionPreConsume: the quota is given back in a transaction of
\* its own, and then the record is marked.
RefundDelta(q) ==
    /\ req[q].pc = "refund"
    /\ \/ /\ PostConsume(q, req[q].amount, 0)
          /\ req' = [req EXCEPT ![q] = [@ EXCEPT !.pc = "mark", !.owes = 0]]
          /\ UNCHANGED upsets
       \/ /\ PostFails(q, req[q].amount, 0)
          /\ req' = [req EXCEPT ![q] = Again(q)]
    /\ UNCHANGED <<now, orders, made, users, periodic, maint>>

RefundMark(q) ==
    /\ req[q].pc = "mark"
    /\ \/ req' = [req EXCEPT ![q] = Done(q, req[q].owes)] /\ UNCHANGED upsets
       \/ Upset /\ req' = [req EXCEPT ![q] = Again(q)]
    /\ UNCHANGED <<now, orders, rows, users, periodic, maint, copy>>

-----------------------------------------------------------------------------
(* The administrator.                                                      *)

\* downgradeUserGroupForSubscriptionTx, once i has been taken away: another
\* subscription that carries the user keeps his group, unless the query for it
\* fails.
Downgraded(i) ==
    \/ /\ group' = IF \E j \in Ids \ {i} : Carries(j) /\ sub[j].end > now
                   THEN group ELSE Followed(i)
       /\ Upset /\ UNCHANGED swallowed
    \/ Upset /\ swallowed' = TRUE /\ group' = Followed(i)

AdminInvalidate(i) ==
    /\ i \in Managed /\ Exists(i)
    /\ Downgraded(i)
    /\ sub' = [sub EXCEPT ![i].status = "cancelled", ![i].end = now]
    /\ UNCHANGED <<now, orders, made, overtaken, periodic, req, maint, copy>>

AdminDelete(i) ==
    /\ i \in Managed /\ Exists(i)
    /\ Downgraded(i)
    /\ sub' = [sub EXCEPT ![i] = [Unborn EXCEPT !.status = "deleted"]]
    /\ UNCHANGED <<now, orders, made, overtaken, periodic, req, maint, copy>>

\* AdminUpdateSubscriptionPlan turns the reset of a plan on or off.
EditPlan(p) ==
    /\ p \in Editable /\ Upset
    /\ periodic' = IF p \in periodic THEN periodic \ {p} ELSE periodic \cup {p}
    /\ UNCHANGED <<now, orders, rows, users, req, maint, copy>>

-----------------------------------------------------------------------------
(* Maintenance: runSubscriptionQuotaResetOnce.                             *)

Goes(m, x) == maint' = [maint EXCEPT ![m] = x]

\* Maintenance acts on what it finds now.
Works(pc, list) == [pc |-> pc, at |-> now, list |-> list, count |-> 0, item |-> 0]

Over(t) == {i \in Ids : Active(i) /\ sub[i].end <= t}

\* A pass starts, or goes on after a full batch: ExpireDueSubscriptions lists the
\* users who have something to end.  When a statement fails the pass is over.
ExpireScan(m) ==
    /\ maint[m].pc = "scan"
    /\ \/ Goes(m, IF Over(now) = {} THEN [Resting EXCEPT !.pc = "list"]
                  ELSE Works("expire", {})) /\ UNCHANGED upsets
       \/ Upset /\ Goes(m, Resting)
    /\ UNCHANGED <<now, orders, rows, users, periodic, req, copy>>

\* The subscription whose transition counts: the last to end of those that
\* have expired and name a group.
LastExpired(i, ended) ==
    LET named == {j \in Ids : (sub[j].status = "expired" \/ j \in ended)
                              /\ (Up(j) # None \/ Down(j) # None)}
    IN  i \in named /\ \A j \in named \ {i} : Before(sub, j, i)

\* Mutant: the group goes although another subscription still carries it.
ExpiresAlone(i, ended, t) ==
    LastExpired(i, ended)

\* Subscription i says to which group the user falls back.
Decides(i, ended, t) ==
    /\ ~\E j \in Ids : Carries(j) /\ sub[j].end > t
    /\ LastExpired(i, ended)

\* The group after those in ended have been ended.  The errors of both queries
\* are dropped: without the first the last to end decides though another still
\* carries the user, without the second nobody does.
Regrouped(ended, t) ==
    \/ /\ \/ \E i \in Ids : Decides(i, ended, t) /\ group' = Followed(i)
          \/ ~(\E i \in Ids : Decides(i, ended, t)) /\ UNCHANGED group
       /\ UNCHANGED <<upsets, swallowed>>
    \/ /\ Upset /\ swallowed' = TRUE
       /\ \/ \E i \in Ids : LastExpired(i, ended) /\ group' = Followed(i)
          \/ UNCHANGED group

\* The transaction ends all that was over when the list was made.
Expire(m) ==
    LET t == maint[m].at
        ended == Over(t)
        next == IF Cardinality(ended) >= Batch THEN "scan" ELSE "list"
    IN  /\ maint[m].pc = "expire"
        /\ \/ /\ sub' = [i \in Ids |-> IF i \in ended THEN [sub[i] EXCEPT !.status = "expired"]
                                       ELSE sub[i]]
              /\ Regrouped(ended, t)
              /\ Goes(m, [Resting EXCEPT !.pc = next])
           \/ Upset /\ Goes(m, Resting) /\ UNCHANGED <<sub, users>>
        /\ UNCHANGED <<now, orders, made, overtaken, periodic, req, copy>>

Due(i, t) == sub[i].next > 0 /\ sub[i].next <= t

\* ResetDueSubscriptions lists what is due, the earliest first, up to a batch.
ResetList(m) ==
    LET due == {i \in Ids : Active(i) /\ Due(i, now)}
    IN  /\ maint[m].pc = "list"
        /\ \/ /\ \E l \in SUBSET due :
                    /\ Cardinality(l) = IF Cardinality(due) < Batch THEN Cardinality(due) ELSE Batch
                    /\ \A i \in l, j \in due \ l : sub[i].next <= sub[j].next
                    /\ Goes(m, IF l = {} THEN Resting
                               ELSE Works("reset", l))
              /\ UNCHANGED upsets
           \/ Upset /\ Goes(m, Resting)
        /\ UNCHANGED <<now, orders, rows, users, periodic, req, copy>>

\* The next of the list: its plan is read first.
ResetPlan(m) ==
    LET x == maint[m]
    IN  /\ x.pc = "reset"
        /\ \E i \in x.list :
              \/ /\ Goes(m, [x EXCEPT !.pc = "read", !.list = @ \ {i}, !.item = i])
                 /\ Reads(m, {}, x.at, periodic)
                 /\ UNCHANGED upsets
              \/ Upset /\ Goes(m, [x EXCEPT !.list = @ \ {i}]) /\ UNCHANGED copy
        /\ UNCHANGED <<now, orders, rows, users, periodic, req>>

\* Then, in a transaction of its own, the row, if it is still due; an error is
\* taken for a row that is not.
ResetRead(m) ==
    LET x == maint[m]
    IN  /\ x.pc = "read"
        /\ \/ /\ Exists(x.item) /\ Due(x.item, x.at)
              /\ Goes(m, [x EXCEPT !.pc = "write"])
              /\ Reads(m, {x.item}, x.at, copy[m].plans)
              /\ UNCHANGED upsets
           \/ /\ (~(Exists(x.item) /\ Due(x.item, x.at)) /\ UNCHANGED upsets) \/ Upset
              /\ Goes(m, [x EXCEPT !.pc = "reset", !.item = 0])
              /\ Closes(m)
        /\ UNCHANGED <<now, orders, rows, users, periodic, req>>

\* It is reset by the time of the list and counted, whether it has changed or not.
Reset(m) ==
    LET x == maint[m]
        old == copy[m].rows[x.item]
        new == MaybeReset(old, copy[m].at, copy[m].plans)
    IN  /\ x.pc = "write"
        /\ \/ /\ Saves(m, IF new = old THEN {} ELSE {x.item}, [copy[m].rows EXCEPT ![x.item] = new])
              /\ Goes(m, [x EXCEPT !.pc = "reset", !.count = @ + 1, !.item = 0])
              /\ UNCHANGED upsets
           \/ Upset /\ Closes(m) /\ Goes(m, Resting) /\ UNCHANGED <<sub, overtaken>>
        /\ UNCHANGED <<now, orders, made, users, periodic, req>>

\* Mutant: a pass that has reset something goes on until there is nothing left.
ListsUntilEmpty(m) ==
    /\ maint[m].pc = "reset" /\ maint[m].list = {}
    /\ Goes(m, IF maint[m].count > 0 THEN [Resting EXCEPT !.pc = "list"] ELSE Resting)
    /\ UNCHANGED <<now, orders, rows, users, periodic, req, copy, upsets>>

\* The list is done: another follows a full batch.
ResetDone(m) ==
    /\ maint[m].pc = "reset" /\ maint[m].list = {}
    /\ Goes(m, IF maint[m].count >= Batch THEN [Resting EXCEPT !.pc = "list"] ELSE Resting)
    /\ UNCHANGED <<now, orders, rows, users, periodic, req, copy, upsets>>

-----------------------------------------------------------------------------
Tick == /\ now < MaxTime
        /\ now' = now + 1
        /\ UNCHANGED <<orders, rows, users, periodic, req, maint, copy, upsets>>

Purchase(o) == \/ PlaceOrder(o) \/ Grant(o)
               \/ \E n \in Nodes : \/ ReadOrder(n, o) \/ CompleteSubscriptionOrder(n, o)
                                   \/ ExpireSubscriptionOrder(n, o)

Request(q) == Read(q) \/ PreConsume(q) \/ Settle(q) \/ Abort(q) \/ RefundDelta(q) \/ RefundMark(q)

Maintenance(m) == \/ ExpireScan(m) \/ Expire(m)
                  \/ ResetList(m) \/ ResetPlan(m) \/ ResetRead(m) \/ Reset(m) \/ ResetDone(m)

Next == \/ Tick
        \/ \E i \in Ids : Purchase(i) \/ AdminInvalidate(i) \/ AdminDelete(i)
        \/ \E q \in Requests : Request(q)
        \/ \E p \in Plans : EditPlan(p)
        \/ \E m \in Masters : Maintenance(m)

Spec == Init /\ [][Next]_vars

\* Every master's ticker starts a pass each minute, and a pass that was started
\* goes on.
FairSpec == Spec /\ \A m \in Masters : WF_vars(Maintenance(m))

-----------------------------------------------------------------------------
(* Properties.                                                             *)

\* With used <= Total: no subscription is oversold.
TypeOK == /\ now \in 1..(MaxTime + 1) /\ made \in 0..Purchases
          /\ order \in [Ids -> {"none", "pending", "success", "expired"}]
          /\ callback \in [Ids -> SUBSET Nodes] /\ paid \subseteq Ids
          /\ sub \in [Ids -> Sub]
          /\ \A i \in Ids : Total > 0 => sub[i].used <= Total
          /\ group \in Groups /\ periodic \subseteq Plans
          /\ req \in [Requests -> Req] /\ maint \in [Masters -> Maint]
          /\ copy \in [Writers -> Copy]
          /\ upsets \in 0..MaxUpsets /\ overtaken \subseteq Writers \X Ids
          /\ swallowed \in BOOLEAN

\* Where transactions read a snapshot, a purchase is credited once, though
\* callbacks on several nodes and the order's expiry have all read it as pending
\* and overwrite one another: "Complete a subscription order (idempotent)"
\* (model/subscription.go:550).
CreditedOnce ==
    Snapshot => /\ made = Cardinality(paid)
                /\ \A o \in Ids : order[o] = "success" => o \in paid

\* The units of quota that the requests of subscription i owe.
Owed(i) == UNION {{q} \X (1..req[q].owes) : q \in {r \in Requests : req[r].sub = i}}

\* A subscription never shows more usage than its requests owe, through
\* settlements, repeated refunds and resets that fall between them, or beside
\* them, as long as no request has overwritten what had been written since it
\* read the row (two that overlap may lose a refund).
NeverOvercharged ==
    \A i \in Ids : (\A q \in Requests : <<q, i>> \notin overtaken)
                      => sub[i].used <= Cardinality(Owed(i))

Elevated == group \in Upgrades

\* Every plan that moves the user up says what follows it.
Explicit == /\ \A p \in Plans : Upgrade[p] # None => Downgrade[p] # None
            /\ Upgrades \cap ({Base} \cup Downgrades) = {}

\* Under explicit plans the user is up as long as a subscription carries him,
\* and no longer than until the last one has been ended, in whatever order
\* they are bought, run out, are cancelled and are ended by several masters,
\* unless a row was overwritten that had changed (which may bring an ended
\* subscription back) or the error of a query was dropped.
\* (Without a downgrade group he may stay up for ever: the last to end, bought
\* when he was up already, knows no group of before.)
GroupFollows ==
    Explicit /\ overtaken = {} /\ ~swallowed =>
        /\ (\E i \in Ids : Carries(i) /\ sub[i].end > now) => Elevated
        /\ Elevated => \E i \in Ids : Carries(i)

\* The transaction of w ends, and i is not any more what w has read of it.
Outdated(w, i) == Open(w) /\ ~Open(w)' /\ copy[w].rows[i] # sub[i]

\* The usage of a subscription goes down when one of its own requests is settled
\* or refunded; once per period, whoever notices that a new one has begun, though
\* requests and masters look at the row beside one another; or when a
\* transaction overwrites what another has written since it read the row.
OncePerPeriod ==
    [][\A i \in Ids : sub'[i].used < sub[i].used /\ sub'[i].status # "deleted" =>
          \/ \E q \in Requests : req[q].sub = i /\ req'[q] # req[q]
          \/ sub'[i].last >= sub[i].last + Period /\ sub'[i].last <= now
          \/ \E w \in Writers : Outdated(w, i)]_vars

\* A subscription that is over is ended, although a plan that is no longer
\* reset stays on the list of what is due.  (Batch is larger than the list.)
OverIsEnded == \A i \in Ids : (Active(i) /\ sub[i].end <= now) ~> ~Active(i)
=============================================================================
