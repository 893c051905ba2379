# Formal models of router-ai-atius

router-ai-atius is a gateway for language-model APIs, a fork of new-api: Go
(gin, GORM v2) over a SQL database and an optional Redis, with a web interface.
Clients call OpenAI-, Claude- or Gemini-shaped endpoints; the gateway chooses a
channel of some provider, relays the request and charges the user's quota.
Several processes share one database; those configured as masters also run the
background work.

This directory models the parts whose correctness depends on the order of
steps: background work under leases, quota charged before the work and settled
or returned after it, subscriptions that run out beside requests, credentials
that can be spent only once, and admission under a limit that moves. TLC checks the
models on small instances; TLAPS proves the theorems listed below for every
value of the constants.

## 1. Inventory

What each part keeps, does and must guarantee. "Modelled" names the module.

| Part | State | Operations and partners | What is hard, and what must hold |
| --- | --- | --- | --- |
| System task runner (`service/system_task.go`, `model/system_task.go`): **SystemTask**, **TaskQueue** | rows of `system_tasks`, one lock row per type in `system_task_locks`, goroutines per master | 15 s pass: expire stale locks, schedule, claim; heartbeat; finish. Dispatches polling, log clean-up, Codex catalogue, channel tests | masters interleave statement by statement, stall and crash; one run at a time per type, one dispatch per row, final outcomes, a crashed run is cleared |
| Billing session (`service/billing_session.go`, `funding_source.go`): **BillingSession** | session in memory; quota of user, token and subscription; pre-consume records | `controller/relay.go` pre-consumes, relays, then settles or refunds; violation fee beside the refund | statements fail half-way, refund is an asynchronous retry; every request pays its cost once or nothing |
| Async task polling (`service/task_polling.go`, `task_billing.go`, `model/task.go`, `relay/relay_task.go`): **TaskPolling** | rows of `tasks`, passes and user requests that hold copies of them | sweep of timed-out tasks, polling of video and Suno tasks, realtime fetch by a user; refund and settlement | overlapping passes, stale copies written back, deleted channels, crashes between refund and save; refunded once, charged once |
| Embedding governor (`service/embeddinggovernor`): **EmbeddingGovernor** | counters, an adaptive limit, two guardrails, a mutex and a condition variable | Acquire/Finish by the embedding and reranking handlers; health and capacity probes | lost wakeups, timeouts against slots, four sources that move the limit; exact counters, limits, cooldown |
| Subscriptions (`model/subscription.go`, `service/subscription_reset_task.go`): **Subscription** | orders, plans, user subscriptions with a period, pre-consume records, the user's group | purchase, pre-consume, settle, refund, period reset, expiry, cancellation | repeated payment callbacks, maintenance on every master without a lease, a reset between charge and refund, row locks that are requested in a way GORM v2 ignores; credited once, never oversold, one reset per period, the group follows the subscriptions |
| Redemption, top-up, check-in (`model/redemption.go`, `topup.go`, `checkin.go`) | codes, orders, daily rows | redeem, payment callbacks, daily bonus | the same locks; each code and order credits once |
| Batch updater (`model/utils.go`, `user.go`, `token.go`) | pending deltas per kind in memory, caches in Redis, quota columns | every charge; a periodic flush | process stop between the swap of the stores and the update; database + pending + in flight = what was charged |
| Realtime billing (`relay/channel/openai/relay-openai.go`, `service/quota.go`) | usage of a websocket session | increments while it runs, settlement at its end | the total settles what the increments have charged |
| Codex credentials (`service/codex_credential_refresh.go`, `codex_oauth.go`): **CodexRefresh**, **CodexDevice**, **DeviceAttempt** | an operation row per channel and per device authorization, with owner, lease and fence; the channel's key | claim, mark, refresh upstream, save, commit; start, poll, cancel of a device authorization | a refresh token and a one-time code work once; lost answers, stalled owners, keys replaced meanwhile |
| Codex regeneration dialog (`web/default`: channel drawer, dialog, API): **CodexDialog** | React state and refs, the poller, requests in flight, the session's cookie | the user opens, starts, closes; timers, responses and renders | callbacks that captured old state, a cancellation with several callers, requests served after they were given up |
| Rate limiters (`common/rate-limit.go`, `middleware/*rate-limit.go`) | windows in memory or in Redis | check and count a request | check-then-push in separate commands, zero as a maximum |
| Channel selection (`service/channel_select.go`, `channel_affinity.go`, `model/channel_cache.go`) | cached abilities, retry position, group | select, retry, cross groups | every eligible priority and group is tried in order, none twice |
| Midjourney poller; superseded `controller/task_video.go` | as TaskPolling; the second has no caller | | |
| Relay handlers and adaptors, pricing, users and tokens, options, channel administration, logs, instances, files, caches, start-up | request-local data or CRUD | conversions, arithmetic, I/O | left out: data without shared control |

`PROJECT.json` lists these with their files, and under `hazards` each place where
this code is hard to test, with the property that covers it or the reason why none
does yet.

How the modelled parts meet: a relayed request opens a BillingSession; an
asynchronous one settles it at submission and inserts a task row, from which
TaskPolling starts (`Quota` is what the session left charged). The polling passes
run as system tasks, so SystemTask's `MutualExclusion` is what normally keeps two
passes apart, and because it speaks of runs *within their leases* only,
TaskPolling lets two passes overlap. Embedding requests take an EmbeddingGovernor
lease inside a BillingSession; the two share no state. A BillingSession charges a
subscription whose life is Subscription's: BillingSession follows one request through
its two sources and its token, Subscription what all requests, periods and masters do to
a row. CodexDialog drives, over HTTP, the poll requests of CodexDevice; both replace the
key that CodexRefresh keeps fresh, and CodexRefresh has such replacements as steps of
its environment.

## 2. The modules

Each module takes what happens between two points where another actor can act as
one step: one SQL statement or transaction, one critical section of a mutex, one
call upstream. A statement may fail and then changes nothing. Names of actions are
those of the Go functions where one function is one step; `map` in `PROJECT.json`
gives the lines of every definition. `MCX` only gives values to the constants of
`X`. Definitions commented *Mutant* are deliberately wrong variants of a
definition; replacing the definition by its mutant must make the named property
fail, which shows that the property depends on that piece of code.

### SystemTask

State: the rows (`task`), the lock row of one task type (`lock`), per master the
position of its pass with the locals of the call it is in (`loop`), per dispatched
task the handler and its heartbeat (`handler`), and the clock (`now`). Types share
neither rows nor locks nor active keys, so one type is enough. Actions follow
`ExpireStaleSystemTaskLocks` (ScanLocks, MarkStale, DeleteStale),
`runSystemTaskScheduler` (Schedule, SchedulerCreate), `EnqueueSystemTask`,
`ClaimSystemTask` with `acquireSystemTaskLock` (ClaimRead, InsertLock,
ReadExistingLock, TakeOverLock, MarkOld, StartTask, ReleaseClaim), the heartbeat
(Renew), the handler's writes and `FinishSystemTask` (FinishSystemTask,
FinishRelease). Crash stops a process for good. Timestamps are read when a call
starts and used when its statement executes, so a stall of any length lies between
them. All nodes are taken to read the same clock, as `GetTimestamp` has no
correction for skew.

`TaskQueue` is what the tasks of a type promise together: there is at most one that is not
over, it is started once, handed to a handler at its start or never, and has one outcome, and
the next is created only after it. `ImplementsQueue` maps the newest row to the task at hand,
the older rows to the outcomes and the goroutines' table to the tasks that were dispatched.

### BillingSession

State: one session record per request with the history of what its statements did
to wallet, subscription and token; the used amount of the shared subscription.
Actions follow `NewBillingSession` and `preConsume` (token first, then the funding
source; rollback, fallback to the wallet), `Settle`, the controller's deferred
failure path (Abort, ChargeFee, ChargeFeeToken), and `Refund` with
`refundWithRetry` and the two transactions of `RefundSubscriptionPreConsume`.
A wallet balance is never a guard ("Wallet quota is accounting state, never an
authorization decision"), and the token check reads a cache of any age, so both of
its outcomes are possible. Not modelled: errors after which a statement may have
been executed, batched updates, the period reset of a subscription (one plan
without a period), `Reserve` (no caller), realtime increments.

### TaskPolling

State: the rows, what upstream would answer, which tasks are timed out or have a
deleted channel, what each task's source and token have been charged, and the
copies that passes (`work`) and user requests (`get`) hold. Actions follow
`sweepTimedOutTasks`, `updateVideoTasks`/`updateVideoSingleTask`,
`updateSunoTasks`, `TaskBulkUpdateByID`, `RefundTaskQuota`, `RecalculateTaskQuota`
and `tryRealtimeFetch`; UpdateWithStatus is the compare-and-swap on the status,
Update writes the copy over whatever is there. Assumed of upstream: a task's end is
final there, and a Suno item carries a fail reason only while it fails or is in
progress. A task without an upstream id takes the branch with the effect of
BulkFail, which is also taken when the lookup of an existing channel fails
(`CacheGetChannel` errs on a database error and on a cache that is behind). Three constants
say what may happen to a task: `Tardy` tasks time out, `Flaky` ones are answered with an error
although they go on, and of `Hasty` ones upstream may report 100% before the end: the progress
of an answer is copied to the row with any status (`Progress`), and the lists look at it.
From them follow the *contested* tasks, whose rows somebody writes over who has not seen how
they ended: realtime tasks that are tardy, flaky or were failed in bulk (the history variable
`bulk`), and Suno tasks when passes overlap. For those the code keeps no promise (see
"What the code does not keep"), and the properties say so by name. Not modelled: the page
limits of sweep and list, the submission.

### EmbeddingGovernor

State: the counters of the governor; the limit `currentConcurrency`; what the code
asks of the clock (is the cooldown over, is the interval since the last change of
scale over, how long is it idle) and of the latency mean (above its target or not);
where each caller is: out, queued (awake, wants the mutex), asleep in `Wait`, or
running; the callers whose context is done (`expired`) and those whose watcher
goroutine may still broadcast (`alarms`). Enter is the first critical section of
`Acquire`; GiveUp, Start and Sleep are one turn of its loop; Expire, Alarm and
WatcherEnds are the context and its watcher; FinishPressure, FinishClientError and
FinishSuccess are the outcomes of `finish`, each with `updateIdleLocked` and the
Broadcast in the same step; HealthSample and CapacitySample are the probes. The
window counters saturate at their threshold, which is all the code asks of them.
Not modelled: a panic between Acquire and Finish, the telemetry.

### CodexRefresh

State: the channel's row (`chan`: key, last refresh, the credential whose failure is
recorded), the operation row (`op`), the locals of each call, and upstream's rotations
(`parent`). A credential is a number that stands for a generation. Actions follow
`refreshCodexChannelCredential` (Observe), `claimCodexCredentialRefresh` (ClaimCurrent,
ClaimNew, ClaimInProgress, ClaimUncertain, ClaimTakeover), `markCodexCredentialRefreshStarted`
(MarkStarted), the request itself (UpstreamRotates, UpstreamRefuses), the recovery write
(PersistResult), the commit under the generation check (Commit), and the ways out (Release,
MarkUncertain, RecordFailure); EditKey and Regenerate are other writers of the key, and
RecordIssue is what a probe or a relayed request writes to the health of whatever key is
there (`updateCodexCredentialHealthForGeneration` with an empty hash). A call may stall or
stop at any point. Upstream may rotate the token and answer with it, not be heard, or be
hidden behind an error of a gateway, which the code takes for a refusal. Three variables are
history: until when the operation lives under which a token was sent (`exposed`), the same for
a rotation of the present key that no error hid (`rotated`), and whether the recorded
failure was written without a look at the key (`stray`).

### CodexDevice and DeviceAttempt

`CodexDevice` is one device authorization on the server: its row, the poll requests that
drive it from stage to stage, each on some node, and its cancellation and deletion. Claims
are by compare-and-swap on owner and fence; a lease is renewed while upstream is asked.
A request whose commit fails dies (it uses the state that it did not get) and leaves its lease.
`DeviceAttempt` is what one attempt promises: its code is sent at most once, it has one
outcome, and only an open attempt whose code was sent replaces the key. `ImplementsAttempt`
maps the row's status to that outcome.

### CodexDialog

State: the drawer's state and refs (`ui`), the running start handler, the cancellation in
flight with the wishes of its callers, the poller, the start request, and on the server the
outcome of each attempt, the poll requests still served, and the key. The browser runs one
callback at a time: a user's event, a response or a timer runs to its next `await`; Settle
(the continuations of a cancellation) and PollEffect (the effect React runs after a render
that changed its dependencies) come before the next event (`Quiet`). The session's cookie is
a variable of its own: a request carries the cookie of the moment it is sent, a response
replaces it when it arrives. The server's side has the outcomes of DeviceAttempt. Not
modelled: the rest of the form, and server failures that leave an attempt in an unknown
state other than "failed".

### Subscription

State: one user's purchases (`order`, the callbacks that have read one as pending, and the
top-up records in `paid`), subscriptions (`sub`), group, the plans that have a reset period
(`periodic`), the requests with their pre-consume records (`req`), the maintenance of each
master with the list it works off (`maint`), and what the open transaction of each request
and master has read (`copy`). Actions follow `SubscriptionRequestEpay` (PlaceOrder; the other
providers' handlers do the same), `CompleteSubscriptionOrder` and `ExpireSubscriptionOrder`
(ReadOrder, then either), `AdminBindSubscription` and `PurchaseSubscriptionWithBalance`
(Grant), `PreConsumeUserSubscription` (Read, PreConsume), `SubscriptionFunding.Settle` (Read,
Settle), `RefundSubscriptionPreConsume` with its two transactions (Read, RefundDelta,
RefundMark), the administrator's invalidation, deletion and plan edit, and
`runSubscriptionQuotaResetOnce` (ExpireScan, Expire, ResetList, then per row ResetPlan,
ResetRead, Reset, and ResetDone).

No row is locked. The code asks for row locks with `Set("gorm:query_option", "FOR UPDATE")`,
which GORM v2 does not read, so a transaction that saves a whole row does so from a copy, over
whatever has come since: `Read` and `ResetRead` take the copies, `Saves` writes them back.
`overtaken` remembers who has overwritten a row that had changed. An order is read by
callbacks on several `Nodes` (the mutex `LockOrder` is one process's) and saved whatever has
become of it. `Snapshot` says what a transaction sees of the others: MySQL's snapshot, in
which the top-up record of another callback does not show and its unique number
(`model/topup.go:19`) rolls the second credit back, or PostgreSQL's committed rows.
`swallowed` remembers that the error of a query about the group was dropped. Purchases,
expiries and the administrator's acts, whose updates name their columns, are one step each.
`MaxUpsets` bounds failures, the administrator's acts and callbacks beside another together.

One clock stands for the database's and the nodes', and a transaction reads it with its rows.
The plan's period is a custom one of fixed length. Not modelled: the clean-up of records after
seven days (no request is that old), the cache of plans (a plan edit takes effect at once),
SQLite (whose transactions are serial), the balance a purchase is paid from, plan edits other
than the period, wallet overflow (it is BillingSession's).

## 3. What the runs check

| Run | Instance | Question |
| --- | --- | --- |
| `systask_safety` | 2 masters, 2 rows, time 1..5, TTL 1, symmetric masters | Do runs within their leases exclude each other (`MutualExclusion`), is a row dispatched once (`RunsOnce`), do the masters together implement the queue (`ImplementsQueue`)? |
| `systask_liveness` | 1 row, one master may crash, claims do not outlive their lock | Does a running row end (`RunningEnds`)? |
| `billing_safety` | 2 requests (one forced, one without token), estimates 0..2, cost up to 2, fee 1, a subscription of 3, up to 4 failures | `SettledExact`, `FailedPaysOnlyFee`, `NeverOverRefunded`, `OneSource`, and a started refund ends (`RefundEnds`) |
| `billing_refund` | the same, 1 failure | refutes `SubscriptionRefundedOnce` |
| `taskpoll_video` | 1 video task that may time out, be answered with an error, lose its channel or not find it; 2 overlapping passes, 2 failures or crashes | `RefundedOnce`, `FailedIsRefunded`, `SucceededPays`, `EndIsFinal`, `BillMovesOnce`, and a timed-out task ends (`TimedOutEnds`) |
| `taskpoll_mixed` | a legacy Suno task that may time out, on a deletable channel, and a realtime task whose progress may be 100% before its end and whose user asks for it, costs 0 and 3, 1 pass, 1 user request, 1 failure | `Billed`: the same safety (the conjunction of the first three) over the paths without compare-and-swap |
| `taskpoll_viewed` | 1 realtime task, 1 pass, 1 request | refutes `EveryFailureRefunded` |
| `subscription` | 2 purchases (an order with callbacks on 2 nodes, a grant) of 2 upgrading plans, one of them editable; 1 request, estimated at 2, that costs 2 or 4; total 3, duration 2, period 1, time to 3, snapshots, 1 upset, 1 master | `CreditedOnce`, `NeverOvercharged`, `GroupFollows`, `OncePerPeriod`, and what is over is ended (`OverIsEnded`) |
| `governor_safety` | 1 interactive and 2 batch callers, limit 1..3, queue 2, batch 1 | `Accounting`, `Bounds`, `CoolingAtMin`, `NoLostWakeup`, and every Acquire returns (`AcquireEnds`) |
| `codex_refresh` | 3 symmetric calls, 3 credentials, time 0..3, lease 1, operation 2, freshness 1 | Is a token sent once (`SentOnce`), is a rotation never lost silently (`RotationFenced`), does a late refresh leave newer keys alone (`SuccessorOnly`, `FailureMarksOwn`)? |
| `codex_device` | 3 symmetric poll requests, lease 1, expiry and time 3, 4 claims or cancellations | Is the code never offered again (`NoSecondChance`); do the polls implement the attempt (`ImplementsAttempt`)? |
| `codex_dialog` | 2 device authorizations, any number of clicks, lost requests and renders | `NothingLeftOpen`, `ToldTruth`, `ReplacedOnlyWatched`, and a dialog that waits comes to an end (`WaitingEnds`) |

Every module has one type invariant, `TypeOK`, with the numeric ranges that matter
(`used <= SubTotal`, `MinConcurrency <= currentConcurrency <= MaxConcurrency`). Those of
TaskPolling, CodexRefresh, CodexDevice and CodexDialog hold nothing but types; they are proved and not
checked again by the runs.

**Bounds and why they are enough.** SystemTask: with TTL 1 and times to 5 a lease can be
granted, run out, be taken over by the other master, run out again and be overlapped by a
claim begun under the first; two rows let one run follow another. `MaxTime` stops new
leases, not the statements under way. BillingSession: the subscription of 3 is smaller than
two estimates or costs; 4 failures are enough to exhaust the three attempts of a refund and
fail one statement more. TaskPolling: rows are independent, so one task with two passes, or
two tasks of unlike kinds with one pass, show every pair of paths. EmbeddingGovernor: three
callers fill a queue of two, sleep beside a running batch caller and make demand raise the
limit; with three callers and one batch slot the maximum of 3 is not reached by what runs,
so that part of `Bounds` rests on the theorem. Subscription: two subscriptions can overlap,
be renewed, expire together or one before the other; a life of two periods has one reset
inside it and one at its end; a cost of 4 is refused unless a reset has come between. One
upset is one failure, one act of the administrator or one callback beside another, at any
moment. One master and one request already read and overwrite beside each other (508 thousand
states); two requests without an upset (4 million states) and two masters without one (4.6
million) keep the safety properties too, and the theorems cover any number. Two requests that
share a subscription are also in `billing_safety`. CodexRefresh: with a lease of 1 and an operation of 2 in 3 ticks a claim is taken
over within its operation, and the operation expires and is replaced; three calls are an
owner, the one that takes over, and one that comes after both; three credentials are a key,
its rotation and an edit. CodexDevice: three requests are a holder, one that takes over, and
one that comes late; four fences are more than they use alone. CodexDialog: with two
authorizations an answer about the first meets the second. (2.49 million, 440 thousand and
53 thousand states.) Masters are not made to crash in `systask_safety`: a stall of any
length, which is possible at every step, leaves the same states.

**Fairness.** `SystemTask!FairSpec`: a live process goes on with what it has begun, its
ticker starts passes again and again and their scan and update do not fail for ever,
handlers return, time passes; nothing is assumed of a crashed process.
`BillingSession!FairSpec`: the goroutine pool runs a refund that was started.
`TaskPolling!FairSpec`: the scheduler starts a pass every 15 seconds and a pass that lives
goes on. `EmbeddingGovernor!FairSpec`: every context has a timeout (`normalizeConfig` makes
both positive), watcher goroutines run, and a caller whose context is done gets the mutex;
nothing is assumed of upstream, of probes, or of slots coming free. `Subscription!FairSpec`:
each master's ticker starts a pass every minute and a pass that was started goes on.
`CodexDialog!FairSpec`: callbacks run, requests end (fetch has a result or an error), device
authorizations run out; and strongly, a cancellation that is asked for again and again is at
last confirmed. The last is needed: as long as the server cannot be reached, a dialog whose
time is over sends one cancellation after the other, each time clearing the error the last
one showed. Liveness is never claimed of anything that needs upstream to answer. Deadlock is
not checked where the system may stop: at the bound of the clock, when all requests are
done, when all tasks have ended. The runs of the governor and of the dialog check it.

**What the code does not keep.** Two statements have a run that refutes them; `PROJECT.json`
(`findings`) quotes the text each is taken from.

- `SubscriptionRefundedOnce`: the quota is returned in a transaction of its own,
  before the record that guards against a second refund is committed.
- `EveryFailureRefunded`: a failure recorded by a user's realtime fetch is refunded by
  nobody (the run), and no more is one recorded in bulk, for a deleted channel or for a lookup
  that failed (`service/task_polling.go:214`, 380-393; `FailedIsRefunded` leaves both out).

The others were met while modelling, most of them seen in runs of the same modules that are not kept;
the passing properties leave them out by name.

- System tasks: a claim that stalls longer than the TTL between taking its lock and starting
  its row leaves a running row that no scan finds, and its active key blocks the type
  (so `RunningEnds` is checked with `ClaimPrompt = TRUE`). The scheduler's interval is not kept between
  masters, although `service/system_task.go:259-262` reads so: the decision is taken on a row
  read before another master's run ended. The stale-lock scan fails a task whose lock was
  renewed between the scan's read and its update (`model/system_task.go:366`); for the queue
  that is a failure like another, and no property excludes it.
- Task polling: a realtime fetch can move a refunded task back to "in progress", after which
  it is refunded again, and so it can a task that was failed in bulk; a bulk failure writes over
  an end that another pass has recorded. A Suno task is refunded before the row that says so is
  saved, so that it is refunded twice by overlapping passes or after a failed save. A row whose
  status is still a running one when upstream reports 100% (559-561; a Suno item whose fail
  reason comes before its failure, 285-288) is on neither list any more (`model/task.go:295`,
  311) and never ends, not even by its timeout: `TimedOutEnds` is about videos that are not
  `Hasty`. A user's request copies the progress in the same way (`relay_task.go:464-466`).
- Governor: an interactive caller that leaves the queue wakes nobody, so a batch caller may
  sleep on beside an empty governor until a probe, a later caller or its own timeout.
  `QueueLimit` counts batch callers too, so with the defaults 128 and 512 a batch queue of 512
  (`docs/API.md:312`) cannot fill, and batch callers can fill the interactive one.
- Codex refresh: every answer but a 2xx releases the operation for another attempt or ends it
  (`codex_oauth.go:1448`, `codex_credential_refresh.go:505-508`), a gateway's 502 or 504 too.
  If upstream had rotated the token behind it, the new one is lost, nothing says so, and the
  old one is sent again: `RotationFenced` is about rotations that no error hid, and `SentOnce`
  counts an error answer as a refusal. A probe (176-218) and an issue a relayed request
  reports (237-242, 321-330) are recorded, or cleared, on whatever key is there by then, since
  the check of line 266 is skipped for an empty hash: `FailureMarksOwn` is about the failures
  of refreshes. The refresh token of an answer that was never heard is sent again once the
  operation has outlived its 24 hours, because a claim deletes an expired row whatever its
  stage (`codex_credential_refresh.go:645`; `codex_credential_refresh_test.go:518` forbids it
  only before). An operation released after the key was replaced keeps the generation it was
  made for, so that the next claim spends the new token and its commit discards the answer as
  superseded (839-855); and a superseded operation stays completed with an error, which
  refuses refreshes until it expires.
- Device authorization: when the transaction that saves the key fails, its error handling reads
  the fence of a state that is nil (`codex_oauth.go:428`, 437). The request panics, and the row
  stays "exchanging" until the lease runs out and another request takes it over.
- Regeneration dialog: after a final answer the poller starts again. Its `onError` calls
  `onExpireDevice`, whose cancellation sets `isCodexCredentialRegenerating`
  (`channel-mutate-drawer.tsx:1466`, 1488); the callbacks built on it (1519-1525, 1704, 1712)
  are dependencies of the dialog's effect (`codex-regenerate-dialog.tsx:293`), which runs again
  with the device that has had its answer. `codex-regenerate-dialog.test.ts:105-128` tests the
  poller alone, where it "stops only when the poll result is explicitly terminal".
- Subscriptions: without a downgrade group a user may keep the upgraded group for ever.
  `model/subscription.go:178` says "empty = revert to the group held before purchase", but a
  subscription bought when the user was up already has recorded no group of before (514-515),
  and it is the last one to end that decides (1033-1062): `GroupFollows` speaks of plans with
  explicit downgrades. A query for another active subscription whose error is dropped
  (445-453, 1023-1031) takes the group from a user whom another subscription carries, and one
  for the last to end (1033-1043) leaves it to him for ever. A refund or settlement after a
  period reset takes the difference off the usage of the new period, down to zero:
  `NeverOvercharged` holds, the opposite does not.
- Subscriptions, for want of row locks: two callbacks on two nodes credit one purchase twice
  on PostgreSQL, against "Complete a subscription order (idempotent)"
  (`model/subscription.go:550`): both find the order pending (568-579), and the second takes
  the top-up record of the first for its own (631, 647-658). So `CreditedOnce` is about
  snapshots; `Snapshot = FALSE` breaks it in five steps. On both databases two
  transactions that save the same row overwrite each other: a charge, a refund or a reset is
  lost, and a subscription that was cancelled, ended or deleted between the two comes back.
  `NeverOvercharged`, `GroupFollows` and `OncePerPeriod` name these overwrites and hold but for
  them.
- Maintenance of subscriptions: `ResetDueSubscriptions` counts a row of a plan that was edited
  to "never" as reset although it changes nothing, so that a full batch (300) of such rows
  keeps `runSubscriptionQuotaResetOnce` in its loop, and nothing is expired on that master any
  more: `OverIsEnded` is checked with a batch larger than the list, and fails with `Batch = 1`.
- Purchases: a paid order is refused at completion if `MaxPurchasePerUser` has been reached
  meanwhile (484-494), and its payment credits nothing.

## 4. What is proved

TLAPS proves these for every value of the constants that satisfies the named
assumptions of the modules.

| Theorem | Property | Argument |
| --- | --- | --- |
| `SystemTaskProofs!TypeCorrect` | `TypeOK` | with `CallsTimed`: the candidate of a claim is a row |
| `SystemTaskProofs!Exclusion`, `DispatchedOnce` | `MutualExclusion`, `RunsOnce` | `LeaseInv`: whoever claims or runs within a lease has the lock row with exactly that end, and a dispatched row carries its starter's name. Mutual exclusion alone is not inductive: it says nothing of a claim that has the lock and has not started yet, or of a delayed release |
| `SystemTaskProofs!FinalOutcome` | (`OutcomeIsFinal`) | every statement that writes a status is guarded by an active one; the runs check it as part of `ImplementsQueue` |
| `SystemTaskProofs!RunnersImplementQueue` | `ImplementsQueue` | under `LeaseInv` and `FinishedRows` (every row but the newest is over) an active row is the newest one; `Moves` sorts the statements into those that create, start, end or leave the rows' status, and each kind maps to a step of TaskQueue or a stutter |
| `BillingSessionProofs!TypeCorrect`, `PaidByPhase` | `TypeOK`, `SessionInv` | what a session has paid in each phase (`FundingDue`, `TokenDue`); one lemma per kind of step shows that the record it writes is in line with its phase again |
| `BillingSessionProofs!SettledPaysActual`, `FailedPaysFee`, `NothingOverRefunded`, `OnlyOneSource` | `SettledExact`, `FailedPaysOnlyFee`, `NeverOverRefunded`, `OneSource` | consequences of `SessionInv`; the end states say nothing of the phases before them, which is why the invariant speaks of all |
| `EmbeddingGovernorProofs!TypeCorrect`, `CountersExact`, `WithinBounds`, `CooldownHolds`, `WakeupsReach` | `TypeOK`, `Accounting`, `Bounds`, `CoolingAtMin`, `NoLostWakeup` | `IInv` adds to them the limits on the counters (`Limits`); lemma `Recount` says what one caller's move does to the four cardinalities, so that each action is checked on its counters alone |
| `TaskPollingProofs!TypeCorrect` | `TypeOK` | by action |
| `TaskPollingProofs!BillsRight` | `Billed` | the conjunction of the next three |
| `TaskPollingProofs!RefundsHappenOnce`, `FailuresPaidBack`, `SuccessesPay`, `EndsStay` | `RefundedOnce`, `FailedIsRefunded`, `SucceededPays`, `EndIsFinal` | tasks share nothing, so `IInv` is `TypeOK /\ Resting` and `TaskInv(t)` for each uncontested task: that at most one pass bills it and never while it is listed (`Single`), how far its bill is at each point of that pass (`Due`), that a pass alone finds a Suno task as it left it (`Held`), that a realtime task's ends are upstream's (`Mirrors`). A lemma per action, and one that an action about another task changes nothing |
| `TaskPollingProofs!BillsMoveOnce` | `BillMovesOnce` | under the same invariant only the pass that has the task in hand moves its bill (`Kinds`) and knows how far it is (`Due`), also after a statement has failed; one case per statement that moves money |
| `SubscriptionProofs!TypeCorrect`, `PurchasesCreditedOnce`, `GroupsFollow` | `TypeOK`, `CreditedOnce`, `GroupFollows` | `IInv` adds that rows not created yet are blank, that lists are not of the future, that a row knows its plan, and what a copy can hold (`Held`: rows that were created, within their total, of no later time; `Looked`, `Aimed`: the row a master or a request is about to write is one of them). `Saved` shows once that writing copies back, however late, keeps all of it. When the last carrying subscription ends, some expired one decides about the group: `LastExists`, by the well-founded strict inclusion of the sets of those that end later, which stands in for induction |
| `SubscriptionProofs!NobodyOvercharged` | `NeverOvercharged` | what a request owes is a set of units, so that what the requests on a subscription owe together is a cardinality and needs no sum: `OInv` says that the usage of a row none of them has overwritten is at most that, with what a request owes at each of its stages (`Charges`), and a lemma per kind of change says what it does to the set. A request that overwrites nothing works from the row as it is (`Written`); a refund or a settlement takes off what the request owed or all there is, a reset takes all, and one from an old copy leaves no usage |
| `SubscriptionProofs!ResetOncePerPeriod` | `OncePerPeriod` | `ResetFacts`: the row a reset writes has moved its period on by at least one; `Forgiven`: a copy that is not old is the row; a case per action that writes usage |
| `CodexRefreshProofs!TypeCorrect`, `TokenSentOnce`, `RotationNeverSilent`, `OnlySuccessors`, `FailuresMarkOwn` | `TypeOK`, `SentOnce`, `RotationFenced`, `SuccessorOnly`, `FailureMarksOwn` | credentials are numbered in the order they come into being and a key only moves up (`Fresh`, `Lineage`); the row of a channel whose key was or may be sent refuses claims until the operation expires (`Guarded`), so nobody else can be sending what a call is to send (`Alone`), and upstream rotates only what was sent (`Marked`); a rotation no error hid is kept track of by `rotated`. The properties say nothing of a call between its claim and its request, hence the strengthening |
| `CodexDeviceProofs!TypeCorrect`, `CodeNeverOfferedAgain` | `TypeOK`, `NoSecondChance` | the stage tells whether the code was sent (`Counted`), who is about to send it is alone although its lease may be lost (`Senders`), and an owner finds the stages of its own position (`Owned`, `PutBack`) |
| `CodexDeviceProofs!PollsImplementAttempt` | `ImplementsAttempt` | every step maps to a step of DeviceAttempt or a stutter, under the same invariant |
| `CodexDialogProofs!TypeCorrect` | (`TypeOK`) | of four numbers for an attempt one is always free: the drawer, the starter and the poller hold three |
| `CodexDialogProofs!ClosedLeavesNothingOpen`, `ToldTheTruth` | `NothingLeftOpen`, `ToldTruth` | `IInv`: of the attempts that requests are still served for, only the cookie's can be open (`OutcomeInv`), and not when no flow is active (`CancelInv`), because a cancellation waits for a start in flight (`StartInv`) and what the drawer shows or restores is the cookie's (`DrawerInv`); a poller hears of the device on the screen (`PollInv`). The properties speak of a dialog that rests, the invariant of every moment before |
| `CodexDialogProofs!OnlyReplacedWatched` | `ReplacedOnlyWatched` | on top of `IInv`, `ScreenInv`: an attempt that can still be saved is the one on the screen and the one a failed cancellation restores |

The assumptions: `SystemTask` needs that `None` is no runner and no number;
`BillingSession` that quotas are natural numbers and the subscription is limited;
`EmbeddingGovernor` what `normalizeConfig` guarantees of a configuration, and that
the callers are finitely many; `TaskPolling` that realtime tasks are no Suno tasks and costs
natural numbers; `Subscription` that durations, periods and batches are positive, amounts
natural numbers, and the requests finitely many and no masters (any plans, limits and groups,
any masters and nodes); `CodexRefresh` that the lease is positive and shorter than the
operation's life (30 seconds and 24 hours in the code), and `CodexDevice` that its lease is
positive. `CodexDialog` needs only that its bound is a natural number.

Only model-checked: all liveness (`RunningEnds`, `RefundEnds`, `TimedOutEnds`,
`AcquireEnds`, `OverIsEnded`, `WaitingEnds`), since liveness under fairness and ENABLED are
beyond the prover. Every other property a passing run checks is a theorem.

## 5. Abstractions that hold everywhere

- A statement of the database is atomic, and but for Subscription a transaction is isolated
  too. GORM v2 does not read `Set("gorm:query_option", "FOR UPDATE")`, by which most
  read-modify-write transactions ask for their row locks, so this is more than the code gets
  from a database below serializable isolation. Subscription takes no lock for granted where a
  transaction saves a whole row it has read. What BillingSession says of a shared subscription
  is said of transactions one after the other, and the lost updates of redemptions and top-ups
  are the subject of a planned module, which will have the lock as a constant.
- Amounts are natural numbers or integers without overflow: the Go code uses 64-bit
  integers far from their limits.
- Prices, names, payloads, logs and notifications are left out.
- One clock: `common.GetTimestamp` of the nodes and `GetDBTimestamp` agree.

## 6. Plan

Done: SystemTask over TaskQueue, BillingSession, TaskPolling, EmbeddingGovernor, CodexRefresh, CodexDevice
over DeviceAttempt, CodexDialog and Subscription, with proofs for all of them.

Left, in this order:

1. `Ledger` (abstract) and `BatchUpdate` (detailed): refinement by database +
   pending + in flight; crash between swap and update.
2. `Redemption`: codes, top-up orders and daily bonuses over one pattern, with and without
   row locks as a constant.
3. `RealtimeBilling`: increments and settlement against the cost.
4. `RateLimit`: the in-memory window as a function checked against the definition
   of a sliding window; the Redis commands as steps.
5. `ChannelSelect`: retries over priorities and groups.
6. The desktop application's start and stop of its server (`electron/main.js`) and the
   playground's stream hook.

Compositions: SystemTask with TaskPolling (passes as dispatched runs), BillingSession over
Subscription, CodexDialog over CodexDevice. Runs stay few: one passing run per component and
the refutations that matter most; a component that is added takes the place of a
refutation that the text above can carry.

## 7. Not modelled

Most of the repository's lines are the two web clients: forms, tables, charts and their
translations, whose state is local to a component and whose correctness is in their layout;
CodexDialog is the part of them whose control matters. Provider adaptors, pricing expressions
and the relay's conversions are data without shared state. Users, tokens, options, logs and
channel administration are CRUD over single rows. `PROJECT.json` gives the reason for each
component.
