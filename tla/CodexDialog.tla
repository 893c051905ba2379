----------------------------- MODULE CodexDialog -----------------------------
(***************************************************************************)
(* Regenerating a Codex credential in the web client: the state of the     *)
(* channel drawer (channel-mutate-drawer.tsx) and of the dialog's poller   *)
(* (codex-regenerate-dialog.tsx) for one channel, the requests in flight,  *)
(* and the server's side of start, poll and cancel.                        *)
(*                                                                         *)
(* The browser runs one callback at a time.  A user's event, a response or *)
(* a timer runs to its next await; the continuations of a settled          *)
(* cancellation and the effect React runs after a render come before the   *)
(* next event (Settle and PollEffect).  The device authorization of a      *)
(* session is named by a cookie kept in the browser, which a request       *)
(* carries as it was when sent and a response replaces when it arrives.    *)
(* On the server an attempt has the outcomes of DeviceAttempt: CodexDevice *)
(* shows that the poll requests of one attempt keep to them.               *)
(***************************************************************************)
EXTENDS Naturals, FiniteSets

CONSTANT MaxDevice  \* bound on the device authorizations started

ASSUME BoundsAssumption == MaxDevice \in Nat

VARIABLES
    ui,        \* the drawer's refs and state
    starter,   \* the running handleStartCodexRegeneration, and its attempt
    cancel,    \* the cancellation in flight and what it will do
    poller,    \* the running startCodexDevicePolling, and its poll request
    rendered,  \* what PollEffect's dependencies were when it last ran
    startReq,  \* the start request in flight
    outcome,   \* server: each device authorization
    workers,   \* server: attempts a poll request is being served for
    key,       \* channels: the attempt the credential came from, 0: none
    cookie     \* browser: the device authorization of the session, or 0

vars == <<ui, starter, cancel, poller, rendered, startReq, outcome, workers, key, cookie>>
server == <<outcome, workers, key>>

Devices == 1..MaxDevice

\* codexRegenerationAttemptRef only ever goes up and is only compared with
\* the values the starter and the poller hold: as many names are enough.
Attempts == 0..3

Ui == [open : BOOLEAN, dialog : BOOLEAN, requested : BOOLEAN,
       attempt : Attempts,       \* codexRegenerationAttemptRef
       active : BOOLEAN,         \* codexRegenerationChannelIdRef is the channel
       auth : 0..MaxDevice,      \* codexDeviceAuthorization
       blocked : BOOLEAN,        \* codexCancellationBlocked
       busy : BOOLEAN,           \* isCodexCredentialRegenerating
       flowError : BOOLEAN,      \* deviceFlowError of the dialog
       told : 0..MaxDevice]      \* history: the last success shown

\* close and drop: some caller asked to close the dialog, to forget the
\* device; error: the poller waits to show an error; old: what is restored.
Cancellation ==
    [pc : {"none", "await", "request", "sent", "settled"}, ok : BOOLEAN,
     cookie : 0..MaxDevice,
     close : BOOLEAN, drop : BOOLEAN, error : BOOLEAN,
     oldDialog : BOOLEAN, oldAuth : 0..MaxDevice]

NoCancellation == [pc |-> "none", ok |-> FALSE, cookie |-> 0,
                   close |-> FALSE, drop |-> FALSE, error |-> FALSE,
                   oldDialog |-> FALSE, oldAuth |-> 0]

Answers == {"none", "pending", "over", "saved"}

Poller == [pc : {"off", "timer", "sent", "refresh"}, dev : 0..MaxDevice,
           attempt : Attempts, cookie : 0..MaxDevice, answer : Answers]

PollerOff == [pc |-> "off", dev |-> 0, attempt |-> 0, cookie |-> 0, answer |-> "none"]

StartRequest == [st : {"none", "sent", "answered"}, dev : 0..MaxDevice, cookie : 0..MaxDevice]

NoStart == [st |-> "none", dev |-> 0, cookie |-> 0]

Outcomes == {"none", "open", "saved", "cancelled", "failed", "gone"}

\* The device the dialog is shown, and the dependencies of its effect.
Shown == IF ui.blocked THEN 0 ELSE ui.auth

Watching == ui.open /\ ui.dialog

Dependencies == <<Watching, Shown, ui.dialog, ui.auth, ui.blocked, ui.busy>>

Init == /\ ui = [open |-> TRUE, dialog |-> FALSE, requested |-> FALSE, attempt |-> 0,
                 active |-> FALSE, auth |-> 0, blocked |-> FALSE, busy |-> FALSE,
                 flowError |-> FALSE, told |-> 0]
        /\ starter = [pc |-> "idle", attempt |-> 0]
        /\ cancel = NoCancellation
        /\ poller = PollerOff
        /\ rendered = Dependencies
        /\ startReq = NoStart
        /\ outcome = [d \in Devices |-> "none"]
        /\ workers = {}
        /\ key = 0
        /\ cookie = 0

\* No continuation and no effect is left to run before the next event.
Quiet == cancel.pc # "settled" /\ rendered = Dependencies

-----------------------------------------------------------------------------
(* cancelCodexRegeneration.                                                *)

\* Mutant: the cancellation does not wait for a start that is in flight.
AfterNothing == "request"

\* confirmCodexDeviceAuthorizationCancellation first awaits the start.
AfterStart == IF startReq.st = "none" THEN "request" ELSE "await"

NewAttempt(held) == CHOOSE n \in Attempts : n \notin held \cup {starter.attempt, poller.attempt}

\* Called with the state u of the drawer; the callers of a cancellation in
\* flight share it, each with its own wishes.
CallCancel(u, close, drop, error) ==
    IF cancel.pc # "none"
    THEN /\ ui' = u
         /\ cancel' = [cancel EXCEPT !.close = @ \/ close, !.drop = @ \/ drop,
                                     !.error = @ \/ error]
    ELSE /\ ui' = [u EXCEPT !.attempt = NewAttempt({u.attempt}), !.blocked = u.active /\ drop,
                            !.busy = u.active]
         /\ cancel' = [NoCancellation EXCEPT
                          !.pc = IF startReq.st = "none" /\ ~u.active THEN "settled" ELSE AfterStart,
                          !.ok = TRUE, !.close = close, !.drop = drop, !.error = error,
                          !.oldDialog = u.dialog, !.oldAuth = u.auth]

\* The request is sent with the cookie of that moment.
SendCancel == /\ Quiet
              /\ cancel.pc = "request"
              /\ cancel' = IF ui.active THEN [cancel EXCEPT !.pc = "sent", !.cookie = cookie]
                           ELSE [cancel EXCEPT !.pc = "settled"]
              /\ UNCHANGED <<ui, starter, poller, rendered, startReq, server, cookie>>

\* Whether the answer is a success: not for a saved attempt, nor for one in
\* doubt, which is among the failed ones.
Cancelled(d) == CASE outcome[d] = "saved" -> {FALSE}
                  [] outcome[d] = "failed" -> BOOLEAN
                  [] OTHER -> {TRUE}

\* CancelCodexDeviceOAuthForChannel and its answer.  Without a cookie there
\* is nothing to cancel.  The request or its answer may be lost, or the
\* database out of reach.
AnswerCancel ==
    /\ cancel.pc = "sent"
    /\ LET d == cancel.cookie IN
       \/ /\ d = 0
          /\ cancel' = [cancel EXCEPT !.pc = "settled"]
          /\ UNCHANGED <<outcome, cookie>>
       \/ /\ d # 0
          /\ outcome' = IF outcome[d] = "open" THEN [outcome EXCEPT ![d] = "cancelled"] ELSE outcome
          /\ \/ /\ \E ok \in Cancelled(d) : cancel' = [cancel EXCEPT !.pc = "settled", !.ok = ok]
                /\ cookie' = 0
             \/ /\ cancel' = [cancel EXCEPT !.pc = "settled", !.ok = FALSE]
                /\ UNCHANGED cookie
       \/ /\ cancel' = [cancel EXCEPT !.pc = "settled", !.ok = FALSE]
          /\ UNCHANGED <<outcome, cookie>>
    /\ Quiet
    /\ UNCHANGED <<ui, starter, poller, rendered, startReq, workers, key>>

Confirmed(u) == [u EXCEPT !.active = FALSE, !.blocked = FALSE, !.busy = FALSE,
                          !.dialog = @ /\ ~cancel.close, !.requested = @ /\ ~cancel.close,
                          !.auth = IF cancel.drop THEN 0 ELSE @]

\* Mutant: the dialog closes although the cancellation was not confirmed.
RestoredClosed(u) == [u EXCEPT !.blocked = FALSE, !.busy = FALSE, !.dialog = FALSE]

\* Mutant: a failed cancellation leaves the dialog blocked.
RestoredBlocked(u) == [u EXCEPT !.dialog = cancel.oldDialog, !.auth = cancel.oldAuth]

\* restoreCodexCancellationUiAfterFailure.
Restored(u) == [u EXCEPT !.blocked = FALSE, !.busy = FALSE,
                         !.dialog = cancel.oldDialog, !.auth = cancel.oldAuth]

\* The rest of handleStartCodexRegeneration after a confirmed cancellation.
StartRequested(u) ==
    /\ ui' = [u EXCEPT !.attempt = NewAttempt({u.attempt}), !.active = TRUE, !.blocked = FALSE,
                       !.auth = 0, !.dialog = TRUE, !.busy = TRUE]
    /\ starter' = [pc |-> "start", attempt |-> NewAttempt({u.attempt})]
    /\ startReq' = [st |-> "sent", dev |-> 0, cookie |-> cookie]

\* The continuations of a settled cancellation, in the order the promises
\* were awaited: the request's own, its other callers', the starter's, and
\* the error the poller wanted to show.
Settle ==
    /\ cancel.pc = "settled"
    /\ LET u == [(IF cancel.ok THEN Confirmed(ui) ELSE Restored(ui))
                    EXCEPT !.flowError = @ \/ cancel.error]
       IN IF starter.pc = "cancel" /\ cancel.ok /\ u.requested /\ u.open
          THEN StartRequested(u)
          ELSE /\ ui' = u
               /\ starter' = IF starter.pc = "cancel" THEN [pc |-> "idle", attempt |-> 0] ELSE starter
               /\ UNCHANGED startReq
    /\ cancel' = NoCancellation
    /\ UNCHANGED <<poller, rendered, server, cookie>>

-----------------------------------------------------------------------------
(* The user, and handleStartCodexRegeneration.                             *)

\* The panel's button behind the dialog, or the dialog's restart buttons.
MayClickStart == /\ ui.open
                 /\ starter.pc = "idle"
                 /\ \/ ~ui.dialog /\ ~ui.busy
                    \/ ui.dialog /\ Shown = 0 /\ ~ui.busy
                    \/ ui.dialog /\ Shown # 0 /\ ui.flowError

ClickStart == /\ Quiet
              /\ MayClickStart
              /\ CallCancel([ui EXCEPT !.requested = TRUE, !.flowError = FALSE], FALSE, TRUE, FALSE)
              /\ starter' = [pc |-> "cancel", attempt |-> 0]
              /\ UNCHANGED <<poller, rendered, startReq, server, cookie>>

CloseDialog == /\ Quiet
               /\ Watching
               /\ CallCancel([ui EXCEPT !.flowError = FALSE], TRUE, TRUE, FALSE)
               /\ UNCHANGED <<starter, poller, rendered, startReq, server, cookie>>

\* Closing the drawer runs its cancellation effect.
CloseDrawer == /\ Quiet
               /\ ui.open
               /\ CallCancel([ui EXCEPT !.open = FALSE], TRUE, TRUE, FALSE)
               /\ UNCHANGED <<starter, poller, rendered, startReq, server, cookie>>

OpenDrawer == /\ Quiet
              /\ ~ui.open
              /\ ui' = [ui EXCEPT !.open = TRUE]
              /\ UNCHANGED <<starter, cancel, poller, rendered, startReq, server, cookie>>

\* StartCodexDeviceOAuthForChannel: registers a new attempt and deletes the
\* one the cookie names; or fails.
ServeStart ==
    /\ startReq.st = "sent"
    /\ \/ \E d \in Devices :
            /\ outcome[d] = "none"
            /\ \A e \in Devices : e < d => outcome[e] # "none"
            /\ outcome' = [e \in Devices |-> IF e = d THEN "open"
                                             ELSE IF e = startReq.cookie THEN "gone"
                                             ELSE outcome[e]]
            /\ startReq' = [startReq EXCEPT !.st = "answered", !.dev = d]
       \/ /\ startReq' = [startReq EXCEPT !.st = "answered"]
          /\ UNCHANGED outcome
    /\ UNCHANGED <<ui, starter, cancel, poller, rendered, workers, key, cookie>>

\* Nothing was cancelled or started since this start was sent.
SameAttempt == ui.attempt = starter.attempt /\ ui.active

\* The start's answer arrives, or is lost; a cancellation may wait for it.
StartAnswered ==
    /\ Quiet
    /\ startReq.st = "answered"
    /\ \E heard \in {0, startReq.dev} :
         /\ cookie' = IF heard = 0 THEN cookie ELSE heard
         /\ ui' = IF SameAttempt THEN [ui EXCEPT !.auth = heard, !.busy = FALSE] ELSE ui
    /\ starter' = [pc |-> "idle", attempt |-> 0]
    /\ startReq' = NoStart
    /\ cancel' = IF cancel.pc = "await" THEN [cancel EXCEPT !.pc = "request"] ELSE cancel
    /\ UNCHANGED <<poller, rendered, server>>

-----------------------------------------------------------------------------
(* The dialog's poller.                                                    *)

Over(d) == outcome[d] = "gone"

\* The drawer's cancellation effect while it is closed, then the dialog's
\* effect: the old poller is stopped and its request aborted, the error is
\* cleared, and a poller for the device shown is started, or expires at once.
PollEffect ==
    /\ cancel.pc # "settled"
    /\ rendered # Dependencies
    /\ rendered' = Dependencies
    /\ IF Watching /\ Shown # 0
       THEN IF Over(Shown)
            THEN /\ CallCancel([ui EXCEPT !.flowError = FALSE], FALSE, FALSE, TRUE)
                 /\ poller' = PollerOff
            ELSE /\ ui' = [ui EXCEPT !.flowError = FALSE]
                 /\ poller' = [PollerOff EXCEPT !.pc = "timer", !.dev = Shown]
                 /\ UNCHANGED cancel
       ELSE /\ poller' = PollerOff
            /\ IF ui.open THEN UNCHANGED <<ui, cancel>> ELSE CallCancel(ui, TRUE, TRUE, FALSE)
    /\ UNCHANGED <<starter, startReq, server, cookie>>

\* handlePollCodexDeviceAuthorization sends a request; without an active
\* flow it answers "pending" by itself and the timer is set again.
SendPoll == /\ Quiet
            /\ poller.pc = "timer"
            /\ ui.active
            /\ poller' = [poller EXCEPT !.pc = "sent", !.attempt = ui.attempt,
                                        !.cookie = cookie, !.answer = "none"]
            /\ workers' = workers \cup ({cookie} \ {0})
            /\ UNCHANGED <<ui, starter, cancel, rendered, startReq, outcome, key, cookie>>

\* PollCodexDeviceOAuthForChannel saves the credential, or fails.
ServeAuthorized(d) == /\ d \in workers
                      /\ outcome[d] = "open"
                      /\ \/ /\ outcome' = [outcome EXCEPT ![d] = "saved"]
                            /\ key' = d
                         \/ /\ outcome' = [outcome EXCEPT ![d] = "failed"]
                            /\ UNCHANGED key
                      /\ UNCHANGED <<ui, starter, cancel, poller, rendered, startReq, workers, cookie>>

\* Mutant: an answer without a flow is not told from a success.
PollAnswerSuccess(d) == IF d = 0 THEN "saved"
                        ELSE CASE outcome[d] = "open" -> "pending"
                               [] outcome[d] = "saved" -> "saved"
                               [] OTHER -> "over"

\* What a poll hears of a device; without a cookie the answer is an error
\* that is neither final nor retryable, which the client takes for pending.
PollAnswer(d) == IF d = 0 THEN "pending"
                 ELSE CASE outcome[d] = "open" -> "pending"
                        [] outcome[d] = "saved" -> "saved"
                        [] OTHER -> "over"

\* A request ends on the server, with or without a browser that waits.
ServePoll(d) == /\ IF poller.pc = "sent" /\ poller.cookie = d /\ poller.answer = "none"
                   THEN poller' = [poller EXCEPT !.answer = PollAnswer(d)]
                   ELSE UNCHANGED poller
                /\ d \in workers \/ (d = 0 /\ poller' # poller)
                /\ workers' = workers \ {d}
                /\ UNCHANGED <<ui, starter, cancel, rendered, startReq, outcome, key, cookie>>

\* The flow a poll was sent for is still the active one.
SamePoll == ui.attempt = poller.attempt /\ ui.active

Retry == poller' = [PollerOff EXCEPT !.pc = "timer", !.dev = poller.dev]

\* A final answer empties the cookie.
PollHeard ==
    /\ Quiet
    /\ poller.pc = "sent" /\ poller.answer # "none"
    /\ cookie' = IF poller.answer = "pending" THEN cookie ELSE 0
    /\ \/ /\ poller.answer = "pending" \/ ~SamePoll
          /\ Retry
          /\ UNCHANGED <<ui, cancel>>
       \/ /\ poller.answer = "over" /\ SamePoll
          /\ poller' = PollerOff
          /\ CallCancel(ui, FALSE, FALSE, TRUE)
       \/ /\ poller.answer = "saved" /\ SamePoll
          /\ poller' = [poller EXCEPT !.pc = "refresh"]
          /\ UNCHANGED <<ui, cancel>>
    /\ UNCHANGED <<starter, rendered, startReq, server>>

\* The poll is lost on its way: the poller tries again.
PollLost == /\ Quiet
            /\ poller.pc = "sent"
            /\ Retry
            /\ UNCHANGED <<ui, starter, cancel, rendered, startReq, server, cookie>>

\* invalidateCodexCredential has ended: the user is told and the dialog closes.
PollCompleted ==
    /\ Quiet
    /\ poller.pc = "refresh"
    /\ IF SamePoll
       THEN /\ poller' = PollerOff
            /\ CallCancel([ui EXCEPT !.flowError = FALSE, !.told = ui.auth], TRUE, TRUE, FALSE)
       ELSE /\ Retry
            /\ UNCHANGED <<ui, cancel>>
    /\ UNCHANGED <<starter, rendered, startReq, server, cookie>>

\* A device authorization runs out on the server.
Expire(d) == /\ outcome[d] \in {"open", "saved", "cancelled", "failed"}
             /\ outcome' = [outcome EXCEPT ![d] = "gone"]
             /\ UNCHANGED <<ui, starter, cancel, poller, rendered, startReq, workers, key, cookie>>

\* The poller's expiry timer.
ExpiryTimer == /\ Quiet
               /\ poller.pc # "off"
               /\ Over(poller.dev)
               /\ poller' = PollerOff
               /\ CallCancel(ui, FALSE, FALSE, TRUE)
               /\ UNCHANGED <<starter, rendered, startReq, server, cookie>>

-----------------------------------------------------------------------------
UserStep == ClickStart \/ CloseDialog \/ CloseDrawer \/ OpenDrawer

Next == \/ UserStep
        \/ SendCancel \/ AnswerCancel \/ Settle
        \/ ServeStart \/ StartAnswered
        \/ PollEffect \/ SendPoll \/ PollHeard \/ PollLost \/ PollCompleted
        \/ ExpiryTimer
        \/ \E d \in Devices : ServeAuthorized(d) \/ Expire(d)
        \/ \E d \in Devices \cup {0} : ServePoll(d)

Spec == Init /\ [][Next]_vars

\* Callbacks run, requests come to an end, time passes, and a cancellation
\* that is asked for again and again is confirmed at last.  (As long as the
\* server cannot be reached, a dialog whose time is over sends one
\* cancellation after the other and shows the error of none.)
Fairness == /\ WF_vars(SendCancel) /\ WF_vars(AnswerCancel) /\ WF_vars(Settle)
            /\ WF_vars(ServeStart) /\ WF_vars(StartAnswered)
            /\ WF_vars(PollEffect) /\ WF_vars(ExpiryTimer)
            /\ \A d \in Devices : WF_vars(Expire(d))
            /\ SF_vars(AnswerCancel /\ cancel'.ok)

FairSpec == Spec /\ Fairness

-----------------------------------------------------------------------------
(* Properties.                                                             *)

\* The drawer's state, the requests and the server's rows have their types.
TypeOK == /\ ui \in Ui
          /\ starter \in [pc : {"idle", "cancel", "start"}, attempt : Attempts]
          /\ cancel \in Cancellation
          /\ poller \in Poller
          /\ startReq \in StartRequest
          /\ outcome \in [Devices -> Outcomes]
          /\ workers \subseteq Devices
          /\ key \in 0..MaxDevice
          /\ cookie \in 0..MaxDevice

\* The credential is only ever replaced while the user has the dialog open
\* (its cancellation may be unconfirmed), by the attempt on the screen or kept
\* to be restored, and by one newer than the last: once the dialog has closed,
\* no poll that still runs on the server and no late start replaces it.
ReplacedOnlyWatched == [][key' # key => ui.dialog /\ key' = ui.auth /\ key' > key]_vars

\* When the dialog has closed and nothing is in flight, the session's cookie
\* names no attempt that is still open: nothing was started behind a
\* cancellation that was reported as confirmed.
NothingLeftOpen ==
    (Quiet /\ ~ui.dialog /\ cancel.pc = "none" /\ startReq.st = "none" /\ cookie # 0)
        => outcome[cookie] # "open"

\* The user is told of a new credential only when the attempt on the screen
\* has put it there, whatever answers of earlier attempts are still on
\* their way.
ToldTruth == ui.told # 0 => key >= ui.told

\* A dialog that waits comes to an end: it closes, shows an error or offers
\* to start again, whatever the user does and whatever gets lost, as long as a
\* cancellation that is sent again and again is at last confirmed.
WaitingEnds == Watching ~> (Quiet /\ (~Watching \/ ui.flowError \/ (Shown = 0 /\ ~ui.busy)))
=============================================================================
