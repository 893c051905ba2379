--------------------------- MODULE CodexDialogProofs ---------------------------
(***************************************************************************)
(* Proofs about CodexDialog, for any number of device authorizations.      *)
(*                                                                         *)
(* The promises of the dialog rest on one fact about the session's cookie: *)
(* of all the device authorizations that requests are still served for on  *)
(* the server, the cookie's alone can be open, and it is not open when no  *)
(* flow is active (OutcomeInv, CancelInv).  It survives because a          *)
(* cancellation waits for a start that is in flight (StartInv) and because *)
(* what the drawer shows or restores is the device of the cookie, unless   *)
(* the cookie is empty (DrawerInv).  What the poller hears is about the    *)
(* device on the screen, since a render that changes the screen stops the  *)
(* poller before the next event (PollInv).  From that fact it also follows *)
(* that a request which is still served can only complete the attempt the  *)
(* drawer holds (ScreenInv).                                               *)
(***************************************************************************)
EXTENDS CodexDialog, TLAPS

\* Whether the device authorization d, if there is one, can still be approved.
Live(d) == d # 0 /\ outcome[d] = "open"

Started(d) == d # 0 => outcome[d] # "none"

\* The drawer: the dialog is open while a flow is active, a cancellation
\* restores the dialog as it is, and what it restores or shows is the device of
\* the cookie, unless the cookie is empty.
DrawerInv == /\ ui.active => ui.dialog
             /\ cancel.pc # "none" => cancel.oldDialog = ui.dialog
             /\ ui.auth # 0 => cookie \in {0, ui.auth}
             /\ cancel.oldAuth # 0 => cookie \in {0, cancel.oldAuth}

\* While a start is in flight its flow is active, no device is shown, and a
\* cancellation waits for it; the attempt it replaces is not open any more.
StartInv == /\ startReq.st # "none" => /\ ui.active
                                       /\ ui.auth = 0
                                       /\ cancel.oldAuth = 0
                                       /\ cancel.pc \in {"none", "await"}
                                       /\ cookie \in {0, startReq.cookie}
            /\ startReq.dev # 0 => /\ startReq.st = "answered"
                                   /\ ~Live(startReq.cookie)
                                   /\ key <= startReq.dev

\* Nothing is open behind a flow that is over, nor behind a cancellation that
\* is confirmed.
CancelInv == /\ ~ui.active => ~Live(cookie)
             /\ cancel.pc = "settled" /\ cancel.ok => ~Live(cookie)
             /\ cancel.pc = "sent" => cookie \in {0, cancel.cookie}

\* The poller is about the device that was on the screen at the last render,
\* and its answer about the attempt it was sent for.
PollInv == /\ poller.pc # "off" => poller.dev # 0 /\ rendered[1] /\ rendered[2] = poller.dev
           /\ poller.cookie # 0 => poller.cookie = poller.dev
           /\ poller.pc = "sent" => cookie \in {0, poller.cookie}
           /\ poller.answer \in {"over", "saved"} => poller.cookie # 0 /\ ~Live(poller.cookie)
           /\ poller.answer = "saved" => key >= poller.dev
           /\ poller.pc = "refresh" => poller.answer = "saved"

\* Attempts are started in order; only the one of the cookie can be saved, and
\* the credential comes from the last that was.
OutcomeInv == /\ \A d, e \in Devices : e < d /\ outcome[d] # "none" => outcome[e] # "none"
              /\ \A d \in workers : Live(d) => d = cookie
              /\ \A d \in workers \cup {key, cookie, startReq.dev, startReq.cookie, poller.cookie} :
                    Started(d)
              /\ \A d \in Devices : outcome[d] = "saved" => key >= d
              /\ cookie # 0 => key <= cookie

IInv == /\ DrawerInv /\ StartInv /\ CancelInv /\ PollInv /\ OutcomeInv /\ ToldTruth

-----------------------------------------------------------------------------
(* Types.                                                                  *)

\* The starter and the poller hold two attempts and the drawer a third: there
\* is always one that nobody holds.
LEMMA NewAttemptType ==
    ASSUME TypeOK, NEW a \in Attempts
    PROVE  NewAttempt({a}) \in Attempts /\ NewAttempt({a}) # starter.attempt
<1> DEFINE b == starter.attempt
           c == poller.attempt
<1>1. b \in Attempts /\ c \in Attempts
  BY DEF TypeOK, Poller
<1> HIDE DEF b, c
<1>2. \E n \in Attempts : n \notin {a} \cup {b, c}
  <2>1. 0 \in Attempts /\ 1 \in Attempts /\ 2 \in Attempts /\ 3 \in Attempts
    BY DEF Attempts
  <2> QED BY <2>1
<1>3. NewAttempt({a}) = CHOOSE n \in Attempts : n \notin {a} \cup {b, c}
  BY DEF NewAttempt, b, c
<1>4. NewAttempt({a}) \in Attempts /\ NewAttempt({a}) \notin {a} \cup {b, c}
  BY <1>2, <1>3, Zenon
<1> QED BY <1>4 DEF b

\* What a call of the cancellation does, made with a state u of the drawer that
\* shows the same dialog, flow and device.
LEMMA Calling ==
    ASSUME TypeOK, NEW u \in Ui, u.attempt = ui.attempt,
           NEW close \in BOOLEAN, NEW drop \in BOOLEAN, NEW error \in BOOLEAN,
           CallCancel(u, close, drop, error)
    PROVE  /\ ui' \in Ui /\ cancel' \in Cancellation
           /\ ui'.active = u.active /\ ui'.dialog = u.dialog /\ ui'.auth = u.auth /\ ui'.told = u.told
           /\ cancel.pc # "none" =>
                 /\ cancel'.pc = cancel.pc /\ cancel'.ok = cancel.ok /\ cancel'.cookie = cancel.cookie
                 /\ cancel'.oldDialog = cancel.oldDialog /\ cancel'.oldAuth = cancel.oldAuth
                 /\ ui'.attempt = ui.attempt
           /\ cancel.pc = "none" =>
                 /\ cancel'.oldDialog = u.dialog /\ cancel'.oldAuth = u.auth
                 /\ ui'.attempt # starter.attempt
                 /\ cancel'.pc \in {"settled", "request", "await"}
                 /\ cancel'.pc = "await" => startReq.st # "none"
                 /\ cancel'.pc = "settled" => startReq.st = "none" /\ ~u.active
                 /\ startReq.st # "none" => cancel'.pc = "await"
<1>1. cancel \in Cancellation /\ ui \in Ui
  BY DEF TypeOK
<1>2. CASE cancel.pc # "none"
  <2>1. /\ ui' = u
        /\ cancel' = [cancel EXCEPT !.close = @ \/ close, !.drop = @ \/ drop, !.error = @ \/ error]
    BY <1>2 DEF CallCancel
  <2>2. /\ cancel.close \in BOOLEAN /\ cancel.drop \in BOOLEAN /\ cancel.error \in BOOLEAN
    BY <1>1 DEF Cancellation
  <2>3. cancel' \in Cancellation
    BY <1>1, <2>1, <2>2 DEF Cancellation
  <2> QED BY <1>1, <1>2, <2>1, <2>3 DEF Cancellation
<1>3. CASE cancel.pc = "none"
  <2> DEFINE n == NewAttempt({u.attempt})
             b == u.active /\ drop
             pc == IF startReq.st = "none" /\ ~u.active THEN "settled" ELSE AfterStart
  <2>1. /\ ui' = [u EXCEPT !.attempt = n, !.blocked = b, !.busy = u.active]
        /\ cancel' = [NoCancellation EXCEPT !.pc = pc, !.ok = TRUE, !.close = close, !.drop = drop,
                                            !.error = error, !.oldDialog = u.dialog,
                                            !.oldAuth = u.auth]
    BY <1>3 DEF CallCancel
  <2>2. n \in Attempts /\ n # starter.attempt
    BY NewAttemptType DEF Ui
  <2>3. /\ pc \in {"settled", "request", "await"}
        /\ pc = "await" => startReq.st # "none"
        /\ pc = "settled" => startReq.st = "none" /\ ~u.active
        /\ startReq.st # "none" => pc = "await"
    BY DEF AfterStart
  <2>4. u.active \in BOOLEAN /\ u.dialog \in BOOLEAN /\ u.auth \in 0..MaxDevice /\ b \in BOOLEAN
    BY DEF Ui
  <2> HIDE DEF n, b, pc
  <2>5. /\ ui' \in Ui /\ ui'.active = u.active /\ ui'.dialog = u.dialog /\ ui'.auth = u.auth
        /\ ui'.told = u.told /\ ui'.attempt # starter.attempt
    BY <2>1, <2>2, <2>4 DEF Ui
  <2>6. 0 \in 0..MaxDevice
    BY BoundsAssumption
  <2>7. /\ cancel' \in Cancellation /\ cancel'.pc = pc /\ cancel'.oldDialog = u.dialog
        /\ cancel'.oldAuth = u.auth
    BY <2>1, <2>3, <2>4, <2>6 DEF NoCancellation, Cancellation
  <2> QED BY <1>3, <2>3, <2>5, <2>7
<1> QED BY <1>2, <1>3

\* A cancellation has been called in a step that leaves the rest of the drawer.
Called(told) ==
    /\ ui' \in Ui /\ cancel' \in Cancellation
    /\ ui'.active = ui.active /\ ui'.dialog = ui.dialog /\ ui'.auth = ui.auth /\ ui'.told = told
    /\ cancel.pc # "none" =>
          /\ cancel'.pc = cancel.pc /\ cancel'.ok = cancel.ok /\ cancel'.cookie = cancel.cookie
          /\ cancel'.oldDialog = cancel.oldDialog /\ cancel'.oldAuth = cancel.oldAuth
          /\ ui'.attempt = ui.attempt
    /\ cancel.pc = "none" =>
          /\ cancel'.oldDialog = ui.dialog /\ cancel'.oldAuth = ui.auth
          /\ ui'.attempt # starter.attempt
          /\ cancel'.pc \in {"settled", "request", "await"}
          /\ cancel'.pc = "await" => startReq.st # "none"
          /\ cancel'.pc = "settled" => startReq.st = "none" /\ ~ui.active
          /\ startReq.st # "none" => cancel'.pc = "await"

LEMMA CalledAsIs ==
    ASSUME TypeOK, NEW close \in BOOLEAN, NEW drop \in BOOLEAN, NEW error \in BOOLEAN,
           CallCancel(ui, close, drop, error)
    PROVE  Called(ui.told)
<1>1. ui \in Ui
  BY DEF TypeOK
<1> QED BY <1>1, Calling DEF Called

\* The callers clear the error, ask for a start, close the drawer or tell of a
\* success before they cancel.
LEMMA CalledCleared ==
    ASSUME TypeOK, NEW close \in BOOLEAN, NEW drop \in BOOLEAN, NEW error \in BOOLEAN,
           CallCancel([ui EXCEPT !.flowError = FALSE], close, drop, error)
    PROVE  Called(ui.told)
<1> DEFINE u == [ui EXCEPT !.flowError = FALSE]
<1>1. /\ u \in Ui /\ u.attempt = ui.attempt /\ u.active = ui.active /\ u.dialog = ui.dialog
      /\ u.auth = ui.auth /\ u.told = ui.told
  BY DEF TypeOK, Ui
<1> HIDE DEF u
<1>2. CallCancel(u, close, drop, error)
  BY DEF u
<1> QED BY <1>1, <1>2, Calling DEF Called

LEMMA ClickStartCalls ==
    ASSUME TypeOK, ClickStart
    PROVE  Called(ui.told)
<1> DEFINE u == [ui EXCEPT !.requested = TRUE, !.flowError = FALSE]
<1>1. /\ u \in Ui /\ u.attempt = ui.attempt /\ u.active = ui.active /\ u.dialog = ui.dialog
      /\ u.auth = ui.auth /\ u.told = ui.told
  BY DEF TypeOK, Ui
<1>2. CallCancel(u, FALSE, TRUE, FALSE)
  BY DEF ClickStart
<1> HIDE DEF u
<1> QED BY <1>1, <1>2, Calling DEF Called

LEMMA CloseDrawerCalls ==
    ASSUME TypeOK, CloseDrawer
    PROVE  Called(ui.told)
<1> DEFINE u == [ui EXCEPT !.open = FALSE]
<1>1. /\ u \in Ui /\ u.attempt = ui.attempt /\ u.active = ui.active /\ u.dialog = ui.dialog
      /\ u.auth = ui.auth /\ u.told = ui.told
  BY DEF TypeOK, Ui
<1>2. CallCancel(u, TRUE, TRUE, FALSE)
  BY DEF CloseDrawer
<1> HIDE DEF u
<1> QED BY <1>1, <1>2, Calling DEF Called

LEMMA CompletedCalls ==
    ASSUME TypeOK, CallCancel([ui EXCEPT !.flowError = FALSE, !.told = ui.auth], TRUE, TRUE, FALSE)
    PROVE  Called(ui.auth)
<1> DEFINE u == [ui EXCEPT !.flowError = FALSE, !.told = ui.auth]
<1>1. /\ u \in Ui /\ u.attempt = ui.attempt /\ u.active = ui.active /\ u.dialog = ui.dialog
      /\ u.auth = ui.auth /\ u.told = ui.auth
  BY DEF TypeOK, Ui
<1> HIDE DEF u
<1>2. CallCancel(u, TRUE, TRUE, FALSE)
  BY DEF u
<1> QED BY <1>1, <1>2, Calling DEF Called

\* The poller is off or waits for its timer.
LEMMA PollerType ==
    ASSUME TypeOK
    PROVE  /\ PollerOff \in Poller /\ NoCancellation \in Cancellation /\ NoStart \in StartRequest
           /\ \A dev \in 0..MaxDevice : [PollerOff EXCEPT !.pc = "timer", !.dev = dev] \in Poller
           /\ Shown \in 0..MaxDevice /\ poller.dev \in 0..MaxDevice
<1>1. 0 \in 0..MaxDevice /\ 0 \in Attempts
  BY BoundsAssumption DEF Attempts
<1> QED BY <1>1 DEF PollerOff, Poller, Answers, NoCancellation, Cancellation, NoStart, StartRequest,
              Shown, TypeOK, Ui

LEMMA UserTypes ==
    ASSUME TypeOK, UserStep
    PROVE  TypeOK'
<1>1. CASE ClickStart
  <2>1. starter' \in [pc : {"idle", "cancel", "start"}, attempt : Attempts]
    BY <1>1 DEF ClickStart, Attempts
  <2> QED BY <1>1, <2>1, ClickStartCalls DEF Called, ClickStart, server, TypeOK
<1>2. CASE CloseDialog
  BY <1>2, CalledCleared DEF Called, CloseDialog, server, TypeOK
<1>3. CASE CloseDrawer
  BY <1>3, CloseDrawerCalls DEF Called, CloseDrawer, server, TypeOK
<1>4. CASE OpenDrawer
  BY <1>4 DEF OpenDrawer, server, TypeOK, Ui
<1> QED BY <1>1, <1>2, <1>3, <1>4 DEF UserStep

LEMMA CancelTypes ==
    ASSUME TypeOK, SendCancel \/ AnswerCancel
    PROVE  TypeOK'
<1>1. CASE SendCancel
  BY <1>1 DEF SendCancel, server, TypeOK, Cancellation
<1>2. CASE AnswerCancel
  <2>1. cancel' \in Cancellation
    BY <1>2 DEF AnswerCancel, Cancelled, TypeOK, Cancellation
  <2>2. outcome' \in [Devices -> Outcomes]
    BY <1>2 DEF AnswerCancel, TypeOK, Outcomes
  <2>3. cookie' \in 0..MaxDevice
    <3>1. 0 \in 0..MaxDevice
      BY BoundsAssumption
    <3>2. cookie' = 0 \/ cookie' = cookie
      BY <1>2 DEF AnswerCancel
    <3> QED BY <3>1, <3>2 DEF TypeOK
  <2> QED BY <1>2, <2>1, <2>2, <2>3 DEF AnswerCancel, TypeOK
<1> QED BY <1>1, <1>2

\* The drawer once a cancellation is confirmed or has failed.
LEMMA SettledDrawer ==
    ASSUME TypeOK
    PROVE  /\ Confirmed(ui) \in Ui /\ Restored(ui) \in Ui
           /\ ~Confirmed(ui).active /\ (Confirmed(ui).dialog => ui.dialog)
           /\ Confirmed(ui).auth \in {0, ui.auth} /\ Confirmed(ui).told = ui.told
           /\ Restored(ui).active = ui.active /\ Restored(ui).dialog = cancel.oldDialog
           /\ Restored(ui).auth = cancel.oldAuth /\ Restored(ui).told = ui.told
<1>1. 0 \in 0..MaxDevice
  BY BoundsAssumption
<1>2. ui \in Ui /\ cancel.oldDialog \in BOOLEAN /\ cancel.oldAuth \in 0..MaxDevice
  BY DEF TypeOK, Cancellation
<1>3. /\ Confirmed(ui) \in Ui /\ ~Confirmed(ui).active /\ (Confirmed(ui).dialog => ui.dialog)
      /\ Confirmed(ui).auth \in {0, ui.auth} /\ Confirmed(ui).told = ui.told
  BY <1>1, <1>2 DEF Confirmed, Ui
<1>4. /\ Restored(ui) \in Ui
      /\ Restored(ui).active = ui.active /\ Restored(ui).dialog = cancel.oldDialog
      /\ Restored(ui).auth = cancel.oldAuth /\ Restored(ui).told = ui.told
  BY <1>2 DEF Restored, Ui
<1> QED BY <1>3, <1>4

\* A settled cancellation lets the start that waits for it go ahead, or not.
LEMMA Settling ==
    ASSUME TypeOK, Settle
    PROVE  /\ cancel' = NoCancellation /\ UNCHANGED <<poller, rendered, server, cookie>>
           /\ ui' \in Ui /\ ui'.told = ui.told
           /\ \/ /\ cancel.ok
                 /\ ui'.active /\ ui'.dialog /\ ui'.auth = 0
                 /\ \E a \in Attempts : starter' = [pc |-> "start", attempt |-> a]
                 /\ startReq' = [st |-> "sent", dev |-> 0, cookie |-> cookie]
              \/ /\ cancel.ok
                 /\ ~ui'.active /\ (ui'.dialog => ui.dialog) /\ ui'.auth \in {0, ui.auth}
                 /\ starter' \in {starter, [pc |-> "idle", attempt |-> 0]} /\ UNCHANGED startReq
              \/ /\ ~cancel.ok
                 /\ ui'.active = ui.active /\ ui'.dialog = cancel.oldDialog
                 /\ ui'.auth = cancel.oldAuth
                 /\ starter' \in {starter, [pc |-> "idle", attempt |-> 0]} /\ UNCHANGED startReq
<1> DEFINE v == IF cancel.ok THEN Confirmed(ui) ELSE Restored(ui)
           u == [v EXCEPT !.flowError = @ \/ cancel.error]
<1>1. v \in Ui
  BY SettledDrawer
<1>2. /\ u \in Ui /\ u.active = v.active /\ u.dialog = v.dialog /\ u.auth = v.auth
      /\ u.told = v.told
  <2> HIDE DEF v
  <2>1. cancel.error \in BOOLEAN
    BY DEF TypeOK, Cancellation
  <2> QED BY <1>1, <2>1 DEF Ui
<1>3. \/ cancel.ok /\ StartRequested(u)
      \/ /\ ui' = u
         /\ starter' \in {starter, [pc |-> "idle", attempt |-> 0]} /\ UNCHANGED startReq
  BY DEF Settle
<1>4. cancel' = NoCancellation /\ UNCHANGED <<poller, rendered, server, cookie>>
  BY DEF Settle
<1>5. /\ u.told = ui.told
      /\ cancel.ok => ~u.active /\ (u.dialog => ui.dialog) /\ u.auth \in {0, ui.auth}
      /\ ~cancel.ok => u.active = ui.active /\ u.dialog = cancel.oldDialog /\ u.auth = cancel.oldAuth
  <2> HIDE DEF u
  <2> QED BY <1>2, SettledDrawer
<1> HIDE DEF u, v
<1>6. CASE cancel.ok /\ StartRequested(u)
  <2> DEFINE n == NewAttempt({u.attempt})
  <2>1. n \in Attempts
    BY <1>2, NewAttemptType DEF Ui
  <2>2. 0 \in 0..MaxDevice
    BY BoundsAssumption
  <2>3. /\ ui' = [u EXCEPT !.attempt = n, !.active = TRUE, !.blocked = FALSE,
                           !.auth = 0, !.dialog = TRUE, !.busy = TRUE]
        /\ starter' = [pc |-> "start", attempt |-> n]
        /\ startReq' = [st |-> "sent", dev |-> 0, cookie |-> cookie]
    BY <1>6 DEF StartRequested
  <2> HIDE DEF n
  <2>4. ui' \in Ui /\ ui'.active /\ ui'.dialog /\ ui'.auth = 0 /\ ui'.told = u.told
    BY <1>2, <2>1, <2>2, <2>3 DEF Ui
  <2> QED BY <1>4, <1>5, <1>6, <2>1, <2>3, <2>4
<1>7. CASE /\ ui' = u
           /\ starter' \in {starter, [pc |-> "idle", attempt |-> 0]} /\ UNCHANGED startReq
  <2>1. cancel.ok \in BOOLEAN
    BY DEF TypeOK, Cancellation
  <2> QED BY <1>2, <1>4, <1>5, <1>7, <2>1
<1> QED BY <1>3, <1>6, <1>7

LEMMA SettleTypes ==
    ASSUME TypeOK, Settle
    PROVE  TypeOK'
<1>1. cancel' \in Cancellation /\ UNCHANGED <<poller, outcome, workers, key, cookie>> /\ ui' \in Ui
  BY Settling, PollerType DEF server
<1>2. starter' \in [pc : {"idle", "cancel", "start"}, attempt : Attempts]
  BY Settling DEF TypeOK, Attempts
<1>3. 0 \in 0..MaxDevice
  BY BoundsAssumption
<1>4. startReq' \in StartRequest
  BY <1>3, Settling DEF TypeOK, StartRequest
<1> QED BY <1>1, <1>2, <1>4 DEF TypeOK

\* The server answers a start with a new attempt, or with an error.
LEMMA StartServed ==
    ASSUME TypeOK, ServeStart
    PROVE  /\ startReq' \in StartRequest /\ startReq'.cookie = startReq.cookie
           /\ startReq.st = "sent" /\ startReq'.st = "answered"
           /\ UNCHANGED <<ui, starter, cancel, poller, rendered, workers, key, cookie>>
           /\ \/ \E d \in Devices :
                    /\ outcome[d] = "none" /\ startReq'.dev = d
                    /\ \A e \in Devices : e < d => outcome[e] # "none"
                    /\ outcome' = [e \in Devices |-> IF e = d THEN "open"
                                                     ELSE IF e = startReq.cookie THEN "gone"
                                                     ELSE outcome[e]]
              \/ startReq'.dev = startReq.dev /\ UNCHANGED outcome
<1>1. startReq \in StartRequest /\ Devices \subseteq 0..MaxDevice
  BY DEF TypeOK, Devices
<1>2. /\ startReq.st = "sent"
      /\ UNCHANGED <<ui, starter, cancel, poller, rendered, workers, key, cookie>>
  BY DEF ServeStart
<1>3. CASE UNCHANGED outcome /\ startReq' = [startReq EXCEPT !.st = "answered"]
  BY <1>1, <1>2, <1>3 DEF StartRequest
<1>4. ASSUME NEW d \in Devices,
             /\ outcome[d] = "none"
             /\ \A e \in Devices : e < d => outcome[e] # "none"
             /\ outcome' = [e \in Devices |-> IF e = d THEN "open"
                                              ELSE IF e = startReq.cookie THEN "gone"
                                              ELSE outcome[e]],
             startReq' = [startReq EXCEPT !.st = "answered", !.dev = d]
      PROVE  /\ startReq' \in StartRequest /\ startReq'.cookie = startReq.cookie
             /\ startReq'.st = "answered" /\ startReq'.dev = d
  BY <1>1, <1>4 DEF StartRequest
<1> QED BY <1>2, <1>3, <1>4 DEF ServeStart

LEMMA StartTypes ==
    ASSUME TypeOK, ServeStart \/ StartAnswered
    PROVE  TypeOK'
<1>1. CASE ServeStart
  <2>1. outcome' \in [Devices -> Outcomes]
    BY <1>1 DEF ServeStart, TypeOK, Outcomes
  <2>2. startReq' \in StartRequest
    BY <1>1, StartServed
  <2> QED BY <1>1, <2>1, <2>2 DEF ServeStart, TypeOK
<1>2. CASE StartAnswered
  <2>1. PICK heard \in {0, startReq.dev} :
          /\ cookie' = IF heard = 0 THEN cookie ELSE heard
          /\ ui' = IF SameAttempt THEN [ui EXCEPT !.auth = heard, !.busy = FALSE] ELSE ui
    BY <1>2 DEF StartAnswered
  <2>2. heard \in 0..MaxDevice
    BY BoundsAssumption DEF TypeOK, StartRequest
  <2>3. ui' \in Ui /\ cookie' \in 0..MaxDevice
    BY <2>1, <2>2 DEF TypeOK, Ui
  <2>4. cancel' \in Cancellation
    BY <1>2 DEF StartAnswered, TypeOK, Cancellation
  <2>5. starter' \in [pc : {"idle", "cancel", "start"}, attempt : Attempts]
    BY <1>2 DEF StartAnswered, Attempts
  <2> QED BY <1>2, <2>3, <2>4, <2>5, PollerType DEF StartAnswered, server, TypeOK
<1> QED BY <1>1, <1>2

\* The effect of a render is that of a poller that is off, starts or expires.
LEMMA Rendering ==
    ASSUME TypeOK, PollEffect
    PROVE  /\ rendered' = Dependencies /\ UNCHANGED <<starter, startReq, server, cookie>>
           /\ \/ poller' = PollerOff /\ Called(ui.told)
              \/ poller' = PollerOff /\ UNCHANGED <<ui, cancel>>
              \/ /\ Watching /\ Shown # 0
                 /\ poller' = [PollerOff EXCEPT !.pc = "timer", !.dev = Shown]
                 /\ ui' = [ui EXCEPT !.flowError = FALSE] /\ UNCHANGED cancel
<1>1. rendered' = Dependencies /\ UNCHANGED <<starter, startReq, server, cookie>>
  BY DEF PollEffect
<1>2. CASE Watching /\ Shown # 0 /\ Over(Shown)
  BY <1>1, <1>2, CalledCleared DEF PollEffect
<1>3. CASE Watching /\ Shown # 0 /\ ~Over(Shown)
  BY <1>1, <1>3 DEF PollEffect
<1>4. CASE ~(Watching /\ Shown # 0)
  BY <1>1, <1>4, CalledAsIs DEF PollEffect
<1> QED BY <1>2, <1>3, <1>4

LEMMA RenderTypes ==
    ASSUME TypeOK, PollEffect
    PROVE  TypeOK'
<1>1. UNCHANGED <<starter, startReq, outcome, workers, key, cookie>>
  BY DEF PollEffect, server
<1>2. ui' \in Ui /\ cancel' \in Cancellation
  BY Rendering DEF Called, TypeOK, Ui
<1>3. poller' \in Poller
  BY Rendering, PollerType
<1> QED BY <1>1, <1>2, <1>3 DEF TypeOK

LEMMA PollTypes ==
    ASSUME TypeOK, SendPoll \/ PollHeard \/ PollLost \/ PollCompleted \/ ExpiryTimer
    PROVE  TypeOK'
<1>1. CASE SendPoll
  <2>1. poller' \in Poller
    BY <1>1 DEF SendPoll, TypeOK, Poller, Ui, Answers
  <2>2. workers' \subseteq Devices
    BY <1>1, BoundsAssumption DEF SendPoll, TypeOK, Devices
  <2> QED BY <1>1, <2>1, <2>2 DEF SendPoll, TypeOK
<1>2. CASE PollHeard
  <2>1. cookie' \in 0..MaxDevice
    BY <1>2, BoundsAssumption DEF PollHeard, TypeOK
  <2>2. poller' \in Poller
    <3>1. [poller EXCEPT !.pc = "refresh"] \in Poller
      BY DEF TypeOK, Poller
    <3> QED BY <1>2, <3>1, PollerType DEF PollHeard, Retry
  <2>3. ui' \in Ui /\ cancel' \in Cancellation
    BY <1>2, CalledAsIs DEF PollHeard, TypeOK, Called
  <2> QED BY <1>2, <2>1, <2>2, <2>3 DEF PollHeard, server, TypeOK
<1>3. CASE PollLost
  BY <1>3, PollerType DEF PollLost, Retry, server, TypeOK
<1>4. CASE PollCompleted
  <2>1. poller' \in Poller
    BY <1>4, PollerType DEF PollCompleted, Retry
  <2>2. ui' \in Ui /\ cancel' \in Cancellation
    BY <1>4, CompletedCalls DEF PollCompleted, TypeOK, Called
  <2> QED BY <1>4, <2>1, <2>2 DEF PollCompleted, server, TypeOK
<1>5. CASE ExpiryTimer
  BY <1>5, CalledAsIs, PollerType DEF ExpiryTimer, Called, server, TypeOK
<1> QED BY <1>1, <1>2, <1>3, <1>4, <1>5

LEMMA ServerTypes ==
    ASSUME TypeOK, NEW d \in Devices, ServeAuthorized(d) \/ Expire(d)
    PROVE  TypeOK'
<1>1. outcome' \in [Devices -> Outcomes]
  BY DEF ServeAuthorized, Expire, TypeOK, Outcomes
<1>2. key' \in 0..MaxDevice
  BY DEF ServeAuthorized, Expire, TypeOK, Devices
<1> QED BY <1>1, <1>2 DEF ServeAuthorized, Expire, TypeOK

LEMMA ServePollTypes ==
    ASSUME TypeOK, NEW d \in Devices \cup {0}, ServePoll(d)
    PROVE  TypeOK'
<1>1. PollAnswer(d) \in Answers
  BY DEF PollAnswer, Answers
<1>2. poller' \in Poller
  <2> HIDE DEF PollAnswer
  <2> QED BY <1>1 DEF ServePoll, TypeOK, Poller
<1>3. workers' \subseteq Devices
  BY DEF ServePoll, TypeOK
<1> QED BY <1>2, <1>3 DEF ServePoll, TypeOK

LEMMA TypeInit == Init => TypeOK
<1>1. 0 \in 0..MaxDevice /\ 0 \in Attempts
  BY BoundsAssumption DEF Attempts
<1> QED BY <1>1 DEF Init, TypeOK, Ui, NoCancellation, Cancellation, PollerOff, Poller, Answers,
              NoStart, StartRequest, Outcomes

LEMMA TypeNext == TypeOK /\ [Next]_vars => TypeOK'
<1> SUFFICES ASSUME TypeOK, [Next]_vars PROVE TypeOK'
  OBVIOUS
<1>1. CASE UNCHANGED vars
  BY <1>1 DEF vars, TypeOK
<1>2. CASE Next
  BY <1>2, UserTypes, CancelTypes, SettleTypes, StartTypes, RenderTypes, PollTypes, ServerTypes,
     ServePollTypes DEF Next
<1> QED BY <1>1, <1>2

\* The drawer, the requests and the server's rows keep their types, and there is
\* always a fresh number for the next attempt.
THEOREM TypeCorrect == Spec => []TypeOK
BY TypeInit, TypeNext, PTL DEF Spec

-----------------------------------------------------------------------------
(* The invariant, action by action.                                        *)

\* A poller that is at work when an event comes in watches the device that is on
\* the screen, and no start is in flight.
LEMMA OnScreen ==
    ASSUME IInv, Quiet, poller.pc # "off"
    PROVE  poller.dev = ui.auth /\ ui.auth # 0 /\ startReq.st = "none" /\ cookie \in {0, poller.dev}
<1>1. poller.dev # 0 /\ rendered[2] = poller.dev
  BY DEF IInv, PollInv
<1>2. rendered[2] = Shown
  BY DEF Quiet, Dependencies
<1>3. poller.dev = ui.auth /\ ui.auth # 0
  BY <1>1, <1>2 DEF Shown
<1> QED BY <1>3 DEF IInv, DrawerInv, StartInv

\* A cancellation is called; the cookie may be emptied in the same step.
LEMMA CalledInv ==
    ASSUME TypeOK, IInv, NEW told, Called(told), UNCHANGED <<startReq, outcome, workers, key>>,
           cookie' \in {0, cookie}
    PROVE  DrawerInv' /\ StartInv' /\ CancelInv'
<1>1. DrawerInv'
  BY DEF IInv, DrawerInv, Called
<1>2. StartInv'
  BY DEF IInv, StartInv, Called, Live
<1>3. CancelInv'
  BY DEF IInv, CancelInv, Called, Live
<1> QED BY <1>1, <1>2, <1>3

\* The server's rows stay as they are, and so does the cookie.
LEMMA Kept ==
    ASSUME IInv, UNCHANGED <<outcome, workers, key, cookie>>, startReq'.dev \in {0, startReq.dev},
           startReq'.cookie \in {0, startReq.cookie, cookie},
           poller'.cookie \in {0, poller.cookie, cookie}
    PROVE  OutcomeInv'
<1>1. OutcomeInv
  BY DEF IInv
<1>2. \A d \in {startReq'.dev, startReq'.cookie, poller'.cookie} : Started(d)
  BY <1>1 DEF OutcomeInv, Started
<1> QED BY <1>1, <1>2 DEF OutcomeInv, Live, Started

LEMMA UserStepInv ==
    ASSUME TypeOK, IInv, UserStep
    PROVE  IInv'
<1>1. CASE OpenDrawer
  <2>1. /\ ui'.active = ui.active /\ ui'.dialog = ui.dialog /\ ui'.auth = ui.auth
        /\ ui'.told = ui.told
        /\ UNCHANGED <<starter, cancel, poller, rendered, startReq, outcome, workers, key, cookie>>
    BY <1>1 DEF OpenDrawer, server, TypeOK, Ui
  <2> QED BY <2>1 DEF IInv, DrawerInv, StartInv, CancelInv, PollInv, OutcomeInv, ToldTruth, Live,
                  Started
<1>2. CASE ClickStart \/ CloseDialog \/ CloseDrawer
  <2>1. Called(ui.told) /\ UNCHANGED <<poller, rendered, startReq, outcome, workers, key, cookie>>
    BY <1>2, ClickStartCalls, CalledCleared, CloseDrawerCalls
       DEF ClickStart, CloseDialog, CloseDrawer, server
  <2>2. DrawerInv' /\ StartInv' /\ CancelInv'
    BY <2>1, CalledInv
  <2>3. OutcomeInv'
    BY <2>1, Kept
  <2>4. PollInv' /\ ToldTruth'
    BY <2>1 DEF IInv, PollInv, ToldTruth, Called, Live
  <2> QED BY <2>2, <2>3, <2>4 DEF IInv
<1> QED BY <1>1, <1>2 DEF UserStep

LEMMA SendCancelInv ==
    ASSUME TypeOK, IInv, SendCancel
    PROVE  IInv'
<1>1. /\ UNCHANGED <<ui, poller, rendered, startReq, outcome, workers, key, cookie>>
      /\ cancel.pc = "request"
      /\ cancel'.oldDialog = cancel.oldDialog /\ cancel'.oldAuth = cancel.oldAuth
      /\ \/ cancel'.pc = "sent" /\ cancel'.cookie = cookie
         \/ cancel'.pc = "settled" /\ ~ui.active
  BY DEF SendCancel, server, TypeOK, Cancellation
<1>2. DrawerInv' /\ StartInv'
  BY <1>1 DEF IInv, DrawerInv, StartInv, Live
<1>3. CancelInv'
  BY <1>1 DEF IInv, CancelInv, Live
<1>4. PollInv' /\ OutcomeInv' /\ ToldTruth'
  BY <1>1 DEF IInv, PollInv, OutcomeInv, ToldTruth, Live, Started
<1> QED BY <1>2, <1>3, <1>4 DEF IInv

\* An attempt that was open is cancelled before the cookie is emptied.
LEMMA AnswerCancelInv ==
    ASSUME TypeOK, IInv, AnswerCancel
    PROVE  IInv'
<1> DEFINE d == cancel.cookie
<1>1. /\ UNCHANGED <<ui, poller, rendered, startReq, workers, key>>
      /\ cancel.pc = "sent" /\ cancel'.pc = "settled"
      /\ cancel'.oldDialog = cancel.oldDialog /\ cancel'.oldAuth = cancel.oldAuth
      /\ cookie \in {0, d} /\ startReq.st = "none"
  BY DEF AnswerCancel, TypeOK, Cancellation, IInv, CancelInv, StartInv
<1>2. /\ \/ outcome' = outcome
         \/ d # 0 /\ outcome[d] = "open" /\ outcome' = [outcome EXCEPT ![d] = "cancelled"]
      /\ cookie' \in {0, cookie}
      /\ cancel'.ok => ~(cookie' # 0 /\ outcome'[cookie'] = "open")
      /\ cookie' # cookie => d # 0 /\ outcome'[d] # "open"
  <2>1. cancel \in Cancellation /\ outcome \in [Devices -> Outcomes] /\ (d # 0 => d \in Devices)
    BY DEF TypeOK, Cancellation, Devices
  <2>2. CASE d = 0 /\ UNCHANGED <<outcome, cookie>>
    BY <1>1, <2>2
  <2>3. CASE ~cancel'.ok /\ UNCHANGED <<outcome, cookie>>
    BY <2>3
  <2>4. CASE /\ d # 0
             /\ outcome' = IF outcome[d] = "open" THEN [outcome EXCEPT ![d] = "cancelled"] ELSE outcome
             /\ cookie' = 0 \/ (~cancel'.ok /\ UNCHANGED cookie)
    BY <2>1, <2>4
  <2>5. \/ d = 0 /\ UNCHANGED <<outcome, cookie>>
        \/ ~cancel'.ok /\ UNCHANGED <<outcome, cookie>>
        \/ /\ d # 0
           /\ outcome' = IF outcome[d] = "open" THEN [outcome EXCEPT ![d] = "cancelled"] ELSE outcome
           /\ cookie' = 0 \/ (~cancel'.ok /\ UNCHANGED cookie)
    BY <2>1 DEF AnswerCancel, Cancellation
  <2> QED BY <2>2, <2>3, <2>4, <2>5
<1>3. /\ \A e \in Devices : outcome'[e] = "open" => outcome[e] = "open"
      /\ \A e \in Devices : outcome'[e] # "none" <=> outcome[e] # "none"
      /\ \A e \in Devices : outcome'[e] = "saved" => outcome[e] = "saved"
  BY <1>2 DEF TypeOK, Devices
<1>4. /\ cookie \in 0..MaxDevice /\ startReq.dev \in 0..MaxDevice /\ startReq.cookie \in 0..MaxDevice
      /\ poller.cookie \in 0..MaxDevice /\ key \in 0..MaxDevice /\ workers \subseteq Devices
      /\ \A e \in 0..MaxDevice : e # 0 => e \in Devices
  BY DEF TypeOK, StartRequest, Poller, Devices
<1> HIDE DEF d
<1>5. DrawerInv' /\ StartInv'
  BY <1>1, <1>2, <1>3, <1>4 DEF IInv, DrawerInv, StartInv, Live
<1>6. CancelInv'
  BY <1>1, <1>2, <1>3, <1>4 DEF IInv, CancelInv, Live
<1>7. PollInv'
  BY <1>1, <1>2, <1>3, <1>4 DEF IInv, PollInv, Live
<1>8. OutcomeInv'
  <2>1. OutcomeInv
    BY DEF IInv
  <2>2. \A e \in workers' : Live(e)' => e = cookie'
    BY <1>1, <1>2, <1>3, <1>4, <2>1 DEF OutcomeInv, Live
  <2>3. \A e \in (workers \cup {key, cookie, startReq.dev, startReq.cookie, poller.cookie})' :
           Started(e)'
    BY <1>1, <1>2, <1>3, <1>4, <2>1 DEF OutcomeInv, Started
  <2> QED BY <1>1, <1>2, <1>3, <2>1, <2>2, <2>3 DEF OutcomeInv
<1>9. ToldTruth'
  BY <1>1 DEF IInv, ToldTruth
<1> QED BY <1>5, <1>6, <1>7, <1>8, <1>9 DEF IInv

LEMMA SettleInv ==
    ASSUME TypeOK, IInv, Settle
    PROVE  IInv'
<1>1. /\ cancel.pc = "settled" /\ startReq.st = "none" /\ startReq.dev = 0
      /\ (cancel.ok => ~Live(cookie)) /\ cancel.oldDialog = ui.dialog
  BY DEF Settle, IInv, StartInv, CancelInv, DrawerInv
<1>2. /\ UNCHANGED <<poller, rendered, outcome, workers, key, cookie>>
      /\ cancel'.pc = "none" /\ cancel'.oldAuth = 0 /\ ui'.told = ui.told
  BY Settling DEF server, NoCancellation
<1>3. \/ /\ cancel.ok /\ ui'.active /\ ui'.dialog /\ ui'.auth = 0
         /\ startReq'.st = "sent" /\ startReq'.dev = 0 /\ startReq'.cookie = cookie
      \/ cancel.ok /\ ~ui'.active /\ ui'.auth \in {0, ui.auth} /\ UNCHANGED startReq
      \/ /\ ~cancel.ok /\ ui'.active = ui.active /\ ui'.dialog = cancel.oldDialog
         /\ ui'.auth = cancel.oldAuth /\ UNCHANGED startReq
  BY Settling
<1>4. DrawerInv'
  BY <1>1, <1>2, <1>3 DEF IInv, DrawerInv
<1>5. StartInv'
  BY <1>1, <1>2, <1>3 DEF IInv, StartInv
<1>6. CancelInv'
  BY <1>1, <1>2, <1>3 DEF IInv, CancelInv, Live
<1>7. OutcomeInv'
  BY <1>1, <1>2, <1>3, Kept
<1>8. PollInv' /\ ToldTruth'
  BY <1>2 DEF IInv, PollInv, ToldTruth, Live
<1> QED BY <1>4, <1>5, <1>6, <1>7, <1>8 DEF IInv

\* A new attempt is the last, and replaces the one of the cookie.
LEMMA ServeStartInv ==
    ASSUME TypeOK, IInv, ServeStart
    PROVE  IInv'
<1>1. /\ UNCHANGED <<ui, cancel, poller, rendered, workers, key, cookie>>
      /\ startReq.st = "sent" /\ startReq'.st = "answered" /\ startReq'.cookie = startReq.cookie
      /\ startReq.dev = 0
  BY StartServed DEF IInv, StartInv
<1>2. CASE startReq'.dev = startReq.dev /\ UNCHANGED outcome
  <2>1. OutcomeInv'
    BY <1>1, <1>2, Kept
  <2> QED BY <1>1, <1>2, <2>1 DEF IInv, DrawerInv, StartInv, CancelInv, PollInv, ToldTruth, Live
<1>3. ASSUME NEW d \in Devices, outcome[d] = "none", startReq'.dev = d,
             \A e \in Devices : e < d => outcome[e] # "none",
             outcome' = [e \in Devices |-> IF e = d THEN "open"
                                           ELSE IF e = startReq.cookie THEN "gone"
                                           ELSE outcome[e]]
      PROVE  IInv'
  <2>1. /\ cookie \in 0..MaxDevice /\ startReq.cookie \in 0..MaxDevice
        /\ poller.cookie \in 0..MaxDevice /\ key \in 0..MaxDevice /\ workers \subseteq Devices
        /\ \A e \in 0..MaxDevice : e # 0 <=> e \in Devices
        /\ MaxDevice \in Nat
    BY BoundsAssumption DEF TypeOK, StartRequest, Poller, Devices
  <2>2. \A e \in {key, cookie, startReq.cookie, poller.cookie} \cup workers : e # d
    BY <1>3, <2>1 DEF IInv, OutcomeInv, Started
  <2>3. /\ d # 0 /\ outcome'[d] = "open"
        /\ \A e \in Devices \ {d} : outcome'[e] \in {"gone", outcome[e]}
        /\ startReq.cookie # 0 => outcome'[startReq.cookie] = "gone"
    BY <1>3, <2>1, <2>2
  <2>4. key <= d
    <3>1. key # 0 => outcome[key] # "none"
      BY DEF IInv, OutcomeInv, Started
    <3>2. ASSUME d < key PROVE FALSE
      <4>1. key \in Devices /\ outcome[key] # "none"
        BY <2>1, <3>1, <3>2 DEF Devices
      <4> QED BY <1>3, <3>2, <4>1 DEF IInv, OutcomeInv
    <3> QED BY <2>1, <3>2 DEF Devices
  <2>5. DrawerInv' /\ ToldTruth'
    BY <1>1 DEF IInv, DrawerInv, ToldTruth
  <2>6. StartInv'
    BY <1>1, <1>3, <2>3, <2>4 DEF IInv, StartInv, Live
  <2>7. CancelInv'
    BY <1>1, <2>1, <2>2, <2>3 DEF IInv, CancelInv, Live
  <2>8. PollInv'
    BY <1>1, <2>1, <2>2, <2>3 DEF IInv, PollInv, Live
  <2>9. OutcomeInv'
    <3>1. OutcomeInv
      BY DEF IInv
    <3>2. \A a, b \in Devices : b < a /\ outcome'[a] # "none" => outcome'[b] # "none"
      <4> SUFFICES ASSUME NEW a \in Devices, NEW b \in Devices, b < a, outcome'[a] # "none",
                          b # d, outcome'[b] = outcome[b]
                   PROVE  outcome'[b] # "none"
        BY <2>3
      <4>1. CASE a = d
        BY <1>3, <4>1
      <4>2. CASE a # d
        <5>1. outcome[a] # "none" \/ a = startReq.cookie
          BY <1>3, <4>2
        <5>2. outcome[a] # "none"
          BY <2>1, <3>1, <5>1 DEF OutcomeInv, Started
        <5> QED BY <3>1, <5>2 DEF OutcomeInv
      <4> QED BY <4>1, <4>2
    <3>3. \A e \in workers : Live(e)' => e = cookie
      BY <1>1, <2>1, <2>2, <2>3, <3>1 DEF OutcomeInv, Live
    <3>4. \A e \in workers \cup {key, cookie, d, startReq.cookie, poller.cookie} : Started(e)'
      BY <2>1, <2>2, <2>3, <3>1 DEF OutcomeInv, Started
    <3>5. \A e \in Devices : outcome'[e] = "saved" => key >= e
      BY <2>3, <3>1 DEF OutcomeInv
    <3> QED BY <1>1, <1>3, <3>1, <3>2, <3>3, <3>4, <3>5 DEF OutcomeInv
  <2> QED BY <2>5, <2>6, <2>7, <2>8, <2>9 DEF IInv
<1> QED BY <1>2, <1>3, StartServed

\* The attempt the cookie named until now is not open any more.
LEMMA StartAnsweredInv ==
    ASSUME TypeOK, IInv, StartAnswered
    PROVE  IInv'
<1>1. PICK heard \in {0, startReq.dev} :
        /\ cookie' = IF heard = 0 THEN cookie ELSE heard
        /\ ui' = IF SameAttempt THEN [ui EXCEPT !.auth = heard, !.busy = FALSE] ELSE ui
  BY DEF StartAnswered
<1>2. /\ ui'.active = ui.active /\ ui'.dialog = ui.dialog /\ ui'.auth \in {ui.auth, heard}
      /\ ui'.told = ui.told
      /\ UNCHANGED <<poller, rendered, outcome, workers, key>>
      /\ startReq' = NoStart
      /\ cancel'.pc = IF cancel.pc = "await" THEN "request" ELSE cancel.pc
      /\ cancel'.oldDialog = cancel.oldDialog /\ cancel'.oldAuth = cancel.oldAuth
  BY <1>1 DEF StartAnswered, server, TypeOK, Ui, Cancellation
<1>3. /\ startReq.st = "answered" /\ ui.active /\ ui.auth = 0 /\ cancel.oldAuth = 0
      /\ cancel.pc \in {"none", "await"} /\ cookie \in {0, startReq.cookie}
      /\ startReq.dev # 0 => ~Live(startReq.cookie) /\ key <= startReq.dev
  BY DEF StartAnswered, IInv, StartInv
<1>4. poller.pc = "off"
  BY <1>3, OnScreen DEF StartAnswered
<1>5. startReq'.st = "none" /\ startReq'.dev = 0 /\ startReq'.cookie = 0
  BY <1>2 DEF NoStart
<1>6. DrawerInv' /\ StartInv' /\ CancelInv'
  BY <1>1, <1>2, <1>3, <1>5 DEF IInv, DrawerInv, StartInv, CancelInv
<1>7. PollInv' /\ ToldTruth'
  BY <1>2, <1>4 DEF IInv, PollInv, ToldTruth, Live
<1>8. OutcomeInv'
  <2>1. OutcomeInv
    BY DEF IInv
  <2>2. CASE heard = 0
    BY <1>1, <1>2, <1>5, <2>2, Kept
  <2>3. CASE heard # 0
    <3>1. cookie' = startReq.dev /\ startReq.dev # 0 /\ key <= startReq.dev
      BY <1>1, <1>3, <2>3
    <3>2. \A e \in workers : ~Live(e)
      BY <1>3, <2>1, <3>1 DEF OutcomeInv, Live
    <3>3. \A e \in workers \cup {key, startReq.dev, 0, poller.cookie} : Started(e)
      BY <2>1 DEF OutcomeInv, Started
    <3> QED BY <1>2, <1>5, <2>1, <3>1, <3>2, <3>3 DEF OutcomeInv, Live, Started
  <2> QED BY <2>2, <2>3
<1> QED BY <1>6, <1>7, <1>8 DEF IInv

LEMMA PollEffectInv ==
    ASSUME TypeOK, IInv, PollEffect
    PROVE  IInv'
<1>1. /\ UNCHANGED <<startReq, outcome, workers, key, cookie>> /\ rendered' = Dependencies
  BY Rendering DEF server
<1>2. CASE poller' = PollerOff /\ (Called(ui.told) \/ UNCHANGED <<ui, cancel>>)
  <2>1. /\ poller'.pc = "off" /\ poller'.cookie = 0 /\ poller'.dev = 0 /\ poller'.answer = "none"
    BY <1>2 DEF PollerOff
  <2>2. PollInv'
    BY <2>1 DEF PollInv
  <2>3. OutcomeInv'
    BY <1>1, <2>1, Kept
  <2>4. DrawerInv' /\ StartInv' /\ CancelInv'
    BY <1>1, <1>2, CalledInv DEF IInv, DrawerInv, StartInv, CancelInv, Live
  <2>5. ToldTruth'
    BY <1>1, <1>2 DEF IInv, ToldTruth, Called
  <2> QED BY <2>2, <2>3, <2>4, <2>5 DEF IInv
<1>3. CASE /\ Watching /\ Shown # 0
           /\ poller' = [PollerOff EXCEPT !.pc = "timer", !.dev = Shown]
           /\ ui' = [ui EXCEPT !.flowError = FALSE] /\ UNCHANGED cancel
  <2>1. /\ poller'.pc = "timer" /\ poller'.cookie = 0 /\ poller'.dev = Shown
        /\ poller'.answer = "none"
    BY <1>3 DEF PollerOff
  <2>2. rendered'[1] = Watching /\ rendered'[2] = Shown
    BY <1>1 DEF Dependencies
  <2>3. PollInv'
    BY <1>3, <2>1, <2>2 DEF PollInv
  <2>4. OutcomeInv'
    BY <1>1, <2>1, Kept
  <2>5. /\ ui'.active = ui.active /\ ui'.dialog = ui.dialog /\ ui'.auth = ui.auth
        /\ ui'.told = ui.told
    BY <1>3 DEF TypeOK, Ui
  <2>6. DrawerInv' /\ StartInv' /\ CancelInv' /\ ToldTruth'
    BY <1>1, <1>3, <2>5 DEF IInv, DrawerInv, StartInv, CancelInv, ToldTruth, Live
  <2> QED BY <2>3, <2>4, <2>6 DEF IInv
<1> QED BY <1>2, <1>3, Rendering

LEMMA SendPollInv ==
    ASSUME TypeOK, IInv, SendPoll
    PROVE  IInv'
<1>1. /\ UNCHANGED <<ui, cancel, rendered, startReq, outcome, key, cookie>>
      /\ workers' = workers \cup ({cookie} \ {0})
      /\ poller'.pc = "sent" /\ poller'.dev = poller.dev /\ poller'.cookie = cookie
      /\ poller'.answer = "none" /\ poller.pc = "timer"
  BY DEF SendPoll, TypeOK, Poller
<1>2. cookie \in {0, poller.dev}
  BY <1>1, OnScreen DEF SendPoll
<1>3. PollInv'
  BY <1>1, <1>2 DEF IInv, PollInv
<1>4. OutcomeInv'
  BY <1>1 DEF IInv, OutcomeInv, Live, Started
<1>5. DrawerInv' /\ StartInv' /\ CancelInv' /\ ToldTruth'
  BY <1>1 DEF IInv, DrawerInv, StartInv, CancelInv, ToldTruth, Live
<1> QED BY <1>3, <1>4, <1>5 DEF IInv

\* The poller goes back to its timer, or is off, and the rest of the system stays.
LEMMA PollerRests ==
    ASSUME TypeOK, IInv, UNCHANGED <<rendered, startReq, outcome, workers, key, cookie>>,
           poller' = PollerOff \/ (poller.pc # "off" /\ Retry)
    PROVE  PollInv' /\ OutcomeInv'
<1>1. /\ poller'.pc = "off" \/ (poller.pc # "off" /\ poller'.pc = "timer" /\ poller'.dev = poller.dev)
      /\ poller'.cookie = 0 /\ poller'.answer = "none"
  <2>1. CASE poller' = PollerOff
    BY <2>1 DEF PollerOff
  <2>2. CASE poller.pc # "off" /\ Retry
    BY <2>2 DEF PollerOff, Retry
  <2> QED BY <2>1, <2>2
<1>2. PollInv'
  BY <1>1 DEF IInv, PollInv
<1> QED BY <1>1, <1>2, Kept

LEMMA PollLostInv ==
    ASSUME TypeOK, IInv, PollLost
    PROVE  IInv'
<1>1. /\ UNCHANGED <<ui, cancel, rendered, startReq, outcome, workers, key, cookie>>
      /\ poller.pc # "off" /\ Retry
  BY DEF PollLost, server
<1>2. DrawerInv' /\ StartInv' /\ CancelInv' /\ ToldTruth'
  BY <1>1 DEF IInv, DrawerInv, StartInv, CancelInv, ToldTruth, Live
<1> QED BY <1>1, <1>2, PollerRests DEF IInv

LEMMA ExpiryTimerInv ==
    ASSUME TypeOK, IInv, ExpiryTimer
    PROVE  IInv'
<1>1. /\ UNCHANGED <<rendered, startReq, outcome, workers, key, cookie>>
      /\ poller' = PollerOff /\ Called(ui.told)
  BY CalledAsIs DEF ExpiryTimer, server
<1>2. DrawerInv' /\ StartInv' /\ CancelInv'
  BY <1>1, CalledInv
<1>3. ToldTruth'
  BY <1>1 DEF IInv, ToldTruth, Called
<1> QED BY <1>1, <1>2, <1>3, PollerRests DEF IInv

\* What the user is told is the device of the poller, whose attempt was saved.
LEMMA PollCompletedInv ==
    ASSUME TypeOK, IInv, PollCompleted
    PROVE  IInv'
<1>1. /\ UNCHANGED <<rendered, startReq, outcome, workers, key, cookie>> /\ poller.pc = "refresh"
      /\ \/ poller' = PollerOff /\ Called(ui.auth)
         \/ Retry /\ UNCHANGED <<ui, cancel>>
  BY CompletedCalls DEF PollCompleted, server
<1>2. PollInv' /\ OutcomeInv'
  BY <1>1, PollerRests
<1>3. DrawerInv' /\ StartInv' /\ CancelInv'
  BY <1>1, CalledInv DEF IInv, DrawerInv, StartInv, CancelInv, Live
<1>4. ToldTruth'
  <2>1. key >= ui.auth
    BY <1>1, OnScreen DEF PollCompleted, IInv, PollInv
  <2> QED BY <1>1, <2>1 DEF IInv, ToldTruth, Called
<1> QED BY <1>2, <1>3, <1>4 DEF IInv

\* A final answer empties the cookie of an attempt that is not open any more.
LEMMA PollHeardInv ==
    ASSUME TypeOK, IInv, PollHeard
    PROVE  IInv'
<1>1. /\ UNCHANGED <<rendered, startReq, outcome, workers, key>>
      /\ poller.pc = "sent" /\ poller.answer \in {"pending", "over", "saved"}
      /\ cookie' = IF poller.answer = "pending" THEN cookie ELSE 0
  BY DEF PollHeard, server, TypeOK, Poller, Answers
<1>2. \/ Retry /\ UNCHANGED <<ui, cancel>>
      \/ poller' = PollerOff /\ Called(ui.told)
      \/ /\ poller.answer = "saved" /\ poller' = [poller EXCEPT !.pc = "refresh"]
         /\ UNCHANGED <<ui, cancel>>
  BY CalledAsIs DEF PollHeard
<1>3. /\ cookie' \in {0, cookie}
      /\ cookie' # cookie => ~Live(cookie)
  BY <1>1 DEF IInv, PollInv, Live
<1>4. DrawerInv' /\ StartInv' /\ CancelInv'
  <2>1. CASE Called(ui.told)
    BY <1>1, <1>3, <2>1, CalledInv
  <2>2. CASE UNCHANGED <<ui, cancel>>
    BY <1>1, <1>3, <2>2 DEF IInv, DrawerInv, StartInv, CancelInv, Live
  <2> QED BY <1>2, <2>1, <2>2
<1>5. PollInv' /\ poller'.cookie \in {0, poller.cookie}
  <2>1. CASE Retry
    <3>1. poller'.pc = "timer" /\ poller'.dev = poller.dev /\ poller'.cookie = 0 /\ poller'.answer = "none"
      BY <2>1 DEF Retry, PollerOff
    <3> QED BY <1>1, <3>1 DEF IInv, PollInv
  <2>2. CASE poller' = PollerOff
    BY <2>2 DEF PollInv, PollerOff
  <2>3. CASE poller.answer = "saved" /\ poller' = [poller EXCEPT !.pc = "refresh"]
    <3>1. /\ poller'.pc = "refresh" /\ poller'.dev = poller.dev /\ poller'.cookie = poller.cookie
          /\ poller'.answer = "saved"
      BY <2>3 DEF TypeOK, Poller
    <3> QED BY <1>1, <2>3, <3>1 DEF IInv, PollInv, Live
  <2> QED BY <1>2, <2>1, <2>2, <2>3
<1>6. OutcomeInv'
  BY <1>1, <1>3, <1>5 DEF IInv, OutcomeInv, Live, Started
<1>7. ToldTruth'
  BY <1>1, <1>2 DEF IInv, ToldTruth, Called
<1> QED BY <1>4, <1>5, <1>6, <1>7 DEF IInv

\* Only the attempt of the cookie is saved, so the credential is never older.
LEMMA ServeAuthorizedInv ==
    ASSUME TypeOK, IInv, NEW d \in Devices, ServeAuthorized(d)
    PROVE  IInv' /\ ui.dialog
<1>1. /\ UNCHANGED <<ui, cancel, poller, rendered, startReq, workers, cookie>>
      /\ d \in workers /\ outcome[d] = "open" /\ d # 0
      /\ \/ outcome' = [outcome EXCEPT ![d] = "saved"] /\ key' = d
         \/ outcome' = [outcome EXCEPT ![d] = "failed"] /\ key' = key
  BY DEF ServeAuthorized, Devices
<1>2. d = cookie /\ key <= d
  BY <1>1 DEF IInv, OutcomeInv, Live
<1>3. /\ key' \in {key, d} /\ key' >= key /\ key' <= d
      /\ \A e \in Devices \ {d} : outcome'[e] = outcome[e]
      /\ outcome'[d] \in {"saved", "failed"} /\ (outcome'[d] = "saved" => key' = d)
  <2>1. key \in Nat /\ d \in Nat /\ outcome \in [Devices -> Outcomes]
    BY BoundsAssumption DEF TypeOK, Devices
  <2>2. key' \in {key, d} /\ key' >= key /\ key' <= d
    BY <1>1, <1>2, <2>1
  <2>3. /\ \A e \in Devices \ {d} : outcome'[e] = outcome[e]
        /\ outcome'[d] \in {"saved", "failed"} /\ (outcome'[d] = "saved" => key' = d)
    BY <1>1, <2>1
  <2> QED BY <2>2, <2>3
<1>4. /\ cookie \in 0..MaxDevice /\ startReq.dev \in 0..MaxDevice /\ startReq.cookie \in 0..MaxDevice
      /\ poller.cookie \in 0..MaxDevice /\ poller.dev \in 0..MaxDevice
      /\ key \in 0..MaxDevice /\ key' \in 0..MaxDevice /\ ui.told \in 0..MaxDevice
      /\ workers \subseteq Devices /\ Devices \subseteq 0..MaxDevice /\ 0..MaxDevice \subseteq Nat
      /\ \A e \in 0..MaxDevice : e # 0 <=> e \in Devices
  BY <1>3, BoundsAssumption DEF TypeOK, StartRequest, Poller, Devices, Ui
<1>5. \A e \in 0..MaxDevice : ~Live(e) => ~Live(e)'
  BY <1>3, <1>4 DEF Live
<1>6. DrawerInv' /\ ToldTruth'
  BY <1>1, <1>3, <1>4 DEF IInv, DrawerInv, ToldTruth
<1>7. StartInv'
  <2>1. startReq.dev # 0 => startReq.st # "none" /\ ~Live(startReq.cookie)
    BY DEF IInv, StartInv
  <2>2. startReq.st # "none" => cookie \in {0, startReq.cookie}
    BY DEF IInv, StartInv
  <2>3. startReq.dev = 0
    BY <1>1, <1>2, <2>1, <2>2 DEF Live
  <2> QED BY <1>1, <2>3 DEF IInv, StartInv
<1>8. CancelInv'
  BY <1>1, <1>4, <1>5 DEF IInv, CancelInv
<1>9. PollInv'
  BY <1>1, <1>3, <1>4, <1>5 DEF IInv, PollInv
<1>10. OutcomeInv'
  <2>1. OutcomeInv
    BY DEF IInv
  <2>2. \A a \in Devices : outcome'[a] # "none" <=> outcome[a] # "none"
    BY <1>1, <1>3
  <2>3. \A e \in workers : Live(e)' => e = cookie
    BY <1>4, <1>5, <2>1 DEF OutcomeInv
  <2>4. \A e \in workers \cup {key', cookie, startReq.dev, startReq.cookie, poller.cookie} :
           Started(e)'
    BY <1>1, <1>3, <1>4, <2>1, <2>2 DEF OutcomeInv, Started
  <2>5. \A e \in Devices : outcome'[e] = "saved" => key' >= e
    <3> TAKE e \in Devices
    <3>1. CASE e = d
      BY <1>3, <1>4, <3>1
    <3>2. CASE e # d
      BY <1>3, <1>4, <2>1, <3>2 DEF OutcomeInv
    <3> QED BY <3>1, <3>2
  <2>6. cookie # 0 => key' <= cookie
    BY <1>2, <1>3
  <2> QED BY <1>1, <2>1, <2>2, <2>3, <2>4, <2>5, <2>6 DEF OutcomeInv
<1>11. ui.dialog
  BY <1>1, <1>2 DEF IInv, CancelInv, DrawerInv, Live
<1> QED BY <1>6, <1>7, <1>8, <1>9, <1>10, <1>11 DEF IInv

LEMMA ExpireInv ==
    ASSUME TypeOK, IInv, NEW d \in Devices, Expire(d)
    PROVE  IInv'
<1>1. /\ UNCHANGED <<ui, cancel, poller, rendered, startReq, workers, key, cookie>>
      /\ outcome[d] # "none" /\ outcome' = [outcome EXCEPT ![d] = "gone"]
  BY DEF Expire
<1>2. /\ \A e \in Devices : outcome'[e] \in {"gone", outcome[e]}
      /\ \A e \in Devices : outcome'[e] # "none" <=> outcome[e] # "none"
  BY <1>1 DEF TypeOK
<1>3. /\ cookie \in 0..MaxDevice /\ startReq.dev \in 0..MaxDevice /\ startReq.cookie \in 0..MaxDevice
      /\ poller.cookie \in 0..MaxDevice /\ key \in 0..MaxDevice
      /\ workers \subseteq Devices /\ Devices \subseteq 0..MaxDevice
      /\ \A e \in 0..MaxDevice : e # 0 <=> e \in Devices
  BY DEF TypeOK, StartRequest, Poller, Devices
<1>4. \A e \in 0..MaxDevice : ~Live(e) => ~Live(e)'
  BY <1>2, <1>3 DEF Live
<1>5. \A e \in 0..MaxDevice : Started(e) => Started(e)'
  BY <1>2, <1>3 DEF Started
<1>6. DrawerInv' /\ StartInv' /\ CancelInv' /\ ToldTruth'
  BY <1>1, <1>3, <1>4 DEF IInv, DrawerInv, StartInv, CancelInv, ToldTruth
<1>7. PollInv'
  BY <1>1, <1>3, <1>4 DEF IInv, PollInv
<1>8. OutcomeInv'
  <2>1. OutcomeInv
    BY DEF IInv
  <2>2. \A e \in workers : Live(e)' => e = cookie
    BY <1>3, <1>4, <2>1 DEF OutcomeInv
  <2>3. \A e \in workers \cup {key, cookie, startReq.dev, startReq.cookie, poller.cookie} :
           Started(e)'
    BY <1>3, <1>5, <2>1 DEF OutcomeInv
  <2> QED BY <1>1, <1>2, <2>1, <2>2, <2>3 DEF OutcomeInv
<1> QED BY <1>6, <1>7, <1>8 DEF IInv

\* A request that ends tells the poller of the attempt it was sent for.
LEMMA ServePollInv ==
    ASSUME TypeOK, IInv, NEW d \in Devices \cup {0}, ServePoll(d)
    PROVE  IInv'
<1>1. /\ UNCHANGED <<ui, cancel, rendered, startReq, outcome, key, cookie>>
      /\ workers' = workers \ {d}
      /\ \/ UNCHANGED poller
         \/ /\ poller.pc = "sent" /\ poller.cookie = d
            /\ poller' = [poller EXCEPT !.answer = PollAnswer(d)]
  BY DEF ServePoll
<1>2. /\ poller'.pc = poller.pc /\ poller'.dev = poller.dev /\ poller'.cookie = poller.cookie
      /\ \/ poller'.answer = poller.answer
         \/ poller.pc = "sent" /\ poller.cookie = d /\ poller'.answer = PollAnswer(d)
  <2> HIDE DEF PollAnswer
  <2> QED BY <1>1 DEF TypeOK, Poller
<1>3. /\ PollAnswer(d) \in {"over", "saved"} => d # 0 /\ ~Live(d)
      /\ PollAnswer(d) = "saved" => outcome[d] = "saved"
  BY DEF PollAnswer, Live
<1>4. outcome[d] = "saved" /\ d # 0 => key >= d
  BY DEF IInv, OutcomeInv
<1> HIDE DEF PollAnswer
<1>5. PollInv'
  BY <1>1, <1>2, <1>3, <1>4 DEF IInv, PollInv, Live
<1>6. OutcomeInv'
  BY <1>1, <1>2 DEF IInv, OutcomeInv, Live, Started
<1>7. DrawerInv' /\ StartInv' /\ CancelInv' /\ ToldTruth'
  BY <1>1 DEF IInv, DrawerInv, StartInv, CancelInv, ToldTruth, Live
<1> QED BY <1>5, <1>6, <1>7 DEF IInv

-----------------------------------------------------------------------------
(* The theorems.                                                           *)

LEMMA Initially == Init => IInv
<1> SUFFICES ASSUME Init PROVE IInv
  OBVIOUS
<1>1. /\ ui.active = FALSE /\ ui.auth = 0 /\ ui.told = 0 /\ cancel.pc = "none" /\ cancel.oldAuth = 0
      /\ startReq.st = "none" /\ startReq.dev = 0 /\ startReq.cookie = 0
      /\ poller.pc = "off" /\ poller.cookie = 0 /\ poller.answer = "none"
  BY DEF Init, NoCancellation, PollerOff, NoStart
<1>2. /\ outcome = [d \in Devices |-> "none"] /\ workers = {} /\ key = 0 /\ cookie = 0
  BY DEF Init
<1> QED BY <1>1, <1>2 DEF IInv, DrawerInv, StartInv, CancelInv, PollInv, OutcomeInv, ToldTruth, Live,
              Started

LEMMA Stays == TypeOK /\ IInv /\ [Next]_vars => IInv'
<1> SUFFICES ASSUME TypeOK, IInv, [Next]_vars PROVE IInv'
  OBVIOUS
<1>1. CASE UNCHANGED vars
  BY <1>1 DEF vars, IInv, DrawerInv, StartInv, CancelInv, PollInv, OutcomeInv, ToldTruth, Live, Started
<1>2. CASE UserStep \/ SendCancel \/ AnswerCancel \/ Settle
  BY <1>2, UserStepInv, SendCancelInv, AnswerCancelInv, SettleInv
<1>3. CASE ServeStart \/ StartAnswered
  BY <1>3, ServeStartInv, StartAnsweredInv
<1>4. CASE PollEffect \/ SendPoll \/ PollHeard \/ PollLost \/ PollCompleted \/ ExpiryTimer
  BY <1>4, PollEffectInv, SendPollInv, PollHeardInv, PollLostInv, PollCompletedInv, ExpiryTimerInv
<1>5. ASSUME NEW d \in Devices, ServeAuthorized(d) \/ Expire(d) PROVE IInv'
  BY <1>5, ServeAuthorizedInv, ExpireInv
<1>6. ASSUME NEW d \in Devices \cup {0}, ServePoll(d) PROVE IInv'
  BY <1>6, ServePollInv
<1> QED BY <1>1, <1>2, <1>3, <1>4, <1>5, <1>6 DEF Next

\* The strengthened invariant of every execution.
THEOREM Inductive == Spec => []IInv
BY TypeCorrect, Initially, Stays, PTL DEF Spec

\* When the dialog has closed, the attempt the session's cookie names is not open,
\* whatever starts, polls and cancellations the user has left behind.
THEOREM ClosedLeavesNothingOpen == Spec => []NothingLeftOpen
<1>1. IInv => NothingLeftOpen
  BY DEF IInv, DrawerInv, CancelInv, NothingLeftOpen, Live
<1> QED BY <1>1, Inductive, PTL

\* The user is told of a new credential only when the attempt on the screen, or a
\* later one, has put it there.
THEOREM ToldTheTruth == Spec => []ToldTruth
<1>1. IInv => ToldTruth
  BY DEF IInv
<1> QED BY <1>1, Inductive, PTL

-----------------------------------------------------------------------------
(* The attempt that can still be saved is the one on the screen.           *)

\* A request is served for an open attempt only while the drawer holds it or a
\* cancellation will restore it; a start that is in flight has nothing open
\* behind it, and is no longer the drawer's attempt when a cancellation waits for it.
ScreenInv == /\ \A d \in workers : Live(d) => d = ui.auth
             /\ cancel.pc # "none" => cancel.oldAuth = ui.auth
             /\ startReq.st # "none" => starter.pc = "start" /\ ~Live(startReq.cookie)
             /\ cancel.pc = "await" => startReq.st # "none" /\ ui.attempt # starter.attempt

LEMMA ScreenCalled ==
    ASSUME ScreenInv, NEW told, Called(told), UNCHANGED <<startReq, outcome, workers>>,
           UNCHANGED starter \/ startReq.st = "none"
    PROVE  ScreenInv'
BY DEF ScreenInv, Called, Live

\* No attempt is opened for the requests that are served.
LEMMA ScreenKept ==
    ASSUME ScreenInv, ui'.auth = ui.auth, ui'.attempt = ui.attempt, UNCHANGED <<starter, cancel>>,
           startReq'.st # "none" => startReq.st # "none", startReq'.cookie = startReq.cookie,
           startReq.st # "none" => startReq'.st # "none",
           Live(startReq.cookie)' => Live(startReq.cookie),
           \A d \in workers' : Live(d)' => d \in workers /\ Live(d)
    PROVE  ScreenInv'
BY DEF ScreenInv, Live

LEMMA ScreenUser ==
    ASSUME TypeOK, IInv, ScreenInv, UserStep
    PROVE  ScreenInv'
<1>1. CASE OpenDrawer
  <2>1. /\ ui'.auth = ui.auth /\ ui'.attempt = ui.attempt
        /\ UNCHANGED <<starter, cancel, startReq, outcome, workers>>
    BY <1>1 DEF OpenDrawer, server, TypeOK, Ui
  <2> QED BY <2>1 DEF ScreenInv, Live
<1>2. CASE ClickStart \/ CloseDialog \/ CloseDrawer
  <2>1. /\ Called(ui.told) /\ UNCHANGED <<startReq, outcome, workers>>
        /\ UNCHANGED starter \/ starter.pc = "idle"
    BY <1>2, ClickStartCalls, CalledCleared, CloseDrawerCalls
       DEF ClickStart, CloseDialog, CloseDrawer, MayClickStart, server
  <2>2. starter.pc = "idle" => startReq.st = "none"
    BY DEF ScreenInv
  <2> QED BY <2>1, <2>2, ScreenCalled
<1> QED BY <1>1, <1>2 DEF UserStep

LEMMA ScreenCancel ==
    ASSUME TypeOK, IInv, ScreenInv, SendCancel \/ AnswerCancel
    PROVE  ScreenInv'
<1>1. /\ UNCHANGED <<ui, starter, startReq, workers>>
      /\ cancel.pc # "none" /\ cancel'.pc \in {"sent", "settled"} /\ cancel'.oldAuth = cancel.oldAuth
  BY DEF SendCancel, AnswerCancel, server, TypeOK, Cancellation
<1>2. \A e \in Devices : outcome'[e] = "open" => outcome[e] = "open"
  BY DEF SendCancel, AnswerCancel, server, TypeOK
<1>3. workers \subseteq Devices /\ (startReq.cookie # 0 => startReq.cookie \in Devices)
  BY DEF TypeOK, StartRequest, Devices
<1> QED BY <1>1, <1>2, <1>3 DEF ScreenInv, Live

\* Nothing is open behind a confirmed cancellation; one that has failed leaves the
\* device where it was.
LEMMA ScreenSettle ==
    ASSUME TypeOK, IInv, ScreenInv, Settle
    PROVE  ScreenInv'
<1>1. /\ cancel.pc = "settled" /\ startReq.st = "none" /\ cancel.oldAuth = ui.auth
      /\ cancel.ok => ~Live(cookie) /\ \A d \in workers : ~Live(d)
  BY DEF Settle, IInv, StartInv, CancelInv, OutcomeInv, ScreenInv
<1>2. UNCHANGED <<outcome, workers>> /\ cancel'.pc = "none"
  BY Settling DEF server, NoCancellation
<1>3. \/ /\ cancel.ok /\ starter'.pc = "start" /\ startReq'.cookie = cookie
      \/ /\ cancel.ok /\ UNCHANGED startReq
      \/ /\ ~cancel.ok /\ ui'.auth = cancel.oldAuth /\ UNCHANGED startReq
  BY Settling
<1> QED BY <1>1, <1>2, <1>3 DEF ScreenInv, Live

LEMMA ScreenServeStart ==
    ASSUME TypeOK, IInv, ScreenInv, ServeStart
    PROVE  ScreenInv'
<1>1. /\ UNCHANGED <<ui, starter, cancel, workers>> /\ startReq'.cookie = startReq.cookie
      /\ startReq.st = "sent" /\ startReq'.st = "answered"
  BY StartServed
<1>2. \A e \in workers \cup {startReq.cookie} : Live(e)' => Live(e)
  <2>1. /\ workers \subseteq Devices /\ (startReq.cookie # 0 => startReq.cookie \in Devices)
        /\ \A e \in workers \cup {startReq.cookie} : Started(e)
    BY DEF TypeOK, StartRequest, Devices, IInv, OutcomeInv
  <2>2. CASE UNCHANGED outcome
    BY <2>2 DEF Live
  <2>3. ASSUME NEW d \in Devices, outcome[d] = "none",
               outcome' = [e \in Devices |-> IF e = d THEN "open"
                                             ELSE IF e = startReq.cookie THEN "gone"
                                             ELSE outcome[e]]
        PROVE  \A e \in workers \cup {startReq.cookie} : Live(e)' => Live(e)
    BY <2>1, <2>3 DEF Live, Started
  <2> QED BY <2>2, <2>3, StartServed
<1> QED BY <1>1, <1>2, ScreenKept

\* A drawer that cancels is not the start's any more, and ignores its answer.
LEMMA ScreenStartAnswered ==
    ASSUME TypeOK, IInv, ScreenInv, StartAnswered
    PROVE  ScreenInv'
<1>1. startReq.st = "answered"
  BY DEF StartAnswered
<1>2. \A d \in workers : ~Live(d)
  BY <1>1 DEF IInv, StartInv, OutcomeInv, ScreenInv, Live
<1>3. UNCHANGED <<workers, outcome>> /\ startReq'.st = "none"
  BY DEF StartAnswered, server, NoStart
<1>4. cancel.pc # "none" => cancel.pc = "await" /\ UNCHANGED ui
  BY <1>1 DEF IInv, StartInv, ScreenInv, StartAnswered, SameAttempt
<1>5. /\ cancel'.oldAuth = cancel.oldAuth
      /\ cancel'.pc = IF cancel.pc = "await" THEN "request" ELSE cancel.pc
  BY DEF StartAnswered, TypeOK, Cancellation
<1> QED BY <1>2, <1>3, <1>4, <1>5 DEF ScreenInv, Live

\* The poller asks for the device on the screen.
LEMMA ScreenPoller ==
    ASSUME TypeOK, IInv, ScreenInv,
           PollEffect \/ SendPoll \/ PollHeard \/ PollLost \/ PollCompleted \/ ExpiryTimer
    PROVE  ScreenInv'
<1>1. UNCHANGED <<starter, startReq, outcome>>
  BY DEF PollEffect, SendPoll, PollHeard, PollLost, PollCompleted, ExpiryTimer, server
<1>2. CASE SendPoll
  <2>1. UNCHANGED <<ui, cancel>> /\ workers' = workers \cup ({cookie} \ {0})
    BY <1>2 DEF SendPoll
  <2>2. cookie \in {0, ui.auth}
    BY <1>2, OnScreen DEF SendPoll
  <2> QED BY <1>1, <2>1, <2>2 DEF ScreenInv, Live
<1>3. CASE ~SendPoll
  <2>1. UNCHANGED workers
    BY <1>3 DEF PollEffect, PollHeard, PollLost, PollCompleted, ExpiryTimer, server
  <2>2. \/ \E told \in {ui.told, ui.auth} : Called(told)
        \/ ui'.auth = ui.auth /\ ui'.attempt = ui.attempt /\ UNCHANGED cancel
    <3>1. CASE PollEffect
      <4>1. ui' = [ui EXCEPT !.flowError = FALSE] => ui'.auth = ui.auth /\ ui'.attempt = ui.attempt
        BY DEF TypeOK, Ui
      <4> QED BY <3>1, <4>1, Rendering
    <3>2. CASE PollHeard
      BY <3>2, CalledAsIs DEF PollHeard
    <3>3. CASE PollLost
      BY <3>3 DEF PollLost
    <3>4. CASE PollCompleted
      BY <3>4, CompletedCalls DEF PollCompleted
    <3>5. CASE ExpiryTimer
      BY <3>5, CalledAsIs DEF ExpiryTimer
    <3> QED BY <1>3, <3>1, <3>2, <3>3, <3>4, <3>5
  <2>3. CASE \E told \in {ui.told, ui.auth} : Called(told)
    BY <1>1, <2>1, <2>3, ScreenCalled
  <2>4. CASE ui'.auth = ui.auth /\ ui'.attempt = ui.attempt /\ UNCHANGED cancel
    BY <1>1, <2>1, <2>4 DEF ScreenInv, Live
  <2> QED BY <2>2, <2>3, <2>4
<1> QED BY <1>2, <1>3

LEMMA ScreenServer ==
    ASSUME TypeOK, IInv, ScreenInv, NEW d \in Devices \cup {0},
           (d \in Devices /\ (ServeAuthorized(d) \/ Expire(d))) \/ ServePoll(d)
    PROVE  ScreenInv'
<1>1. UNCHANGED <<ui, starter, cancel, startReq>> /\ workers' \subseteq workers
  BY DEF ServeAuthorized, Expire, ServePoll
<1>2. \A e \in Devices : outcome'[e] = "open" => outcome[e] = "open"
  BY DEF ServeAuthorized, Expire, ServePoll, TypeOK
<1>3. workers \subseteq Devices /\ (startReq.cookie # 0 => startReq.cookie \in Devices)
  BY DEF TypeOK, StartRequest, Devices
<1> QED BY <1>1, <1>2, <1>3 DEF ScreenInv, Live

LEMMA ScreenInit == Init => ScreenInv
BY DEF Init, NoCancellation, NoStart, ScreenInv

LEMMA ScreenStays == TypeOK /\ IInv /\ ScreenInv /\ [Next]_vars => ScreenInv'
<1> SUFFICES ASSUME TypeOK, IInv, ScreenInv, [Next]_vars PROVE ScreenInv'
  OBVIOUS
<1>1. CASE UNCHANGED vars
  BY <1>1 DEF vars, ScreenInv, Live
<1>2. ASSUME NEW d \in Devices, ServeAuthorized(d) \/ Expire(d) PROVE ScreenInv'
  <2>1. d \in Devices \cup {0}
    OBVIOUS
  <2>2. (d \in Devices /\ (ServeAuthorized(d) \/ Expire(d))) \/ ServePoll(d)
    BY <1>2
  <2> QED BY <2>1, <2>2, ScreenServer
<1>3. ASSUME NEW d \in Devices \cup {0}, ServePoll(d) PROVE ScreenInv'
  BY <1>3, ScreenServer
<1> QED BY <1>1, <1>2, <1>3, ScreenUser, ScreenCancel, ScreenSettle, ScreenServeStart,
           ScreenStartAnswered, ScreenPoller DEF Next

\* Whatever requests are still served, the attempt they can complete is the one
\* the drawer holds.
THEOREM OnlyTheScreenIsOpen == Spec => []ScreenInv
BY TypeCorrect, Inductive, ScreenInit, ScreenStays, PTL DEF Spec

\* Only the server's answer to an authorized poll replaces the credential: the
\* dialog is open then, and its device is that attempt, the newest that was saved.
LEMMA ReplacedInDialog ==
    ASSUME TypeOK, IInv, ScreenInv, [Next]_vars, key' # key
    PROVE  ui.dialog /\ key' = ui.auth /\ key' > key
<1>1. UNCHANGED key \/ \E d \in Devices : ServeAuthorized(d)
  BY DEF Next, UserStep, ClickStart, CloseDialog, CloseDrawer, OpenDrawer, SendCancel, AnswerCancel,
         Settle, ServeStart, StartAnswered, PollEffect, SendPoll, PollHeard, PollLost,
         PollCompleted, ExpiryTimer, Expire, ServePoll, server, vars
<1>2. PICK d \in Devices : ServeAuthorized(d)
  BY <1>1
<1>3. ui.dialog
  BY <1>2, ServeAuthorizedInv
<1>4. key' = d /\ d \in workers /\ Live(d) /\ key \in Nat /\ d \in Nat
  BY <1>2, BoundsAssumption DEF ServeAuthorized, Live, Devices, TypeOK
<1>5. d = ui.auth /\ key <= d
  BY <1>4 DEF IInv, OutcomeInv, ScreenInv, Live
<1> QED BY <1>3, <1>4, <1>5

\* The credential is replaced only while the dialog is open, be it that its
\* cancellation is still to be confirmed, by the attempt the drawer holds, and never
\* by an older one.
THEOREM OnlyReplacedWatched == Spec => ReplacedOnlyWatched
<1>1. TypeOK /\ IInv /\ ScreenInv /\ [Next]_vars
         => [key' # key => ui.dialog /\ key' = ui.auth /\ key' > key]_vars
  BY ReplacedInDialog
<1> QED BY <1>1, TypeCorrect, Inductive, OnlyTheScreenIsOpen, PTL DEF Spec, ReplacedOnlyWatched

=============================================================================
