----------------------------- MODULE CodexDevice -----------------------------
(***************************************************************************)
(* One device authorization of a Codex channel on the server               *)
(* (service/codex_oauth.go, controller/codex_oauth.go): its row in         *)
(* codex_oauth_operations, the poll requests that drive it, its            *)
(* cancellation and the newer attempt that deletes it.                     *)
(*                                                                         *)
(* Nothing runs in the background: each poll request claims the row (owner,*)
(* fence, lease) and runs the attempt from its stage as far as it comes.   *)
(* Requests run on any node, stall between any two statements, and may be  *)
(* cut off there.  A lease is renewed while upstream is asked.             *)
(***************************************************************************)
EXTENDS Integers

CONSTANTS Polls,     \* poll requests
          LeaseTTL,  \* codexDeviceLeaseTTL
          ExpiresAt, \* expiry of the attempt, from upstream
          MaxTime,   \* bound on the clock
          MaxFence,  \* bound on the claims and cancellations
          None       \* no owner

ASSUME DeviceAssumption == /\ LeaseTTL \in Nat \ {0} /\ ExpiresAt \in Nat
                           /\ MaxTime \in Nat /\ MaxFence \in Nat
                           /\ None \notin Polls

VARIABLES now,        \* the clock of every node
          rec,        \* the row of the attempt
          poll,       \* the locals of each poll request
          exchanges,  \* upstream: times the one-time code was sent
          replaced    \* channels: the key came from this attempt

vars == <<now, rec, poll, exchanges, replaced>>

Stages == {"pending", "polled", "exchange_started", "exchanged", "saved"}

\* next is next_attempt_at, failed a completed row with an error message.
Record == [status : {"gone", "pending", "exchanging", "completed", "cancelled", "uncertain"},
           stage : Stages, owner : Polls \cup {None}, fence : Nat,
           lease : Nat, next : Nat, failed : BOOLEAN]

PollPc == {"idle", "claim", "wait", "ask", "code", "begin", "exchange", "keep",
           "save", "unknown", "fail", "release", "backoff", "reread", "done"}

\* at is the time the request captured before its claim; fence its copy of
\* the row's, read again after each advance; then what follows that read.
Poll == [pc : PollPc, at : Nat, fence : Nat, exchanging : BOOLEAN]

NewPoll == [pc |-> "idle", at |-> 0, fence |-> 0, exchanging |-> FALSE]

\* RegisterCodexDeviceAuthorization.
Init == /\ now = 0
        /\ rec = [status |-> "pending", stage |-> "pending", owner |-> None,
                  fence |-> 0, lease |-> 0, next |-> 0, failed |-> FALSE]
        /\ poll = [p \in Polls |-> NewPoll]
        /\ exchanges = 0
        /\ replaced = FALSE

-----------------------------------------------------------------------------
(* Helpers.                                                                *)

Expired(t) == ExpiresAt <= t

\* Mutant: a claim is recognised by its fence, which the request has read
\* again, and not by its owner.
HoldsFence(p) == rec.status = "exchanging" /\ rec.fence = poll[p].fence

\* The WHERE clause of every write of a request.
Holds(p) == /\ rec.status = "exchanging"
            /\ rec.owner = p
            /\ rec.fence = poll[p].fence

Goto(p, pc) == poll' = [poll EXCEPT ![p].pc = pc]

\* The case of Run's switch a stage selects.
CaseOf(stage) == CASE stage = "pending" -> "ask"
                   [] stage = "polled" -> "begin"
                   [] stage = "exchange_started" -> "unknown"
                   [] stage = "exchanged" -> "save"
                   [] stage = "saved" -> "done"

\* The row is left without a holder.
Free(status) == [rec EXCEPT !.status = status, !.owner = None, !.lease = 0]

-----------------------------------------------------------------------------
(* codexDeviceAuthorizationRunner.Run.                                     *)

Receive(p) == /\ poll[p].pc = "idle"
              /\ poll' = [poll EXCEPT ![p].pc = "claim", ![p].at = now]
              /\ UNCHANGED <<now, rec, exchanges, replaced>>

\* The holder was lost between the exchange and the write of its result.
InDoubt(p) == /\ rec.status = "exchanging"
              /\ rec.stage = "exchange_started"
              /\ rec.lease <= poll[p].at

Claimable(p) == /\ rec.next <= poll[p].at
                /\ \/ rec.status = "pending"
                   \/ rec.status = "exchanging" /\ rec.lease <= poll[p].at

\* Claim, one transaction with the row locked.
Claim(p) ==
    /\ poll[p].pc = "claim"
    /\ \/ /\ InDoubt(p)
          /\ rec' = Free("uncertain")
          /\ Goto(p, "done")
       \/ /\ ~InDoubt(p)
          /\ ~Expired(poll[p].at) /\ Claimable(p)
          /\ rec.fence < MaxFence
          /\ rec' = [rec EXCEPT !.status = "exchanging", !.owner = p,
                                !.fence = rec.fence + 1, !.lease = poll[p].at + LeaseTTL]
          /\ poll' = [poll EXCEPT ![p].pc = CaseOf(rec.stage), ![p].fence = rec.fence + 1]
       \/ /\ ~InDoubt(p)
          /\ Expired(poll[p].at) \/ ~Claimable(p)
          /\ Goto(p, IF ~Expired(poll[p].at) /\ rec.status = "exchanging" THEN "wait" ELSE "done")
          /\ UNCHANGED rec
    /\ UNCHANGED <<now, exchanges, replaced>>

\* waitForConclusion: another request holds the row.  When its lease has run
\* out the request claims again, otherwise it answers what it sees.
Wait(p) ==
    /\ poll[p].pc = "wait"
    /\ rec.status # "exchanging" \/ rec.lease <= now \/ Expired(now)
    /\ IF rec.status = "exchanging" /\ ~Expired(now)
       THEN poll' = [poll EXCEPT ![p].pc = "claim", ![p].at = now]
       ELSE Goto(p, "done")
    /\ UNCHANGED <<now, rec, exchanges, replaced>>

\* withRenewableLease: the goroutine beside a call to upstream.  It does not
\* look at the old lease; when the row is no longer the request's it cancels
\* the call.
Renew(p) == /\ poll[p].pc \in {"ask", "exchange"}
            /\ IF Holds(p) /\ ~Expired(now)
               THEN /\ rec' = [rec EXCEPT !.lease = now + LeaseTTL]
                    /\ UNCHANGED poll
               ELSE /\ Goto(p, IF poll[p].pc = "ask" THEN "backoff" ELSE "done")
                    /\ UNCHANGED rec
            /\ UNCHANGED <<now, exchanges, replaced>>

\* Upstream is asked: not yet authorized, a code, a passing or a final error.
AskUpstream(p) == /\ poll[p].pc = "ask"
                  /\ \E pc \in {"release", "code", "backoff", "fail"} : Goto(p, pc)
                  /\ UNCHANGED <<now, rec, exchanges, replaced>>

\* Advance, and what the request does when it finds the row in other hands.
\* The row is read again in a statement of its own.
Advance(p, stage) ==
    IF Holds(p) /\ ~Expired(now)
    THEN /\ rec' = [rec EXCEPT !.stage = stage, !.next = 0]
         /\ poll' = [poll EXCEPT ![p].pc = "reread",
                                 ![p].exchanging = stage = "exchange_started"]
    ELSE Goto(p, "done") /\ UNCHANGED rec

SaveCode(p) == /\ poll[p].pc = "code"
               /\ Advance(p, "polled")
               /\ UNCHANGED <<now, exchanges, replaced>>

BeginExchange(p) == /\ poll[p].pc = "begin"
                    /\ Advance(p, "exchange_started")
                    /\ UNCHANGED <<now, exchanges, replaced>>

\* store.Get after an advance: the fence and the stage may be another's.
Reread(p) ==
    /\ poll[p].pc = "reread"
    /\ IF rec.status = "gone" \/ (Expired(now) /\ rec.status # "uncertain")
       THEN Goto(p, "done")
       ELSE poll' = [poll EXCEPT
                ![p].pc = IF poll[p].exchanging THEN "exchange" ELSE CaseOf(rec.stage),
                ![p].fence = rec.fence, ![p].exchanging = FALSE]
    /\ UNCHANGED <<now, rec, exchanges, replaced>>

\* The one-time code is sent; a token comes back, or the outcome is unknown,
\* or the lease turns out to be lost.
Exchange(p) == /\ poll[p].pc = "exchange"
               /\ exchanges' = exchanges + 1
               /\ \E pc \in {"keep", "unknown", "done"} : Goto(p, pc)
               /\ UNCHANGED <<now, rec, replaced>>

\* The recovery write.  It may fail, after it has taken place or not.
KeepToken(p) == /\ poll[p].pc = "keep"
                /\ \/ Advance(p, "exchanged")
                   \/ /\ Goto(p, "unknown")
                      /\ rec' \in {rec} \cup IF Holds(p) /\ ~Expired(now)
                                           THEN {[rec EXCEPT !.stage = "exchanged", !.next = 0]}
                                           ELSE {}
                /\ UNCHANGED <<now, exchanges, replaced>>

\* Mutant: an unknown outcome is put back for the next poll.
RetryUnknown(p) == /\ poll[p].pc = "unknown"
                   /\ rec' = IF Holds(p) THEN Free("pending") ELSE rec
                   /\ Goto(p, "done")
                   /\ UNCHANGED <<now, exchanges, replaced>>

\* MarkUncertain.
MarkUncertain(p) == /\ poll[p].pc = "unknown"
                    /\ rec' = IF Holds(p) THEN Free("uncertain") ELSE rec
                    /\ Goto(p, "done")
                    /\ UNCHANGED <<now, exchanges, replaced>>

\* What commitCredential checks with the row and the channel locked.
MaySave(p) == /\ Holds(p)
              /\ rec.stage = "exchanged"
              /\ rec.lease > now
              /\ ~Expired(now)

\* commitCredential: the key, the deletion of the refresh operation and the
\* row in one transaction.  The token may not hold an account (a final
\* error).  When the transaction fails the request dies on the state it did
\* not get, and the row is held until its lease is over.
Save(p) == /\ poll[p].pc = "save"
           /\ \/ /\ MaySave(p)
                 /\ rec' = [Free("completed") EXCEPT !.stage = "saved"]
                 /\ replaced' = TRUE
                 /\ Goto(p, "done")
              \/ /\ ~MaySave(p)
                 /\ Goto(p, "done")
                 /\ UNCHANGED <<rec, replaced>>
              \/ /\ \E pc \in {"fail", "done"} : Goto(p, pc)
                 /\ UNCHANGED <<rec, replaced>>
           /\ UNCHANGED <<now, exchanges>>

\* Complete with an error message.
Fail(p) == /\ poll[p].pc = "fail"
           /\ rec' = IF Holds(p) /\ ~Expired(now)
                     THEN [Free("completed") EXCEPT !.failed = TRUE] ELSE rec
           /\ Goto(p, "done")
           /\ UNCHANGED <<now, exchanges, replaced>>

\* ReleasePending, at once or after a backoff.
Release(p) == /\ poll[p].pc \in {"release", "backoff"}
              /\ rec' = IF Holds(p) /\ ~Expired(now)
                        THEN [Free("pending") EXCEPT
                                 !.next = IF poll[p].pc = "backoff" THEN now + 1 ELSE 0]
                        ELSE rec
              /\ Goto(p, "done")
              /\ UNCHANGED <<now, exchanges, replaced>>

\* The process stops, or a statement fails and the request answers an error.
Stop(p) == /\ poll[p].pc \notin {"idle", "done"}
           /\ Goto(p, "done")
           /\ UNCHANGED <<now, rec, exchanges, replaced>>

-----------------------------------------------------------------------------
(* The other requests, and the clock.                                      *)

\* Cancel: what has concluded stays; anything else is fenced off.
Cancel == /\ rec.status \in {"pending", "exchanging", "cancelled"}
          /\ ~Expired(now)
          /\ rec.fence < MaxFence
          /\ rec' = [Free("cancelled") EXCEPT !.fence = rec.fence + 1]
          /\ UNCHANGED <<now, poll, exchanges, replaced>>

\* DeleteCodexDeviceAuthorization by a newer attempt of the session, or the
\* clean-up of expired rows in Create.
Delete == /\ rec.status # "gone"
          /\ rec' = Free("gone")
          /\ UNCHANGED <<now, poll, exchanges, replaced>>

Tick == /\ now < MaxTime
        /\ now' = now + 1
        /\ UNCHANGED <<rec, poll, exchanges, replaced>>

Next == \/ \E p \in Polls : \/ Receive(p) \/ Claim(p) \/ Wait(p) \/ Renew(p)
                            \/ AskUpstream(p) \/ SaveCode(p) \/ BeginExchange(p)
                            \/ Reread(p) \/ Exchange(p) \/ KeepToken(p)
                            \/ MarkUncertain(p) \/ Save(p) \/ Fail(p)
                            \/ Release(p) \/ Stop(p)
        \/ Cancel \/ Delete \/ Tick

Spec == Init /\ [][Next]_vars

-----------------------------------------------------------------------------
(* Properties.                                                             *)

\* The row and the locals of every request have the columns' types.
TypeOK == /\ now \in Nat
          /\ rec \in Record
          /\ poll \in [Polls -> Poll]
          /\ exchanges \in Nat
          /\ replaced \in BOOLEAN

\* While the code may have been exchanged and its result is not in the row,
\* the attempt cannot be picked up again: its stage stays exchange_started
\* with the one holder that sent the code, or it is in doubt or over.  A row
\* never goes back to a stage from which the code would be sent again.
NoSecondChance ==
    exchanges > 0 => /\ rec.stage \notin {"pending", "polled"}
                     /\ rec.status = "pending" => rec.stage = "exchanged"

\* The outcome the row records.
Outcome == CASE rec.status \in {"pending", "exchanging"} -> "open"
             [] rec.status = "completed" -> IF rec.failed THEN "failed" ELSE "saved"
             [] OTHER -> rec.status

Attempt == INSTANCE DeviceAttempt WITH outcome <- Outcome

\* The poll requests together keep what one attempt promises: the code is
\* exchanged once, one outcome, and only an open attempt replaces the key.
ImplementsAttempt == Attempt!Spec
=============================================================================
