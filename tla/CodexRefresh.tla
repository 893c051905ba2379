---------------------------- MODULE CodexRefresh ----------------------------
(***************************************************************************)
(* Refreshing the OAuth credential of one Codex channel                    *)
(* (service/codex_credential_refresh.go) over its row in channels and its  *)
(* row "codex:refresh:v2:<id>" in codex_oauth_operations.                  *)
(*                                                                         *)
(* A refresh token can be spent once: upstream answers with a new one.     *)
(* The rotation cannot be atomic with the database, so a call first claims *)
(* the operation row (owner, fence and lease), marks it upstream_started,  *)
(* sends the token, saves the answer in the row and only then replaces the *)
(* channel's key.  Calls run on any node, stall between any two statements *)
(* and may stop there; a later call takes the row over or fails closed.    *)
(* Each call of this module is the leader of its node's singleflight.      *)
(* A credential is a number, fresh for every key that ever existed, and    *)
(* stands for the generation (access token, refresh token, last refresh).  *)
(***************************************************************************)
EXTENDS Integers

CONSTANTS Calls,      \* refresh calls: each makes one attempt
          MaxToken,   \* bound on the credentials that ever exist
          MaxTime,    \* bound on the clock
          LeaseTTL,   \* codexCredentialRefreshLeaseTTL
          OpTTL,      \* codexCredentialRefreshOperationTTL
          Freshness,  \* codexCredentialRefreshFreshnessWindow
          None        \* no owner

ASSUME TimeAssumption == /\ MaxTime \in Nat /\ LeaseTTL \in Nat \ {0}
                         /\ OpTTL \in Nat /\ LeaseTTL < OpTTL /\ Freshness \in Nat
ASSUME TokenAssumption == MaxToken \in Nat \ {0}
ASSUME NoneAssumption == None \notin Calls

VARIABLES
    now,      \* the clock of every node and of the database
    chan,     \* channels: the key, its last_refresh and its recorded failure
    op,       \* codex_oauth_operations: the refresh row of the channel
    call,     \* the locals of each call
    last,     \* number of the newest credential
    parent,   \* upstream: the credential each one was rotated from, or 0
    exposed,  \* history: expiry of the operation a token was sent under
    rotated,  \* history: the same, of the key's token if it was rotated and no error hid it
    stray     \* history: the recorded failure was written without a look at the key

History == <<exposed, rotated, stray>>

vars == <<now, chan, op, call, last, parent, exposed, rotated, stray>>

Tokens == 1..MaxToken

\* bad is the credential whose failure the health record holds, 0 for none.
Channel == [token : Tokens, at : Int, bad : 0..MaxToken]

Operation == [status : {"none", "exchanging", "pending", "completed", "uncertain"},
              stage : {"pending", "started", "exchanged", "saved"},
              owner : Calls \cup {None}, fence : Nat, lease : Nat, expires : Nat,
              gen : 0..MaxToken, payload : 0..MaxToken, failed : BOOLEAN]

\* The table holds no row.
NoOperation == [status |-> "none", stage |-> "pending", owner |-> None,
                fence |-> 0, lease |-> 0, expires |-> 0, gen |-> 0,
                payload |-> 0, failed |-> FALSE]

(***************************************************************************)
(* A call: tok is the generation it observed, at the time it captured      *)
(* before it claimed, fence and expires its copy of the claim, got the     *)
(* credential it holds to commit.                                          *)
(***************************************************************************)
CallPc == {"idle", "claim", "start", "send", "persist", "commit", "release",
           "terminal", "uncertain", "record", "done"}

Call == [pc : CallPc, tok : 0..MaxToken, at : Nat,
         fence : Nat, expires : Nat, got : 0..MaxToken]

NewCall == [pc |-> "idle", tok |-> 0, at |-> 0, fence |-> 0,
            expires |-> 0, got |-> 0]

Init == /\ now = 0
        /\ chan = [token |-> 1, at |-> -Freshness, bad |-> 0]
        /\ op = NoOperation
        /\ call = [c \in Calls |-> NewCall]
        /\ last = 1
        /\ parent = [t \in Tokens |-> 0]
        /\ exposed = [t \in Tokens |-> 0]
        /\ rotated = 0
        /\ stray = FALSE

-----------------------------------------------------------------------------
(* Helpers.                                                                *)

\* codexCredentialRecentlyRefreshed, for a call that captured the time at.
RecentlyRefreshed(at) == chan.at <= at /\ at - chan.at < Freshness

\* Mutant: the row is recognised by its fence alone, which starts again at 1
\* when the row was deleted.
OwnsByFence(c) == /\ op.status # "none"
                  /\ op.fence = call[c].fence

\* The WHERE clause all writes of a claim share: owner and fence.
Owns(c) == /\ op.status # "none"
           /\ op.owner = c
           /\ op.fence = call[c].fence

\* The row a claim inserts: fence 1, or one more than the row it replaces.
NewOperation(c) ==
    [status |-> "exchanging", stage |-> "pending", owner |-> c,
     fence |-> op.fence + 1, lease |-> call[c].at + LeaseTTL,
     expires |-> call[c].at + OpTTL, gen |-> chan.token,
     payload |-> 0, failed |-> FALSE]

\* Mutant: an unknown outcome is put back for another attempt.
PutBack == [op EXCEPT !.status = "pending", !.stage = "pending",
                      !.owner = None, !.lease = 0]

\* What markCodexCredentialRefreshUncertain and a claim write to give up.
Fenced == [op EXCEPT !.status = "uncertain", !.owner = None, !.lease = 0,
                     !.failed = TRUE]

Goto(c, pc) == call' = [call EXCEPT ![c].pc = pc]

\* What remains of a call that has failed, and of one that has returned.
Failed(c) == call' = [call EXCEPT ![c] = [NewCall EXCEPT !.pc = "record", !.tok = call[c].tok]]

Return(c) == call' = [call EXCEPT ![c] = [NewCall EXCEPT !.pc = "done"]]

\* A new credential, rotated from t (0: obtained in another way).
Issue(t) == /\ last < MaxToken
            /\ last' = last + 1
            /\ parent' = [parent EXCEPT ![last + 1] = t]

-----------------------------------------------------------------------------
(* One call of refreshCodexChannelCredential.                              *)

\* Reads the generation, enters the singleflight and captures the time.
Observe(c) == /\ call[c].pc = "idle"
              /\ call' = [call EXCEPT ![c].pc = "claim", ![c].tok = chan.token,
                                      ![c].at = now]
              /\ UNCHANGED <<now, chan, op, last, parent, History>>

\* The credential was replaced or refreshed meanwhile: it is the answer.
ClaimCurrent(c) == /\ call[c].pc = "claim"
                   /\ chan.token # call[c].tok \/ RecentlyRefreshed(call[c].at)
                   /\ Return(c)
                   /\ UNCHANGED <<now, chan, op, last, parent, History>>

Claiming(c) == /\ call[c].pc = "claim"
               /\ chan.token = call[c].tok
               /\ ~RecentlyRefreshed(call[c].at)
               /\ UNCHANGED <<now, chan, last, parent, History>>

\* A failure that was recorded as final, and an unknown outcome, stay.
ClaimRefused(c) ==
    /\ Claiming(c)
    /\ \/ op.status = "completed" /\ op.failed /\ Return(c)
       \/ op.status = "uncertain" /\ Failed(c)
    /\ UNCHANGED op

Active == op.status \in {"exchanging", "pending"}

Live(c) == Active /\ op.expires > call[c].at

\* There is no row, it has served, or its day is over.
ClaimNew(c) ==
    /\ Claiming(c)
    /\ \/ op.status = "none"
       \/ op.status = "completed" /\ ~op.failed
       \/ Active /\ ~Live(c)
    /\ op' = NewOperation(c)
    /\ call' = [call EXCEPT ![c].pc = "start", ![c].fence = op.fence + 1,
                            ![c].expires = call[c].at + OpTTL]

ClaimInProgress(c) ==
    /\ Claiming(c)
    /\ Live(c)
    /\ op.lease > call[c].at
    /\ Return(c)
    /\ UNCHANGED op

\* Mutant: a claim whose holder is gone is taken over at any stage.
NeverLost(c) == FALSE

\* The lease ran out on a call that may have reached upstream.
LostUpstream(c) == Live(c) /\ op.lease <= call[c].at /\ op.stage = "started"

ClaimUncertain(c) ==
    /\ Claiming(c)
    /\ LostUpstream(c)
    /\ op' = Fenced
    /\ Failed(c)

\* openCodexOAuthPayload of the row a claim takes over.
Recovered == IF op.stage = "exchanged" THEN op.payload ELSE 0

\* The lease ran out before upstream was asked, or after its answer was
\* saved.  The row keeps the generation it was created for.
ClaimTakeover(c) ==
    /\ Claiming(c)
    /\ Live(c)
    /\ op.lease <= call[c].at
    /\ ~LostUpstream(c)
    /\ op' = [op EXCEPT !.status = "exchanging", !.owner = c, !.fence = op.fence + 1,
                        !.lease = call[c].at + LeaseTTL]
    /\ call' = [call EXCEPT ![c].pc = IF op.stage = "exchanged" THEN "commit" ELSE "start",
                            ![c].fence = op.fence + 1, ![c].expires = op.expires,
                            ![c].got = Recovered]

Claim(c) == \/ ClaimCurrent(c) \/ ClaimRefused(c) \/ ClaimNew(c)
            \/ ClaimInProgress(c) \/ ClaimUncertain(c) \/ ClaimTakeover(c)

\* markCodexCredentialRefreshStarted: a claim that is no longer the row's ends.
MarkStarted(c) ==
    /\ call[c].pc = "start"
    /\ IF Owns(c) /\ op.expires > call[c].at
       THEN /\ op' = [op EXCEPT !.stage = "started", !.lease = call[c].at + LeaseTTL]
            /\ Goto(c, "send")
       ELSE Return(c) /\ UNCHANGED op
    /\ UNCHANGED <<now, chan, last, parent, History>>

Expose(c) == exposed' = [exposed EXCEPT ![call[c].tok] = call[c].expires]

Spent(t) == \E u \in Tokens : parent[u] = t

\* Upstream rotates the token; its answer arrives, is lost (a timeout, a broken
\* connection, an unreadable body), or comes as an error: a gateway's 502 or any
\* other status but a 2xx is taken for a refusal.
UpstreamRotates(c) ==
    /\ call[c].pc = "send"
    /\ ~Spent(call[c].tok)
    /\ Issue(call[c].tok)
    /\ Expose(c)
    /\ \/ /\ \/ call' = [call EXCEPT ![c].pc = "persist", ![c].got = last + 1]
             \/ Goto(c, "uncertain")
          /\ rotated' = IF call[c].tok = chan.token THEN call[c].expires ELSE rotated
       \/ /\ Goto(c, "release") \/ Goto(c, "terminal")
          /\ UNCHANGED rotated
    /\ UNCHANGED <<now, chan, op, stray>>

\* Upstream answers with an error and rotates nothing: a final one (4xx) or a
\* passing one (429, 5xx).  Or the request never arrives.
UpstreamRefuses(c) ==
    /\ call[c].pc = "send"
    /\ Goto(c, "terminal") \/ Goto(c, "release") \/ Goto(c, "uncertain")
    /\ Expose(c)
    /\ UNCHANGED <<now, chan, op, last, parent, rotated, stray>>

\* releaseCodexCredentialRefresh.  A passing error allows another attempt.
Release(c) ==
    /\ call[c].pc \in {"release", "terminal"}
    /\ op' = IF Owns(c)
             THEN [op EXCEPT !.status = IF call[c].pc = "terminal" THEN "completed" ELSE "pending",
                             !.stage = "pending", !.owner = None, !.lease = 0,
                             !.failed = call[c].pc = "terminal"]
             ELSE op
    /\ exposed' = IF Owns(c) /\ call[c].pc = "release"
                     /\ exposed[call[c].tok] = call[c].expires
                  THEN [exposed EXCEPT ![call[c].tok] = 0]
                  ELSE exposed
    /\ Failed(c)
    /\ UNCHANGED <<now, chan, last, parent, rotated, stray>>

\* markCodexCredentialRefreshUncertain.
MarkUncertain(c) ==
    /\ call[c].pc = "uncertain"
    /\ op' = IF Owns(c) /\ op.stage = "started" THEN Fenced ELSE op
    /\ Failed(c)
    /\ UNCHANGED <<now, chan, last, parent, History>>

\* Mutant: the failure is recorded on whatever key the channel has now.
RecordOnAny(c) ==
    /\ call[c].pc = "record"
    /\ \/ chan' = [chan EXCEPT !.bad = call[c].tok] /\ stray' = FALSE
       \/ UNCHANGED <<chan, stray>>
    /\ Return(c)
    /\ UNCHANGED <<now, op, last, parent, exposed, rotated>>

\* recordCodexCredentialRefreshFailure: marks the credential the call used,
\* if it is still the channel's and the failure is about the credential.
RecordFailure(c) ==
    /\ call[c].pc = "record"
    /\ \/ /\ chan.token = call[c].tok
          /\ chan' = [chan EXCEPT !.bad = call[c].tok] /\ stray' = FALSE
       \/ UNCHANGED <<chan, stray>>
    /\ Return(c)
    /\ UNCHANGED <<now, op, last, parent, exposed, rotated>>

\* persistCodexCredentialRefreshResult; a write that fails or finds the row
\* in other hands leaves the outcome unknown.
PersistResult(c) ==
    /\ call[c].pc = "persist"
    /\ \/ /\ Owns(c) /\ op.expires > call[c].at
          /\ op' = [op EXCEPT !.stage = "exchanged", !.payload = call[c].got,
                              !.lease = call[c].at + LeaseTTL]
          /\ Goto(c, "commit")
       \/ Goto(c, "uncertain") /\ UNCHANGED op
    /\ UNCHANGED <<now, chan, last, parent, History>>

\* Mutant: the key is replaced whatever it has become since the claim.
AnyGeneration == TRUE

\* The channel still has the credential the operation was created for.
SameGeneration == op.gen = chan.token

\* commitCodexCredentialRefresh, one transaction with both rows locked.
\* A key that was replaced meanwhile wins over the refreshed one.
Commit(c) ==
    /\ call[c].pc = "commit"
    /\ Return(c)
    /\ IF Owns(c) /\ op.expires > now /\ op.stage = "exchanged" /\ op.lease > now
       THEN /\ op' = [op EXCEPT !.status = "completed", !.stage = "saved",
                                !.owner = None, !.lease = 0, !.payload = 0,
                                !.failed = ~SameGeneration]
            /\ IF SameGeneration
               THEN /\ chan' = [token |-> call[c].got, at |-> call[c].at, bad |-> 0]
                    /\ rotated' = 0 /\ stray' = FALSE
               ELSE UNCHANGED <<chan, rotated, stray>>
       ELSE UNCHANGED <<op, chan, rotated, stray>>
    /\ UNCHANGED <<now, last, parent, exposed>>

\* The process stops, or a statement fails and the call returns its error.
Stop(c) == /\ call[c].pc \notin {"idle", "done"}
           /\ Return(c)
           /\ UNCHANGED <<now, chan, op, last, parent, History>>

-----------------------------------------------------------------------------
(* The others who write the channel's key or its health, and the clock.    *)

\* UpdateChannel with a new key: the operation row is left as it is.  The
\* health record comes with the settings of the form.
EditKey == /\ Issue(0)
           /\ chan' \in {[token |-> last + 1, at |-> -Freshness, bad |-> b] : b \in {0, chan.bad}}
           /\ rotated' = 0 /\ stray' = (chan'.bad # 0)
           /\ UNCHANGED <<now, op, call, exposed>>

\* commitCredential of a device authorization: deletes the operation row.
Regenerate == /\ Issue(0)
              /\ chan' = [token |-> last + 1, at |-> now, bad |-> 0]
              /\ op' = NoOperation
              /\ rotated' = 0 /\ stray' = FALSE
              /\ UNCHANGED <<now, call, exposed>>

\* ProbeCodexChannelCredential and RecordCodexCredentialIssue, of a probe or a
\* relayed request that used the key as it read it, a while ago: they record what
\* they found whatever the key has become.  The first credential stands for all
\* that the channel has had before.
RecordIssue == /\ \E t \in {1, chan.token} : chan' \in {[chan EXCEPT !.bad = b] : b \in {0, t}}
               /\ stray' = (chan'.bad \notin {0, chan.token})
               /\ UNCHANGED <<now, op, call, last, parent, exposed, rotated>>

Tick == /\ now < MaxTime
        /\ now' = now + 1
        /\ UNCHANGED <<chan, op, call, last, parent, History>>

Next == \/ \E c \in Calls : \/ Observe(c) \/ Claim(c) \/ MarkStarted(c)
                            \/ UpstreamRotates(c) \/ UpstreamRefuses(c)
                            \/ Release(c) \/ MarkUncertain(c) \/ RecordFailure(c)
                            \/ PersistResult(c) \/ Commit(c) \/ Stop(c)
        \/ EditKey \/ Regenerate \/ RecordIssue \/ Tick

Spec == Init /\ [][Next]_vars

-----------------------------------------------------------------------------
(* Properties.                                                             *)

\* Both rows and the locals of every call have the columns' types.
TypeOK == /\ now \in Nat
          /\ chan \in Channel
          /\ op \in Operation
          /\ call \in [Calls -> Call]
          /\ last \in Tokens
          /\ parent \in [Tokens -> 0..MaxToken]
          /\ exposed \in [Tokens -> Nat] /\ rotated \in Nat /\ stray \in BOOLEAN

\* A call about to send a refresh token knows that nobody else has sent it
\* without hearing that it was refused, as long as the operation that token
\* was sent under and its own operation live: takeovers, stalled calls and
\* lost answers included (the fence around upstream_started).
SentOnce == \A c \in Calls :
    call[c].pc = "send" => LET t == call[c].tok IN
        \/ exposed[t] = 0
        \/ exposed[t] <= now
        \/ call[c].expires <= now

\* When upstream has rotated the channel's credential, and its answer was the new
\* one or none at all, its successor is about to be saved, is saved in the row, or
\* the row refuses every further refresh until the credential is regenerated; as
\* long as the operation lasts.  A crash between any two steps loses nothing
\* silently.  A rotation that hides behind an error answer is lost: the row is
\* released, and the old token is sent again.
RotationFenced ==
    rotated > now =>
        \/ Active /\ op.stage \in {"started", "exchanged"}
        \/ op.status = "uncertain"
        \/ op.status = "completed" /\ op.failed

\* The key is only ever replaced by a new one or by the successor upstream
\* gave for this very key: a refresh that comes late never undoes a key an
\* administrator or a regeneration has put there.
SuccessorOnly ==
    [][chan'.token # chan.token =>
          \/ chan'.token = last' /\ last' # last
          \/ parent[chan'.token] = chan.token]_vars

\* The failure on record is of the credential in the key, however late a refresh
\* comes to know that it failed, unless one that does not look has written it: a
\* probe, a relayed request, or the form of an administrator who changed the key.
FailureMarksOwn == chan.bad \in {0, chan.token} \/ stray
=============================================================================
