--------------------------- MODULE BillingSession ---------------------------
(***************************************************************************)
(* The billing of relayed requests: BillingSession                         *)
(* (service/billing_session.go) over its two funding sources               *)
(* (service/funding_source.go), as the relay controllers drive it          *)
(* (controller/relay.go).                                                  *)
(*                                                                         *)
(* A request pre-consumes an estimate from its token and from the wallet   *)
(* or the subscription of its user, is relayed, and is then either settled *)
(* at its actual cost or refunded by a goroutine that outlives it, beside  *)
(* which a violation fee may be charged.  Every database statement is one  *)
(* step and may fail, changing nothing.  The requests of one user share a  *)
(* subscription.  What the statements did for a request is kept as history *)
(* in the fields wallet, sub and token.  A balance is no guard: "Wallet    *)
(* quota is accounting state, never an authorization decision", and the    *)
(* token check reads a cache of any age, so both of its outcomes are       *)
(* possible.  Attempts on several channels change no billing state.        *)
(***************************************************************************)
EXTENDS Integers

CONSTANTS Requests,
          Playground,   \* the requests that have no token to charge
          Forced,       \* those with ForcePreConsume: asynchronous tasks
          Estimates,    \* the quotas a request may pre-consume
          MaxQuota,     \* bound on the actual cost of a request
          Fee,          \* the violation fee
          SubTotal,     \* AmountTotal of the subscription; 0 would mean no limit
          MaxFail       \* bound on the statements that fail

ASSUME RequestsAssumption == Playground \subseteq Requests /\ Forced \subseteq Requests
ASSUME QuotasAssumption == /\ Estimates \subseteq Nat /\ MaxQuota \in Nat
                           /\ Fee \in Nat /\ SubTotal \in Nat \ {0} /\ MaxFail \in Nat

VARIABLES
    sess,     \* per request, its session and the history of its charges
    used,     \* AmountUsed of the subscription
    fails     \* number of statements that have failed

vars == <<sess, used, fails>>

Pc == {"new", "token", "fund", "rollback", "overflow", "rejected", "relay",
       "settle", "settleToken", "done", "fee", "feeToken", "failed"}

RefundPc == {"none", "funding", "mark", "token", "end"}

maxAttempts == 3

Session == [pc : Pc, src : {"none", "wallet", "sub"}, est : Nat,
            pre : Nat,          \* preConsumedQuota
            tok : Nat,          \* tokenConsumed
            fund : Nat,         \* WalletFunding.consumed, SubscriptionFunding.preConsumed
            actual : Nat, settled : BOOLEAN,
            refund : RefundPc, tries : 0..maxAttempts,
            record : {"none", "consumed", "refunded"},
            fee : Nat, feeToken : Nat,
            wallet : Int, sub : Int, token : Int, faulty : BOOLEAN]

New == [pc |-> "new", src |-> "none", est |-> 0, pre |-> 0, tok |-> 0, fund |-> 0,
        actual |-> 0, settled |-> FALSE, refund |-> "none", tries |-> 0,
        record |-> "none", fee |-> 0, feeToken |-> 0,
        wallet |-> 0, sub |-> 0, token |-> 0, faulty |-> FALSE]

Init == /\ sess = [q \in Requests |-> New]
        /\ used = 0
        /\ fails = 0

-----------------------------------------------------------------------------
(* Helpers.                                                                *)

\* What a change of n means for the token: playground requests have none.
TokenQuota(q, n) == IF q \in Playground THEN 0 ELSE n

\* The amount a session pre-consumes: a subscription always takes something.
Amount(s) == IF s.src = "sub" /\ s.est = 0 THEN 1 ELSE s.est

\* PostConsumeUserSubscriptionDelta never leaves AmountUsed negative, and
\* refuses to exceed the total.
NewUsed(delta) == IF used + delta < 0 THEN 0 ELSE used + delta

Fits(delta) == NewUsed(delta) <= SubTotal

Step(q, s) == sess' = [sess EXCEPT ![q] = s]

\* A statement on behalf of q fails, and the session goes on as s.
Fails(q, s) == /\ fails < MaxFail
               /\ fails' = fails + 1
               /\ Step(q, [s EXCEPT !.faulty = TRUE])
               /\ UNCHANGED used

\* tryWallet: with a trusted token nothing is pre-consumed.
TryWallet(q, s) ==
    \E trusted \in IF q \in Forced THEN {FALSE} ELSE BOOLEAN :
        Step(q, [s EXCEPT !.src = "wallet", !.tok = 0,
                          !.pc = IF trusted \/ s.est = 0 THEN "relay" ELSE "token"])

NeedsRefund(s) == /\ ~s.settled
                  /\ s.refund = "none"
                  /\ s.tok > 0 \/ (s.src = "sub" /\ s.fund > 0)

\* Mutant: one attempt too many.
RetriesOnceMore(s) ==
    [s EXCEPT !.tries = @ + 1,
              !.refund = IF s.tries < maxAttempts THEN "funding" ELSE "token"]

\* refundWithRetry after a failed attempt.
Retry(s) == [s EXCEPT !.tries = @ + 1,
                      !.refund = IF s.tries + 1 < maxAttempts THEN "funding" ELSE "token"]

-----------------------------------------------------------------------------
(* NewBillingSession and preConsume.                                       *)

\* The preference of the user and HasActiveUserSubscription choose the source.
NewBillingSession(q) ==
    /\ sess[q].pc = "new"
    /\ \E e \in Estimates :
         \/ TryWallet(q, [sess[q] EXCEPT !.est = e])
         \/ Step(q, [sess[q] EXCEPT !.est = e, !.src = "sub", !.pc = "token"])
    /\ UNCHANGED <<used, fails>>

\* PreConsumeTokenQuota: the token is charged, or the request rejected.
PreConsumeToken(q) ==
    LET s == sess[q]
    IN  /\ s.pc = "token"
        /\ \/ Step(q, [s EXCEPT !.pc = "fund", !.tok = Amount(s),
                                !.token = @ + TokenQuota(q, Amount(s))])
           \/ /\ q \notin Playground
              /\ Step(q, [s EXCEPT !.pc = "rejected"])
        /\ UNCHANGED <<used, fails>>

PreConsumeWallet(q) ==
    LET s == sess[q]
    IN  /\ s.pc = "fund" /\ s.src = "wallet"
        /\ \/ /\ Step(q, [s EXCEPT !.pc = "relay", !.fund = s.est, !.pre = s.est,
                                   !.wallet = @ + s.est])
              /\ UNCHANGED <<used, fails>>
           \/ Fails(q, [s EXCEPT !.pc = "rollback"])

\* Mutant: failing to read the plan after the transaction falls back, too.
FallBackAfterCharge(q) ==
    LET s == sess[q]
    IN  /\ s.pc = "fund" /\ s.src = "sub" /\ Fits(Amount(s))
        /\ used' = NewUsed(Amount(s))
        /\ Step(q, [s EXCEPT !.pc = "overflow", !.record = "consumed",
                             !.sub = @ + Amount(s)])
        /\ UNCHANGED fails

\* PreConsumeUserSubscription, one transaction.  The subscription may have
\* expired since HasActiveUserSubscription, so that there is none to use.
PreConsumeSubscription(q) ==
    LET s == sess[q]
    IN  /\ s.pc = "fund" /\ s.src = "sub"
        /\ \/ /\ Fits(Amount(s))
              /\ used' = NewUsed(Amount(s))
              /\ Step(q, [s EXCEPT !.pc = "relay", !.fund = Amount(s), !.pre = Amount(s),
                                   !.record = "consumed", !.sub = @ + Amount(s)])
              /\ UNCHANGED fails
           \/ /\ Step(q, [s EXCEPT !.pc = "overflow"])
              /\ UNCHANGED <<used, fails>>
           \/ Fails(q, [s EXCEPT !.pc = "rollback"])

\* After the rollback a subscription without quota falls back to the wallet,
\* any other error rejects the request.
AfterRollback(q, s) == \/ s.pc = "overflow" /\ TryWallet(q, s)
                       \/ s.pc = "rollback" /\ Step(q, [s EXCEPT !.pc = "rejected", !.tok = 0])

RollbackToken(q) ==
    LET s == sess[q]
    IN  /\ s.pc \in {"rollback", "overflow"}
        /\ \/ /\ AfterRollback(q, [s EXCEPT !.token = @ - TokenQuota(q, s.tok)])
              /\ UNCHANGED <<used, fails>>
           \/ /\ q \notin Playground /\ fails < MaxFail /\ fails' = fails + 1
              /\ AfterRollback(q, [s EXCEPT !.faulty = TRUE])
              /\ UNCHANGED used

-----------------------------------------------------------------------------
(* The end of the relayed request.                                         *)

\* The request succeeds and Settle is called with its actual cost.
Succeed(q) ==
    LET s == sess[q]
    IN  /\ s.pc = "relay"
        /\ \E a \in 0..MaxQuota :
              Step(q, [s EXCEPT !.actual = a, !.settled = (a = s.pre),
                                !.pc = IF a = s.pre THEN "done" ELSE "settle"])
        /\ UNCHANGED <<used, fails>>

\* Mutant: the actual cost is charged on top of the pre-consumed quota.
SettleInFull(q) ==
    LET s == sess[q]
    IN  /\ s.pc = "settle" /\ s.src = "wallet"
        /\ Step(q, [s EXCEPT !.pc = "settleToken", !.wallet = @ + s.actual])
        /\ UNCHANGED <<used, fails>>

\* Settle, the funding source.  An error leaves the session as it was: the
\* controllers only log it.
SettleWallet(q) ==
    LET s == sess[q]
    IN  /\ s.pc = "settle" /\ s.src = "wallet"
        /\ \/ /\ Step(q, [s EXCEPT !.pc = "settleToken",
                                   !.wallet = @ + (s.actual - s.pre)])
              /\ UNCHANGED <<used, fails>>
           \/ Fails(q, [s EXCEPT !.pc = "done"])

SettleSubscription(q) ==
    LET s == sess[q]
        delta == s.actual - s.pre
    IN  /\ s.pc = "settle" /\ s.src = "sub"
        /\ \/ /\ Fits(delta)
              /\ used' = NewUsed(delta)
              /\ Step(q, [s EXCEPT !.pc = "settleToken", !.sub = @ + delta])
              /\ UNCHANGED fails
           \/ /\ ~Fits(delta)
              /\ Step(q, [s EXCEPT !.pc = "done"])
              /\ UNCHANGED <<used, fails>>
           \/ Fails(q, [s EXCEPT !.pc = "done"])

\* Settle, the token; the session is settled even if this fails.
SettleToken(q) ==
    LET s == sess[q]
    IN  /\ s.pc = "settleToken"
        /\ \/ /\ Step(q, [s EXCEPT !.pc = "done", !.settled = TRUE,
                                   !.token = @ + TokenQuota(q, s.actual - s.pre)])
              /\ UNCHANGED <<used, fails>>
           \/ q \notin Playground /\ Fails(q, [s EXCEPT !.pc = "done", !.settled = TRUE])

\* Mutant: a violation fee takes the place of the refund.
AbortOrRefund(q) ==
    LET s == sess[q]
    IN  /\ s.pc = "relay"
        /\ \E next \in {"fee", "failed"} :
              Step(q, [s EXCEPT !.pc = next,
                                !.refund = IF NeedsRefund(s) /\ next = "failed"
                                           THEN "funding" ELSE @])
        /\ UNCHANGED <<used, fails>>

\* The request fails: Refund starts its goroutine if there is something to
\* return, and ChargeViolationFeeIfNeeded runs beside it.
Abort(q) ==
    LET s == sess[q]
    IN  /\ s.pc = "relay"
        /\ \E next \in {"fee", "failed"} :
              Step(q, [s EXCEPT !.pc = next,
                                !.refund = IF NeedsRefund(s) THEN "funding" ELSE @])
        /\ UNCHANGED <<used, fails>>

\* PostConsumeQuota with the fee: the funding source.
ChargeFee(q) ==
    LET s == sess[q]
    IN  /\ s.pc = "fee"
        /\ \/ /\ s.src = "wallet"
              /\ Step(q, [s EXCEPT !.pc = "feeToken", !.fee = Fee, !.wallet = @ + Fee])
              /\ UNCHANGED <<used, fails>>
           \/ /\ s.src = "sub" /\ Fits(Fee)
              /\ used' = NewUsed(Fee)
              /\ Step(q, [s EXCEPT !.pc = "feeToken", !.fee = Fee, !.sub = @ + Fee])
              /\ UNCHANGED fails
           \/ /\ s.src = "sub" /\ ~Fits(Fee)
              /\ Step(q, [s EXCEPT !.pc = "failed"])
              /\ UNCHANGED <<used, fails>>
           \/ Fails(q, [s EXCEPT !.pc = "failed"])

\* PostConsumeQuota with the fee: the token.
ChargeFeeToken(q) ==
    LET s == sess[q]
    IN  /\ s.pc = "feeToken"
        /\ \/ /\ Step(q, [s EXCEPT !.pc = "failed", !.feeToken = TokenQuota(q, Fee),
                                   !.token = @ + TokenQuota(q, Fee)])
              /\ UNCHANGED <<used, fails>>
           \/ q \notin Playground /\ Fails(q, [s EXCEPT !.pc = "failed"])

-----------------------------------------------------------------------------
(* The refund goroutine.                                                   *)

\* WalletFunding.Refund: tried once.
RefundWallet(q) ==
    LET s == sess[q]
    IN  /\ s.refund = "funding" /\ s.src = "wallet"
        /\ \/ /\ Step(q, [s EXCEPT !.refund = "token", !.wallet = @ - s.fund])
              /\ UNCHANGED <<used, fails>>
           \/ Fails(q, [s EXCEPT !.refund = "token"])

\* Mutant: the attempts are not counted towards an end.
RefundGivesUp(q) ==
    LET s == sess[q]
    IN  /\ s.refund = "funding" /\ s.src = "sub" /\ s.tries = 0
        /\ \/ /\ used' = NewUsed(0 - s.fund)
              /\ Step(q, [s EXCEPT !.refund = "mark", !.sub = @ - s.fund])
              /\ UNCHANGED fails
           \/ Fails(q, Retry(s))

\* RefundSubscriptionPreConsume, the transaction of its own in which
\* PostConsumeUserSubscriptionDelta returns the quota, unless the record says
\* that it has been returned.
RefundSubscription(q) ==
    LET s == sess[q]
    IN  /\ s.refund = "funding" /\ s.src = "sub"
        /\ \/ /\ s.record = "consumed"
              /\ used' = NewUsed(0 - s.fund)
              /\ Step(q, [s EXCEPT !.refund = "mark", !.sub = @ - s.fund])
              /\ UNCHANGED fails
           \/ /\ s.record = "refunded"
              /\ Step(q, [s EXCEPT !.refund = "token"])
              /\ UNCHANGED <<used, fails>>
           \/ Fails(q, Retry(s))

\* RefundSubscriptionPreConsume, the commit of the record.
MarkRefunded(q) ==
    LET s == sess[q]
    IN  /\ s.refund = "mark"
        /\ \/ /\ Step(q, [s EXCEPT !.refund = "token", !.record = "refunded"])
              /\ UNCHANGED <<used, fails>>
           \/ Fails(q, Retry(s))

\* Mutant: a playground request gets token quota back, too.
RefundAnyToken(q) ==
    LET s == sess[q]
    IN  /\ s.refund = "token"
        /\ Step(q, [s EXCEPT !.refund = "end", !.token = @ - s.tok])
        /\ UNCHANGED <<used, fails>>

RefundToken(q) ==
    LET s == sess[q]
    IN  /\ s.refund = "token"
        /\ \/ /\ Step(q, [s EXCEPT !.refund = "end", !.token = @ - TokenQuota(q, s.tok)])
              /\ UNCHANGED <<used, fails>>
           \/ q \notin Playground /\ Fails(q, [s EXCEPT !.refund = "end"])

-----------------------------------------------------------------------------
PreConsumeStep(q) == \/ NewBillingSession(q) \/ PreConsumeToken(q) \/ PreConsumeWallet(q)
                     \/ PreConsumeSubscription(q) \/ RollbackToken(q)

EndStep(q) == \/ Succeed(q) \/ SettleWallet(q) \/ SettleSubscription(q) \/ SettleToken(q)
              \/ Abort(q) \/ ChargeFee(q) \/ ChargeFeeToken(q)

RefundStep(q) == \/ RefundWallet(q) \/ RefundSubscription(q) \/ MarkRefunded(q)
                 \/ RefundToken(q)

Next == \E q \in Requests : PreConsumeStep(q) \/ EndStep(q) \/ RefundStep(q)

Spec == Init /\ [][Next]_vars

\* The goroutines of the pool are scheduled.
FairSpec == Spec /\ \A q \in Requests : WF_vars(RefundStep(q))

-----------------------------------------------------------------------------
(* Properties.                                                             *)

\* Sessions are well formed and the subscription is never oversold.
TypeOK == /\ sess \in [Requests -> Session]
          /\ used \in 0..SubTotal
          /\ fails \in 0..MaxFail

\* What the funding source of a session has been charged.
Paid(s) == IF s.src = "sub" THEN s.sub ELSE s.wallet

\* A settled request has paid its actual cost exactly once, from its
\* source and from its token, whatever was pre-consumed, rolled back or trusted
\* ("Settle", service/billing_session.go:38).
SettledExact ==
    \A q \in Requests : LET s == sess[q] IN
        s.settled /\ ~s.faulty => /\ Paid(s) = s.actual
                                  /\ s.token = TokenQuota(q, s.actual)

\* A request that failed, or was never admitted, has in the end paid nothing
\* but the violation fee, although refund and fee are charged concurrently
\* and a fallback pre-consumes twice.
FailedPaysOnlyFee ==
    \A q \in Requests : LET s == sess[q] IN
        /\ s.pc \in {"failed", "rejected"}
        /\ s.refund \in {"none", "end"}
        /\ ~s.faulty
        => Paid(s) = s.fee /\ s.token = s.feeToken

\* Even when statements fail, no request is given back more wallet or token
\* quota than it was charged.
NeverOverRefunded == \A q \in Requests : sess[q].wallet >= 0 /\ sess[q].token >= 0

\* No request is charged on both sources, even when statements fail and the
\* subscription falls back to the wallet.
OneSource == \A q \in Requests : sess[q].wallet = 0 \/ sess[q].sub = 0

\* No request is given back more subscription quota than it was charged:
\* RefundSubscriptionPreConsume "is idempotent" (model/subscription.go:1247).
SubscriptionRefundedOnce == \A q \in Requests : sess[q].sub >= 0

(* The invariant behind these: what a session has paid in each phase.      *)

Early == {"new", "token", "fund", "rollback", "overflow", "rejected"}

Failing == {"fee", "feeToken", "failed"}

\* Phases of the session and of its refund go together.
PhaseInv(s) ==
    /\ s.pc # "new" => s.src # "none"
    /\ s.settled => s.pc = "done"
    /\ s.refund # "none" => s.pc \in Failing
    /\ s.refund = "mark" => s.src = "sub"
    /\ s.refund \in {"none", "funding", "mark"} => s.tries < maxAttempts
    /\ s.refund = "none" => s.tries = 0
    /\ s.pc \in Early => s.fund = 0 /\ s.pre = 0
    /\ s.pc \in {"new", "token", "rejected"} => s.tok = 0
    /\ s.pc \in {"fund", "rollback", "overflow"} => s.tok = Amount(s)
    /\ s.pc \notin Early => s.fund = s.pre /\ s.tok = s.pre
    /\ s.pc \in Failing /\ s.refund = "none" => s.tok = 0
    /\ s.pc \notin {"feeToken", "failed"} => s.fee = 0
    /\ s.pc # "failed" => s.feeToken = 0
    /\ s.src = "sub" /\ s.pc \notin Early /\ s.refund \in {"none", "funding"} /\ ~s.faulty
          => s.record = "consumed"

\* What the session should have been charged on its source ...
FundingDue(s) == IF s.pc = "settleToken" \/ s.settled THEN s.actual
                 ELSE IF s.refund \in {"mark", "token", "end"} THEN s.fee
                 ELSE s.fund + s.fee

\* ... and on its token.
TokenDue(q, s) == IF s.settled THEN TokenQuota(q, s.actual)
                  ELSE IF s.refund = "end" THEN s.feeToken
                  ELSE TokenQuota(q, s.tok) + s.feeToken

\* Failed statements leave a wallet with its charge, and a token with at
\* least what is due.
FundingInv(s) ==
    /\ s.src # "sub" => s.sub = 0
    /\ s.src # "wallet" => s.wallet = 0
    /\ s.pc \in Early => s.wallet = 0 /\ s.sub = 0
    /\ ~s.faulty => Paid(s) = FundingDue(s)
    /\ s.src = "wallet" => s.wallet \in {FundingDue(s), s.fund + s.fee}

TokenInv(q, s) ==
    /\ ~s.faulty => s.token = TokenDue(q, s)
    /\ s.token >= IF s.settled THEN 0 ELSE TokenDue(q, s)

SessionInv == \A q \in Requests : /\ PhaseInv(sess[q])
                                  /\ FundingInv(sess[q])
                                  /\ TokenInv(q, sess[q])

\* A refund that was started comes to its end, whatever fails on the way.
RefundEnds == \A q \in Requests : (sess[q].refund = "funding") ~> (sess[q].refund = "end")
=============================================================================
