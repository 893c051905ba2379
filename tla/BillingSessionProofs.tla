------------------------ MODULE BillingSessionProofs ------------------------
(***************************************************************************)
(* Proofs about BillingSession, for any number of requests, any estimates  *)
(* and costs, and any number of failing statements.  A session is a record *)
(* that one step replaces by another; one lemma per kind of replacement    *)
(* shows that it keeps what the session has paid in line with its phase.   *)
(***************************************************************************)
EXTENDS BillingSession, TLAPS

\* What every session satisfies.
OK(q, s) == PhaseInv(s) /\ FundingInv(s) /\ TokenInv(q, s)

LEMMA Fields ==
  ASSUME NEW s \in Session
  PROVE  /\ s.pc \in Pc /\ s.src \in {"none", "wallet", "sub"}
         /\ s.est \in Nat /\ s.pre \in Nat /\ s.tok \in Nat /\ s.fund \in Nat
         /\ s.actual \in Nat /\ s.settled \in BOOLEAN /\ s.refund \in RefundPc
         /\ s.tries \in 0..maxAttempts /\ s.record \in {"none", "consumed", "refunded"}
         /\ s.fee \in Nat /\ s.feeToken \in Nat
         /\ s.wallet \in Int /\ s.sub \in Int /\ s.token \in Int /\ s.faulty \in BOOLEAN
  BY DEF Session

\* PreConsumeToken: the estimate is charged to the token.
LEMMA TokenTaken ==
  ASSUME NEW q \in Requests,
         NEW s \in Session,
         OK(q, s),
         s.pc = "token"
  PROVE  /\ [s EXCEPT !.pc = "fund", !.tok = Amount(s), !.token = s.token + TokenQuota(q, Amount(s))] \in Session
         /\ OK(q, [s EXCEPT !.pc = "fund", !.tok = Amount(s), !.token = s.token + TokenQuota(q, Amount(s))])
<1> DEFINE s2 == [s EXCEPT !.pc = "fund", !.tok = Amount(s), !.token = s.token + TokenQuota(q, Amount(s))]
<1>1. s2 \in Session
  <2>1. "fund" \in Pc
    BY DEF Pc
  <2>2. Amount(s) \in Nat
    BY Fields, QuotasAssumption DEF Amount
  <2>3. s.token + TokenQuota(q, Amount(s)) \in Int
    BY Fields, QuotasAssumption DEF Amount, TokenQuota
  <2>4. QED
    BY <2>1, <2>2, <2>3 DEF Session
<1>2. /\ s2.pc = "fund" /\ s2.src = s.src /\ s2.est = s.est /\ s2.pre = s.pre
      /\ s2.tok = Amount(s) /\ s2.fund = s.fund /\ s2.actual = s.actual /\ s2.settled = s.settled
      /\ s2.refund = s.refund /\ s2.record = s.record /\ s2.fee = s.fee /\ s2.feeToken = s.feeToken
      /\ s2.wallet = s.wallet /\ s2.sub = s.sub /\ s2.token = s.token + TokenQuota(q, Amount(s)) /\ s2.tries = s.tries
      /\ s2.faulty = s.faulty
  BY DEF Session
<1> HIDE DEF s2
<1>3. PhaseInv(s2)
  BY <1>2, Fields DEF OK, PhaseInv, FundingInv, Early, Failing, Amount, NeedsRefund, maxAttempts
<1>4. FundingInv(s2)
  BY <1>2, Fields, QuotasAssumption DEF OK, PhaseInv, FundingInv, Early, Failing, FundingDue, Paid, Amount, NeedsRefund
<1>5. TokenInv(q, s2)
  BY <1>2, Fields, QuotasAssumption DEF OK, PhaseInv, TokenInv, Early, Failing, TokenDue, TokenQuota, Amount, NeedsRefund
<1>6. QED
  BY <1>1, <1>3, <1>4, <1>5 DEF OK, s2

\* PreConsumeToken: the request is rejected.
LEMMA TokenRefused ==
  ASSUME NEW q \in Requests,
         NEW s \in Session,
         OK(q, s),
         s.pc = "token"
  PROVE  /\ [s EXCEPT !.pc = "rejected"] \in Session
         /\ OK(q, [s EXCEPT !.pc = "rejected"])
<1> DEFINE s2 == [s EXCEPT !.pc = "rejected"]
<1>1. s2 \in Session
  <2>1. "rejected" \in Pc
    BY DEF Pc
  <2>2. QED
    BY <2>1 DEF Session
<1>2. /\ s2.pc = "rejected" /\ s2.src = s.src /\ s2.est = s.est /\ s2.pre = s.pre
      /\ s2.tok = s.tok /\ s2.fund = s.fund /\ s2.actual = s.actual /\ s2.settled = s.settled
      /\ s2.refund = s.refund /\ s2.record = s.record /\ s2.fee = s.fee /\ s2.feeToken = s.feeToken
      /\ s2.wallet = s.wallet /\ s2.sub = s.sub /\ s2.token = s.token /\ s2.tries = s.tries
      /\ s2.faulty = s.faulty
  BY DEF Session
<1> HIDE DEF s2
<1>3. PhaseInv(s2)
  BY <1>2, Fields DEF OK, PhaseInv, FundingInv, Early, Failing, Amount, NeedsRefund, maxAttempts
<1>4. FundingInv(s2)
  BY <1>2, Fields, QuotasAssumption DEF OK, PhaseInv, FundingInv, Early, Failing, FundingDue, Paid, Amount, NeedsRefund
<1>5. TokenInv(q, s2)
  BY <1>2, Fields, QuotasAssumption DEF OK, PhaseInv, TokenInv, Early, Failing, TokenDue, TokenQuota, Amount, NeedsRefund
<1>6. QED
  BY <1>1, <1>3, <1>4, <1>5 DEF OK, s2

\* NewBillingSession: the subscription is tried.
LEMMA SubChosen ==
  ASSUME NEW q \in Requests,
         NEW s \in Session,
         OK(q, s),
         NEW e \in Nat,
         s.pc = "new"
  PROVE  /\ [s EXCEPT !.est = e, !.src = "sub", !.pc = "token"] \in Session
         /\ OK(q, [s EXCEPT !.est = e, !.src = "sub", !.pc = "token"])
<1> DEFINE s2 == [s EXCEPT !.est = e, !.src = "sub", !.pc = "token"]
<1>1. s2 \in Session
  <2>1. e \in Nat
    BY Fields
  <2>2. "sub" \in {"none", "wallet", "sub"}
    OBVIOUS
  <2>3. "token" \in Pc
    BY DEF Pc
  <2>4. QED
    BY <2>1, <2>2, <2>3 DEF Session
<1>2. /\ s2.pc = "token" /\ s2.src = "sub" /\ s2.est = e /\ s2.pre = s.pre
      /\ s2.tok = s.tok /\ s2.fund = s.fund /\ s2.actual = s.actual /\ s2.settled = s.settled
      /\ s2.refund = s.refund /\ s2.record = s.record /\ s2.fee = s.fee /\ s2.feeToken = s.feeToken
      /\ s2.wallet = s.wallet /\ s2.sub = s.sub /\ s2.token = s.token /\ s2.tries = s.tries
      /\ s2.faulty = s.faulty
  BY DEF Session
<1> HIDE DEF s2
<1>3. PhaseInv(s2)
  BY <1>2, Fields DEF OK, PhaseInv, FundingInv, Early, Failing, Amount, NeedsRefund, maxAttempts
<1>4. FundingInv(s2)
  BY <1>2, Fields, QuotasAssumption DEF OK, PhaseInv, FundingInv, Early, Failing, FundingDue, Paid, Amount, NeedsRefund
<1>5. TokenInv(q, s2)
  BY <1>2, Fields, QuotasAssumption DEF OK, PhaseInv, TokenInv, Early, Failing, TokenDue, TokenQuota, Amount, NeedsRefund
<1>6. QED
  BY <1>1, <1>3, <1>4, <1>5 DEF OK, s2

\* PreConsumeWallet: the estimate is charged.
LEMMA WalletTaken ==
  ASSUME NEW q \in Requests,
         NEW s \in Session,
         OK(q, s),
         s.pc = "fund",
         s.src = "wallet"
  PROVE  /\ [s EXCEPT !.pc = "relay", !.fund = s.est, !.pre = s.est, !.wallet = s.wallet + s.est] \in Session
         /\ OK(q, [s EXCEPT !.pc = "relay", !.fund = s.est, !.pre = s.est, !.wallet = s.wallet + s.est])
<1> DEFINE s2 == [s EXCEPT !.pc = "relay", !.fund = s.est, !.pre = s.est, !.wallet = s.wallet + s.est]
<1>1. s2 \in Session
  <2>1. "relay" \in Pc
    BY DEF Pc
  <2>2. s.est \in Nat
    BY Fields, QuotasAssumption
  <2>3. s.est \in Nat
    BY Fields, QuotasAssumption
  <2>4. s.wallet + s.est \in Int
    BY Fields, QuotasAssumption
  <2>5. QED
    BY <2>1, <2>2, <2>3, <2>4 DEF Session
<1>2. /\ s2.pc = "relay" /\ s2.src = s.src /\ s2.est = s.est /\ s2.pre = s.est
      /\ s2.tok = s.tok /\ s2.fund = s.est /\ s2.actual = s.actual /\ s2.settled = s.settled
      /\ s2.refund = s.refund /\ s2.record = s.record /\ s2.fee = s.fee /\ s2.feeToken = s.feeToken
      /\ s2.wallet = s.wallet + s.est /\ s2.sub = s.sub /\ s2.token = s.token /\ s2.tries = s.tries
      /\ s2.faulty = s.faulty
  BY DEF Session
<1> HIDE DEF s2
<1>3. PhaseInv(s2)
  BY <1>2, Fields DEF OK, PhaseInv, FundingInv, Early, Failing, Amount, NeedsRefund, maxAttempts
<1>4. FundingInv(s2)
  BY <1>2, Fields, QuotasAssumption DEF OK, PhaseInv, FundingInv, Early, Failing, FundingDue, Paid, Amount, NeedsRefund
<1>5. TokenInv(q, s2)
  BY <1>2, Fields, QuotasAssumption DEF OK, PhaseInv, TokenInv, Early, Failing, TokenDue, TokenQuota, Amount, NeedsRefund
<1>6. QED
  BY <1>1, <1>3, <1>4, <1>5 DEF OK, s2

\* PreConsumeWallet and PreConsumeSubscription: the statement fails.
LEMMA FundingFailed ==
  ASSUME NEW q \in Requests,
         NEW s \in Session,
         OK(q, s),
         s.pc = "fund"
  PROVE  /\ [[s EXCEPT !.pc = "rollback"] EXCEPT !.faulty = TRUE] \in Session
         /\ OK(q, [[s EXCEPT !.pc = "rollback"] EXCEPT !.faulty = TRUE])
<1> DEFINE s2 == [[s EXCEPT !.pc = "rollback"] EXCEPT !.faulty = TRUE]
<1>1. s2 \in Session
  <2>1. "rollback" \in Pc
    BY DEF Pc
  <2>2. QED
    BY <2>1 DEF Session
<1>2. /\ s2.pc = "rollback" /\ s2.src = s.src /\ s2.est = s.est /\ s2.pre = s.pre
      /\ s2.tok = s.tok /\ s2.fund = s.fund /\ s2.actual = s.actual /\ s2.settled = s.settled
      /\ s2.refund = s.refund /\ s2.record = s.record /\ s2.fee = s.fee /\ s2.feeToken = s.feeToken
      /\ s2.wallet = s.wallet /\ s2.sub = s.sub /\ s2.token = s.token /\ s2.tries = s.tries
      /\ s2.faulty = TRUE
  BY DEF Session
<1> HIDE DEF s2
<1>3. PhaseInv(s2)
  BY <1>2, Fields DEF OK, PhaseInv, FundingInv, Early, Failing, Amount, NeedsRefund, maxAttempts
<1>4. FundingInv(s2)
  BY <1>2, Fields, QuotasAssumption DEF OK, PhaseInv, FundingInv, Early, Failing, FundingDue, Paid, Amount, NeedsRefund
<1>5. TokenInv(q, s2)
  BY <1>2, Fields, QuotasAssumption DEF OK, PhaseInv, TokenInv, Early, Failing, TokenDue, TokenQuota, Amount, NeedsRefund
<1>6. QED
  BY <1>1, <1>3, <1>4, <1>5 DEF OK, s2

\* PreConsumeSubscription: the amount is charged.
LEMMA SubTaken ==
  ASSUME NEW q \in Requests,
         NEW s \in Session,
         OK(q, s),
         s.pc = "fund",
         s.src = "sub"
  PROVE  /\ [s EXCEPT !.pc = "relay", !.fund = Amount(s), !.pre = Amount(s), !.record = "consumed", !.sub = s.sub + Amount(s)] \in Session
         /\ OK(q, [s EXCEPT !.pc = "relay", !.fund = Amount(s), !.pre = Amount(s), !.record = "consumed", !.sub = s.sub + Amount(s)])
<1> DEFINE s2 == [s EXCEPT !.pc = "relay", !.fund = Amount(s), !.pre = Amount(s), !.record = "consumed", !.sub = s.sub + Amount(s)]
<1>1. s2 \in Session
  <2>1. "relay" \in Pc
    BY DEF Pc
  <2>2. Amount(s) \in Nat
    BY Fields, QuotasAssumption DEF Amount
  <2>3. Amount(s) \in Nat
    BY Fields, QuotasAssumption DEF Amount
  <2>4. "consumed" \in {"none", "consumed", "refunded"}
    OBVIOUS
  <2>5. s.sub + Amount(s) \in Int
    BY Fields, QuotasAssumption DEF Amount
  <2>6. QED
    BY <2>1, <2>2, <2>3, <2>4, <2>5 DEF Session
<1>2. /\ s2.pc = "relay" /\ s2.src = s.src /\ s2.est = s.est /\ s2.pre = Amount(s)
      /\ s2.tok = s.tok /\ s2.fund = Amount(s) /\ s2.actual = s.actual /\ s2.settled = s.settled
      /\ s2.refund = s.refund /\ s2.record = "consumed" /\ s2.fee = s.fee /\ s2.feeToken = s.feeToken
      /\ s2.wallet = s.wallet /\ s2.sub = s.sub + Amount(s) /\ s2.token = s.token /\ s2.tries = s.tries
      /\ s2.faulty = s.faulty
  BY DEF Session
<1> HIDE DEF s2
<1>3. PhaseInv(s2)
  BY <1>2, Fields DEF OK, PhaseInv, FundingInv, Early, Failing, Amount, NeedsRefund, maxAttempts
<1>4. FundingInv(s2)
  BY <1>2, Fields, QuotasAssumption DEF OK, PhaseInv, FundingInv, Early, Failing, FundingDue, Paid, Amount, NeedsRefund
<1>5. TokenInv(q, s2)
  BY <1>2, Fields, QuotasAssumption DEF OK, PhaseInv, TokenInv, Early, Failing, TokenDue, TokenQuota, Amount, NeedsRefund
<1>6. QED
  BY <1>1, <1>3, <1>4, <1>5 DEF OK, s2

\* PreConsumeSubscription: no quota.
LEMMA SubUnavailable ==
  ASSUME NEW q \in Requests,
         NEW s \in Session,
         OK(q, s),
         s.pc = "fund"
  PROVE  /\ [s EXCEPT !.pc = "overflow"] \in Session
         /\ OK(q, [s EXCEPT !.pc = "overflow"])
<1> DEFINE s2 == [s EXCEPT !.pc = "overflow"]
<1>1. s2 \in Session
  <2>1. "overflow" \in Pc
    BY DEF Pc
  <2>2. QED
    BY <2>1 DEF Session
<1>2. /\ s2.pc = "overflow" /\ s2.src = s.src /\ s2.est = s.est /\ s2.pre = s.pre
      /\ s2.tok = s.tok /\ s2.fund = s.fund /\ s2.actual = s.actual /\ s2.settled = s.settled
      /\ s2.refund = s.refund /\ s2.record = s.record /\ s2.fee = s.fee /\ s2.feeToken = s.feeToken
      /\ s2.wallet = s.wallet /\ s2.sub = s.sub /\ s2.token = s.token /\ s2.tries = s.tries
      /\ s2.faulty = s.faulty
  BY DEF Session
<1> HIDE DEF s2
<1>3. PhaseInv(s2)
  BY <1>2, Fields DEF OK, PhaseInv, FundingInv, Early, Failing, Amount, NeedsRefund, maxAttempts
<1>4. FundingInv(s2)
  BY <1>2, Fields, QuotasAssumption DEF OK, PhaseInv, FundingInv, Early, Failing, FundingDue, Paid, Amount, NeedsRefund
<1>5. TokenInv(q, s2)
  BY <1>2, Fields, QuotasAssumption DEF OK, PhaseInv, TokenInv, Early, Failing, TokenDue, TokenQuota, Amount, NeedsRefund
<1>6. QED
  BY <1>1, <1>3, <1>4, <1>5 DEF OK, s2

\* Succeed: the actual cost is known.
LEMMA Succeeded ==
  ASSUME NEW q \in Requests,
         NEW s \in Session,
         OK(q, s),
         NEW a \in Nat,
         s.pc = "relay"
  PROVE  /\ [s EXCEPT !.actual = a, !.settled = (a = s.pre), !.pc = IF a = s.pre THEN "done" ELSE "settle"] \in Session
         /\ OK(q, [s EXCEPT !.actual = a, !.settled = (a = s.pre), !.pc = IF a = s.pre THEN "done" ELSE "settle"])
<1> DEFINE s2 == [s EXCEPT !.actual = a, !.settled = (a = s.pre), !.pc = IF a = s.pre THEN "done" ELSE "settle"]
<1>1. s2 \in Session
  <2>1. a \in Nat
    BY Fields
  <2>2. (a = s.pre) \in BOOLEAN
    BY Fields
  <2>3. (IF a = s.pre THEN "done" ELSE "settle") \in Pc
    BY Fields, QuotasAssumption DEF Pc
  <2>4. QED
    BY <2>1, <2>2, <2>3 DEF Session
<1>2. /\ s2.pc = (IF a = s.pre THEN "done" ELSE "settle") /\ s2.src = s.src /\ s2.est = s.est /\ s2.pre = s.pre
      /\ s2.tok = s.tok /\ s2.fund = s.fund /\ s2.actual = a /\ s2.settled = (a = s.pre)
      /\ s2.refund = s.refund /\ s2.record = s.record /\ s2.fee = s.fee /\ s2.feeToken = s.feeToken
      /\ s2.wallet = s.wallet /\ s2.sub = s.sub /\ s2.token = s.token /\ s2.tries = s.tries
      /\ s2.faulty = s.faulty
  BY DEF Session
<1> HIDE DEF s2
<1>3. PhaseInv(s2)
  BY <1>2, Fields DEF OK, PhaseInv, FundingInv, Early, Failing, Amount, NeedsRefund, maxAttempts
<1>4. FundingInv(s2)
  BY <1>2, Fields, QuotasAssumption DEF OK, PhaseInv, FundingInv, Early, Failing, FundingDue, Paid, Amount, NeedsRefund
<1>5. TokenInv(q, s2)
  BY <1>2, Fields, QuotasAssumption DEF OK, PhaseInv, TokenInv, Early, Failing, TokenDue, TokenQuota, Amount, NeedsRefund
<1>6. QED
  BY <1>1, <1>3, <1>4, <1>5 DEF OK, s2

\* SettleWallet: the difference is charged.
LEMMA WalletSettled ==
  ASSUME NEW q \in Requests,
         NEW s \in Session,
         OK(q, s),
         s.pc = "settle",
         s.src = "wallet"
  PROVE  /\ [s EXCEPT !.pc = "settleToken", !.wallet = s.wallet + (s.actual - s.pre)] \in Session
         /\ OK(q, [s EXCEPT !.pc = "settleToken", !.wallet = s.wallet + (s.actual - s.pre)])
<1> DEFINE s2 == [s EXCEPT !.pc = "settleToken", !.wallet = s.wallet + (s.actual - s.pre)]
<1>1. s2 \in Session
  <2>1. "settleToken" \in Pc
    BY DEF Pc
  <2>2. s.wallet + (s.actual - s.pre) \in Int
    BY Fields, QuotasAssumption
  <2>3. QED
    BY <2>1, <2>2 DEF Session
<1>2. /\ s2.pc = "settleToken" /\ s2.src = s.src /\ s2.est = s.est /\ s2.pre = s.pre
      /\ s2.tok = s.tok /\ s2.fund = s.fund /\ s2.actual = s.actual /\ s2.settled = s.settled
      /\ s2.refund = s.refund /\ s2.record = s.record /\ s2.fee = s.fee /\ s2.feeToken = s.feeToken
      /\ s2.wallet = s.wallet + (s.actual - s.pre) /\ s2.sub = s.sub /\ s2.token = s.token /\ s2.tries = s.tries
      /\ s2.faulty = s.faulty
  BY DEF Session
<1> HIDE DEF s2
<1>3. PhaseInv(s2)
  BY <1>2, Fields DEF OK, PhaseInv, FundingInv, Early, Failing, Amount, NeedsRefund, maxAttempts
<1>4. FundingInv(s2)
  BY <1>2, Fields, QuotasAssumption DEF OK, PhaseInv, FundingInv, Early, Failing, FundingDue, Paid, Amount, NeedsRefund
<1>5. TokenInv(q, s2)
  BY <1>2, Fields, QuotasAssumption DEF OK, PhaseInv, TokenInv, Early, Failing, TokenDue, TokenQuota, Amount, NeedsRefund
<1>6. QED
  BY <1>1, <1>3, <1>4, <1>5 DEF OK, s2

\* SettleSubscription: the difference is charged.
LEMMA SubSettled ==
  ASSUME NEW q \in Requests,
         NEW s \in Session,
         OK(q, s),
         s.pc = "settle",
         s.src = "sub"
  PROVE  /\ [s EXCEPT !.pc = "settleToken", !.sub = s.sub + (s.actual - s.pre)] \in Session
         /\ OK(q, [s EXCEPT !.pc = "settleToken", !.sub = s.sub + (s.actual - s.pre)])
<1> DEFINE s2 == [s EXCEPT !.pc = "settleToken", !.sub = s.sub + (s.actual - s.pre)]
<1>1. s2 \in Session
  <2>1. "settleToken" \in Pc
    BY DEF Pc
  <2>2. s.sub + (s.actual - s.pre) \in Int
    BY Fields, QuotasAssumption
  <2>3. QED
    BY <2>1, <2>2 DEF Session
<1>2. /\ s2.pc = "settleToken" /\ s2.src = s.src /\ s2.est = s.est /\ s2.pre = s.pre
      /\ s2.tok = s.tok /\ s2.fund = s.fund /\ s2.actual = s.actual /\ s2.settled = s.settled
      /\ s2.refund = s.refund /\ s2.record = s.record /\ s2.fee = s.fee /\ s2.feeToken = s.feeToken
      /\ s2.wallet = s.wallet /\ s2.sub = s.sub + (s.actual - s.pre) /\ s2.token = s.token /\ s2.tries = s.tries
      /\ s2.faulty = s.faulty
  BY DEF Session
<1> HIDE DEF s2
<1>3. PhaseInv(s2)
  BY <1>2, Fields DEF OK, PhaseInv, FundingInv, Early, Failing, Amount, NeedsRefund, maxAttempts
<1>4. FundingInv(s2)
  BY <1>2, Fields, QuotasAssumption DEF OK, PhaseInv, FundingInv, Early, Failing, FundingDue, Paid, Amount, NeedsRefund
<1>5. TokenInv(q, s2)
  BY <1>2, Fields, QuotasAssumption DEF OK, PhaseInv, TokenInv, Early, Failing, TokenDue, TokenQuota, Amount, NeedsRefund
<1>6. QED
  BY <1>1, <1>3, <1>4, <1>5 DEF OK, s2

\* SettleSubscription: the difference exceeds the total.
LEMMA SettleRefused ==
  ASSUME NEW q \in Requests,
         NEW s \in Session,
         OK(q, s),
         s.pc = "settle"
  PROVE  /\ [s EXCEPT !.pc = "done"] \in Session
         /\ OK(q, [s EXCEPT !.pc = "done"])
<1> DEFINE s2 == [s EXCEPT !.pc = "done"]
<1>1. s2 \in Session
  <2>1. "done" \in Pc
    BY DEF Pc
  <2>2. QED
    BY <2>1 DEF Session
<1>2. /\ s2.pc = "done" /\ s2.src = s.src /\ s2.est = s.est /\ s2.pre = s.pre
      /\ s2.tok = s.tok /\ s2.fund = s.fund /\ s2.actual = s.actual /\ s2.settled = s.settled
      /\ s2.refund = s.refund /\ s2.record = s.record /\ s2.fee = s.fee /\ s2.feeToken = s.feeToken
      /\ s2.wallet = s.wallet /\ s2.sub = s.sub /\ s2.token = s.token /\ s2.tries = s.tries
      /\ s2.faulty = s.faulty
  BY DEF Session
<1> HIDE DEF s2
<1>3. PhaseInv(s2)
  BY <1>2, Fields DEF OK, PhaseInv, FundingInv, Early, Failing, Amount, NeedsRefund, maxAttempts
<1>4. FundingInv(s2)
  BY <1>2, Fields, QuotasAssumption DEF OK, PhaseInv, FundingInv, Early, Failing, FundingDue, Paid, Amount, NeedsRefund
<1>5. TokenInv(q, s2)
  BY <1>2, Fields, QuotasAssumption DEF OK, PhaseInv, TokenInv, Early, Failing, TokenDue, TokenQuota, Amount, NeedsRefund
<1>6. QED
  BY <1>1, <1>3, <1>4, <1>5 DEF OK, s2

\* SettleWallet and SettleSubscription: the statement fails.
LEMMA SettleFailed ==
  ASSUME NEW q \in Requests,
         NEW s \in Session,
         OK(q, s),
         s.pc = "settle"
  PROVE  /\ [[s EXCEPT !.pc = "done"] EXCEPT !.faulty = TRUE] \in Session
         /\ OK(q, [[s EXCEPT !.pc = "done"] EXCEPT !.faulty = TRUE])
<1> DEFINE s2 == [[s EXCEPT !.pc = "done"] EXCEPT !.faulty = TRUE]
<1>1. s2 \in Session
  <2>1. "done" \in Pc
    BY DEF Pc
  <2>2. QED
    BY <2>1 DEF Session
<1>2. /\ s2.pc = "done" /\ s2.src = s.src /\ s2.est = s.est /\ s2.pre = s.pre
      /\ s2.tok = s.tok /\ s2.fund = s.fund /\ s2.actual = s.actual /\ s2.settled = s.settled
      /\ s2.refund = s.refund /\ s2.record = s.record /\ s2.fee = s.fee /\ s2.feeToken = s.feeToken
      /\ s2.wallet = s.wallet /\ s2.sub = s.sub /\ s2.token = s.token /\ s2.tries = s.tries
      /\ s2.faulty = TRUE
  BY DEF Session
<1> HIDE DEF s2
<1>3. PhaseInv(s2)
  BY <1>2, Fields DEF OK, PhaseInv, FundingInv, Early, Failing, Amount, NeedsRefund, maxAttempts
<1>4. FundingInv(s2)
  BY <1>2, Fields, QuotasAssumption DEF OK, PhaseInv, FundingInv, Early, Failing, FundingDue, Paid, Amount, NeedsRefund
<1>5. TokenInv(q, s2)
  BY <1>2, Fields, QuotasAssumption DEF OK, PhaseInv, TokenInv, Early, Failing, TokenDue, TokenQuota, Amount, NeedsRefund
<1>6. QED
  BY <1>1, <1>3, <1>4, <1>5 DEF OK, s2

\* SettleToken: the difference is charged.
LEMMA TokenSettled ==
  ASSUME NEW q \in Requests,
         NEW s \in Session,
         OK(q, s),
         s.pc = "settleToken"
  PROVE  /\ [s EXCEPT !.pc = "done", !.settled = TRUE, !.token = s.token + TokenQuota(q, s.actual - s.pre)] \in Session
         /\ OK(q, [s EXCEPT !.pc = "done", !.settled = TRUE, !.token = s.token + TokenQuota(q, s.actual - s.pre)])
<1> DEFINE s2 == [s EXCEPT !.pc = "done", !.settled = TRUE, !.token = s.token + TokenQuota(q, s.actual - s.pre)]
<1>1. s2 \in Session
  <2>1. "done" \in Pc
    BY DEF Pc
  <2>2. TRUE \in BOOLEAN
    OBVIOUS
  <2>3. s.token + TokenQuota(q, s.actual - s.pre) \in Int
    BY Fields, QuotasAssumption DEF TokenQuota
  <2>4. QED
    BY <2>1, <2>2, <2>3 DEF Session
<1>2. /\ s2.pc = "done" /\ s2.src = s.src /\ s2.est = s.est /\ s2.pre = s.pre
      /\ s2.tok = s.tok /\ s2.fund = s.fund /\ s2.actual = s.actual /\ s2.settled = TRUE
      /\ s2.refund = s.refund /\ s2.record = s.record /\ s2.fee = s.fee /\ s2.feeToken = s.feeToken
      /\ s2.wallet = s.wallet /\ s2.sub = s.sub /\ s2.token = s.token + TokenQuota(q, s.actual - s.pre) /\ s2.tries = s.tries
      /\ s2.faulty = s.faulty
  BY DEF Session
<1> HIDE DEF s2
<1>3. PhaseInv(s2)
  BY <1>2, Fields DEF OK, PhaseInv, FundingInv, Early, Failing, Amount, NeedsRefund, maxAttempts
<1>4. FundingInv(s2)
  BY <1>2, Fields, QuotasAssumption DEF OK, PhaseInv, FundingInv, Early, Failing, FundingDue, Paid, Amount, NeedsRefund
<1>5. TokenInv(q, s2)
  BY <1>2, Fields, QuotasAssumption DEF OK, PhaseInv, TokenInv, Early, Failing, TokenDue, TokenQuota, Amount, NeedsRefund
<1>6. QED
  BY <1>1, <1>3, <1>4, <1>5 DEF OK, s2

\* SettleToken: the statement fails.
LEMMA TokenSettleFailed ==
  ASSUME NEW q \in Requests,
         NEW s \in Session,
         OK(q, s),
         s.pc = "settleToken"
  PROVE  /\ [[s EXCEPT !.pc = "done", !.settled = TRUE] EXCEPT !.faulty = TRUE] \in Session
         /\ OK(q, [[s EXCEPT !.pc = "done", !.settled = TRUE] EXCEPT !.faulty = TRUE])
<1> DEFINE s2 == [[s EXCEPT !.pc = "done", !.settled = TRUE] EXCEPT !.faulty = TRUE]
<1>1. s2 \in Session
  <2>1. "done" \in Pc
    BY DEF Pc
  <2>2. TRUE \in BOOLEAN
    OBVIOUS
  <2>3. QED
    BY <2>1, <2>2 DEF Session
<1>2. /\ s2.pc = "done" /\ s2.src = s.src /\ s2.est = s.est /\ s2.pre = s.pre
      /\ s2.tok = s.tok /\ s2.fund = s.fund /\ s2.actual = s.actual /\ s2.settled = TRUE
      /\ s2.refund = s.refund /\ s2.record = s.record /\ s2.fee = s.fee /\ s2.feeToken = s.feeToken
      /\ s2.wallet = s.wallet /\ s2.sub = s.sub /\ s2.token = s.token /\ s2.tries = s.tries
      /\ s2.faulty = TRUE
  BY DEF Session
<1> HIDE DEF s2
<1>3. PhaseInv(s2)
  BY <1>2, Fields DEF OK, PhaseInv, FundingInv, Early, Failing, Amount, NeedsRefund, maxAttempts
<1>4. FundingInv(s2)
  BY <1>2, Fields, QuotasAssumption DEF OK, PhaseInv, FundingInv, Early, Failing, FundingDue, Paid, Amount, NeedsRefund
<1>5. TokenInv(q, s2)
  BY <1>2, Fields, QuotasAssumption DEF OK, PhaseInv, TokenInv, Early, Failing, TokenDue, TokenQuota, Amount, NeedsRefund
<1>6. QED
  BY <1>1, <1>3, <1>4, <1>5 DEF OK, s2

\* Abort: the refund starts if it is needed.
LEMMA Aborted ==
  ASSUME NEW q \in Requests,
         NEW s \in Session,
         OK(q, s),
         NEW next,
         s.pc = "relay",
         next \in {"fee", "failed"}
  PROVE  /\ [s EXCEPT !.pc = next, !.refund = IF NeedsRefund(s) THEN "funding" ELSE s.refund] \in Session
         /\ OK(q, [s EXCEPT !.pc = next, !.refund = IF NeedsRefund(s) THEN "funding" ELSE s.refund])
<1> DEFINE s2 == [s EXCEPT !.pc = next, !.refund = IF NeedsRefund(s) THEN "funding" ELSE s.refund]
<1>1. s2 \in Session
  <2>1. next \in Pc
    BY Fields DEF Pc
  <2>2. (IF NeedsRefund(s) THEN "funding" ELSE s.refund) \in RefundPc
    BY Fields, QuotasAssumption DEF RefundPc
  <2>3. QED
    BY <2>1, <2>2 DEF Session
<1>2. /\ s2.pc = next /\ s2.src = s.src /\ s2.est = s.est /\ s2.pre = s.pre
      /\ s2.tok = s.tok /\ s2.fund = s.fund /\ s2.actual = s.actual /\ s2.settled = s.settled
      /\ s2.refund = (IF NeedsRefund(s) THEN "funding" ELSE s.refund) /\ s2.record = s.record /\ s2.fee = s.fee /\ s2.feeToken = s.feeToken
      /\ s2.wallet = s.wallet /\ s2.sub = s.sub /\ s2.token = s.token /\ s2.tries = s.tries
      /\ s2.faulty = s.faulty
  BY DEF Session
<1> HIDE DEF s2
<1>3. PhaseInv(s2)
  BY <1>2, Fields DEF OK, PhaseInv, FundingInv, Early, Failing, Amount, NeedsRefund, maxAttempts
<1>4. FundingInv(s2)
  BY <1>2, Fields, QuotasAssumption DEF OK, PhaseInv, FundingInv, Early, Failing, FundingDue, Paid, Amount, NeedsRefund
<1>5. TokenInv(q, s2)
  BY <1>2, Fields, QuotasAssumption DEF OK, PhaseInv, TokenInv, Early, Failing, TokenDue, TokenQuota, Amount, NeedsRefund
<1>6. QED
  BY <1>1, <1>3, <1>4, <1>5 DEF OK, s2

\* ChargeFee: the wallet pays.
LEMMA WalletFee ==
  ASSUME NEW q \in Requests,
         NEW s \in Session,
         OK(q, s),
         s.pc = "fee",
         s.src = "wallet"
  PROVE  /\ [s EXCEPT !.pc = "feeToken", !.fee = Fee, !.wallet = s.wallet + Fee] \in Session
         /\ OK(q, [s EXCEPT !.pc = "feeToken", !.fee = Fee, !.wallet = s.wallet + Fee])
<1> DEFINE s2 == [s EXCEPT !.pc = "feeToken", !.fee = Fee, !.wallet = s.wallet + Fee]
<1>1. s2 \in Session
  <2>1. "feeToken" \in Pc
    BY DEF Pc
  <2>2. Fee \in Nat
    BY Fields, QuotasAssumption
  <2>3. s.wallet + Fee \in Int
    BY Fields, QuotasAssumption
  <2>4. QED
    BY <2>1, <2>2, <2>3 DEF Session
<1>2. /\ s2.pc = "feeToken" /\ s2.src = s.src /\ s2.est = s.est /\ s2.pre = s.pre
      /\ s2.tok = s.tok /\ s2.fund = s.fund /\ s2.actual = s.actual /\ s2.settled = s.settled
      /\ s2.refund = s.refund /\ s2.record = s.record /\ s2.fee = Fee /\ s2.feeToken = s.feeToken
      /\ s2.wallet = s.wallet + Fee /\ s2.sub = s.sub /\ s2.token = s.token /\ s2.tries = s.tries
      /\ s2.faulty = s.faulty
  BY DEF Session
<1> HIDE DEF s2
<1>3. PhaseInv(s2)
  BY <1>2, Fields DEF OK, PhaseInv, FundingInv, Early, Failing, Amount, NeedsRefund, maxAttempts
<1>4. FundingInv(s2)
  BY <1>2, Fields, QuotasAssumption DEF OK, PhaseInv, FundingInv, Early, Failing, FundingDue, Paid, Amount, NeedsRefund
<1>5. TokenInv(q, s2)
  BY <1>2, Fields, QuotasAssumption DEF OK, PhaseInv, TokenInv, Early, Failing, TokenDue, TokenQuota, Amount, NeedsRefund
<1>6. QED
  BY <1>1, <1>3, <1>4, <1>5 DEF OK, s2

\* ChargeFee: the subscription pays.
LEMMA SubFee ==
  ASSUME NEW q \in Requests,
         NEW s \in Session,
         OK(q, s),
         s.pc = "fee",
         s.src = "sub"
  PROVE  /\ [s EXCEPT !.pc = "feeToken", !.fee = Fee, !.sub = s.sub + Fee] \in Session
         /\ OK(q, [s EXCEPT !.pc = "feeToken", !.fee = Fee, !.sub = s.sub + Fee])
<1> DEFINE s2 == [s EXCEPT !.pc = "feeToken", !.fee = Fee, !.sub = s.sub + Fee]
<1>1. s2 \in Session
  <2>1. "feeToken" \in Pc
    BY DEF Pc
  <2>2. Fee \in Nat
    BY Fields, QuotasAssumption
  <2>3. s.sub + Fee \in Int
    BY Fields, QuotasAssumption
  <2>4. QED
    BY <2>1, <2>2, <2>3 DEF Session
<1>2. /\ s2.pc = "feeToken" /\ s2.src = s.src /\ s2.est = s.est /\ s2.pre = s.pre
      /\ s2.tok = s.tok /\ s2.fund = s.fund /\ s2.actual = s.actual /\ s2.settled = s.settled
      /\ s2.refund = s.refund /\ s2.record = s.record /\ s2.fee = Fee /\ s2.feeToken = s.feeToken
      /\ s2.wallet = s.wallet /\ s2.sub = s.sub + Fee /\ s2.token = s.token /\ s2.tries = s.tries
      /\ s2.faulty = s.faulty
  BY DEF Session
<1> HIDE DEF s2
<1>3. PhaseInv(s2)
  BY <1>2, Fields DEF OK, PhaseInv, FundingInv, Early, Failing, Amount, NeedsRefund, maxAttempts
<1>4. FundingInv(s2)
  BY <1>2, Fields, QuotasAssumption DEF OK, PhaseInv, FundingInv, Early, Failing, FundingDue, Paid, Amount, NeedsRefund
<1>5. TokenInv(q, s2)
  BY <1>2, Fields, QuotasAssumption DEF OK, PhaseInv, TokenInv, Early, Failing, TokenDue, TokenQuota, Amount, NeedsRefund
<1>6. QED
  BY <1>1, <1>3, <1>4, <1>5 DEF OK, s2

\* ChargeFee: the fee exceeds the total.
LEMMA FeeRefused ==
  ASSUME NEW q \in Requests,
         NEW s \in Session,
         OK(q, s),
         s.pc = "fee"
  PROVE  /\ [s EXCEPT !.pc = "failed"] \in Session
         /\ OK(q, [s EXCEPT !.pc = "failed"])
<1> DEFINE s2 == [s EXCEPT !.pc = "failed"]
<1>1. s2 \in Session
  <2>1. "failed" \in Pc
    BY DEF Pc
  <2>2. QED
    BY <2>1 DEF Session
<1>2. /\ s2.pc = "failed" /\ s2.src = s.src /\ s2.est = s.est /\ s2.pre = s.pre
      /\ s2.tok = s.tok /\ s2.fund = s.fund /\ s2.actual = s.actual /\ s2.settled = s.settled
      /\ s2.refund = s.refund /\ s2.record = s.record /\ s2.fee = s.fee /\ s2.feeToken = s.feeToken
      /\ s2.wallet = s.wallet /\ s2.sub = s.sub /\ s2.token = s.token /\ s2.tries = s.tries
      /\ s2.faulty = s.faulty
  BY DEF Session
<1> HIDE DEF s2
<1>3. PhaseInv(s2)
  BY <1>2, Fields DEF OK, PhaseInv, FundingInv, Early, Failing, Amount, NeedsRefund, maxAttempts
<1>4. FundingInv(s2)
  BY <1>2, Fields, QuotasAssumption DEF OK, PhaseInv, FundingInv, Early, Failing, FundingDue, Paid, Amount, NeedsRefund
<1>5. TokenInv(q, s2)
  BY <1>2, Fields, QuotasAssumption DEF OK, PhaseInv, TokenInv, Early, Failing, TokenDue, TokenQuota, Amount, NeedsRefund
<1>6. QED
  BY <1>1, <1>3, <1>4, <1>5 DEF OK, s2

\* ChargeFee and ChargeFeeToken: the statement fails.
LEMMA FeeFailed ==
  ASSUME NEW q \in Requests,
         NEW s \in Session,
         OK(q, s),
         s.pc \in {"fee", "feeToken"}
  PROVE  /\ [[s EXCEPT !.pc = "failed"] EXCEPT !.faulty = TRUE] \in Session
         /\ OK(q, [[s EXCEPT !.pc = "failed"] EXCEPT !.faulty = TRUE])
<1> DEFINE s2 == [[s EXCEPT !.pc = "failed"] EXCEPT !.faulty = TRUE]
<1>1. s2 \in Session
  <2>1. "failed" \in Pc
    BY DEF Pc
  <2>2. QED
    BY <2>1 DEF Session
<1>2. /\ s2.pc = "failed" /\ s2.src = s.src /\ s2.est = s.est /\ s2.pre = s.pre
      /\ s2.tok = s.tok /\ s2.fund = s.fund /\ s2.actual = s.actual /\ s2.settled = s.settled
      /\ s2.refund = s.refund /\ s2.record = s.record /\ s2.fee = s.fee /\ s2.feeToken = s.feeToken
      /\ s2.wallet = s.wallet /\ s2.sub = s.sub /\ s2.token = s.token /\ s2.tries = s.tries
      /\ s2.faulty = TRUE
  BY DEF Session
<1> HIDE DEF s2
<1>3. PhaseInv(s2)
  BY <1>2, Fields DEF OK, PhaseInv, FundingInv, Early, Failing, Amount, NeedsRefund, maxAttempts
<1>4. FundingInv(s2)
  BY <1>2, Fields, QuotasAssumption DEF OK, PhaseInv, FundingInv, Early, Failing, FundingDue, Paid, Amount, NeedsRefund
<1>5. TokenInv(q, s2)
  BY <1>2, Fields, QuotasAssumption DEF OK, PhaseInv, TokenInv, Early, Failing, TokenDue, TokenQuota, Amount, NeedsRefund
<1>6. QED
  BY <1>1, <1>3, <1>4, <1>5 DEF OK, s2

\* ChargeFeeToken: the token pays.
LEMMA TokenFee ==
  ASSUME NEW q \in Requests,
         NEW s \in Session,
         OK(q, s),
         s.pc = "feeToken"
  PROVE  /\ [s EXCEPT !.pc = "failed", !.feeToken = TokenQuota(q, Fee), !.token = s.token + TokenQuota(q, Fee)] \in Session
         /\ OK(q, [s EXCEPT !.pc = "failed", !.feeToken = TokenQuota(q, Fee), !.token = s.token + TokenQuota(q, Fee)])
<1> DEFINE s2 == [s EXCEPT !.pc = "failed", !.feeToken = TokenQuota(q, Fee), !.token = s.token + TokenQuota(q, Fee)]
<1>1. s2 \in Session
  <2>1. "failed" \in Pc
    BY DEF Pc
  <2>2. TokenQuota(q, Fee) \in Nat
    BY Fields, QuotasAssumption DEF TokenQuota
  <2>3. s.token + TokenQuota(q, Fee) \in Int
    BY Fields, QuotasAssumption DEF TokenQuota
  <2>4. QED
    BY <2>1, <2>2, <2>3 DEF Session
<1>2. /\ s2.pc = "failed" /\ s2.src = s.src /\ s2.est = s.est /\ s2.pre = s.pre
      /\ s2.tok = s.tok /\ s2.fund = s.fund /\ s2.actual = s.actual /\ s2.settled = s.settled
      /\ s2.refund = s.refund /\ s2.record = s.record /\ s2.fee = s.fee /\ s2.feeToken = TokenQuota(q, Fee)
      /\ s2.wallet = s.wallet /\ s2.sub = s.sub /\ s2.token = s.token + TokenQuota(q, Fee) /\ s2.tries = s.tries
      /\ s2.faulty = s.faulty
  BY DEF Session
<1> HIDE DEF s2
<1>3. PhaseInv(s2)
  BY <1>2, Fields DEF OK, PhaseInv, FundingInv, Early, Failing, Amount, NeedsRefund, maxAttempts
<1>4. FundingInv(s2)
  BY <1>2, Fields, QuotasAssumption DEF OK, PhaseInv, FundingInv, Early, Failing, FundingDue, Paid, Amount, NeedsRefund
<1>5. TokenInv(q, s2)
  BY <1>2, Fields, QuotasAssumption DEF OK, PhaseInv, TokenInv, Early, Failing, TokenDue, TokenQuota, Amount, NeedsRefund
<1>6. QED
  BY <1>1, <1>3, <1>4, <1>5 DEF OK, s2

\* RefundWallet: the charge is returned.
LEMMA WalletRefunded ==
  ASSUME NEW q \in Requests,
         NEW s \in Session,
         OK(q, s),
         s.refund = "funding",
         s.src = "wallet"
  PROVE  /\ [s EXCEPT !.refund = "token", !.wallet = s.wallet - s.fund] \in Session
         /\ OK(q, [s EXCEPT !.refund = "token", !.wallet = s.wallet - s.fund])
<1> DEFINE s2 == [s EXCEPT !.refund = "token", !.wallet = s.wallet - s.fund]
<1>1. s2 \in Session
  <2>1. "token" \in RefundPc
    BY DEF RefundPc
  <2>2. s.wallet - s.fund \in Int
    BY Fields, QuotasAssumption
  <2>3. QED
    BY <2>1, <2>2 DEF Session
<1>2. /\ s2.pc = s.pc /\ s2.src = s.src /\ s2.est = s.est /\ s2.pre = s.pre
      /\ s2.tok = s.tok /\ s2.fund = s.fund /\ s2.actual = s.actual /\ s2.settled = s.settled
      /\ s2.refund = "token" /\ s2.record = s.record /\ s2.fee = s.fee /\ s2.feeToken = s.feeToken
      /\ s2.wallet = s.wallet - s.fund /\ s2.sub = s.sub /\ s2.token = s.token /\ s2.tries = s.tries
      /\ s2.faulty = s.faulty
  BY DEF Session
<1> HIDE DEF s2
<1>3. PhaseInv(s2)
  BY <1>2, Fields DEF OK, PhaseInv, FundingInv, Early, Failing, Amount, NeedsRefund, maxAttempts
<1>4. FundingInv(s2)
  BY <1>2, Fields, QuotasAssumption DEF OK, PhaseInv, FundingInv, Early, Failing, FundingDue, Paid, Amount, NeedsRefund
<1>5. TokenInv(q, s2)
  BY <1>2, Fields, QuotasAssumption DEF OK, PhaseInv, TokenInv, Early, Failing, TokenDue, TokenQuota, Amount, NeedsRefund
<1>6. QED
  BY <1>1, <1>3, <1>4, <1>5 DEF OK, s2

\* RefundWallet: the statement fails.
LEMMA WalletNotRefunded ==
  ASSUME NEW q \in Requests,
         NEW s \in Session,
         OK(q, s),
         s.refund = "funding",
         s.src = "wallet"
  PROVE  /\ [[s EXCEPT !.refund = "token"] EXCEPT !.faulty = TRUE] \in Session
         /\ OK(q, [[s EXCEPT !.refund = "token"] EXCEPT !.faulty = TRUE])
<1> DEFINE s2 == [[s EXCEPT !.refund = "token"] EXCEPT !.faulty = TRUE]
<1>1. s2 \in Session
  <2>1. "token" \in RefundPc
    BY DEF RefundPc
  <2>2. QED
    BY <2>1 DEF Session
<1>2. /\ s2.pc = s.pc /\ s2.src = s.src /\ s2.est = s.est /\ s2.pre = s.pre
      /\ s2.tok = s.tok /\ s2.fund = s.fund /\ s2.actual = s.actual /\ s2.settled = s.settled
      /\ s2.refund = "token" /\ s2.record = s.record /\ s2.fee = s.fee /\ s2.feeToken = s.feeToken
      /\ s2.wallet = s.wallet /\ s2.sub = s.sub /\ s2.token = s.token /\ s2.tries = s.tries
      /\ s2.faulty = TRUE
  BY DEF Session
<1> HIDE DEF s2
<1>3. PhaseInv(s2)
  BY <1>2, Fields DEF OK, PhaseInv, FundingInv, Early, Failing, Amount, NeedsRefund, maxAttempts
<1>4. FundingInv(s2)
  BY <1>2, Fields, QuotasAssumption DEF OK, PhaseInv, FundingInv, Early, Failing, FundingDue, Paid, Amount, NeedsRefund
<1>5. TokenInv(q, s2)
  BY <1>2, Fields, QuotasAssumption DEF OK, PhaseInv, TokenInv, Early, Failing, TokenDue, TokenQuota, Amount, NeedsRefund
<1>6. QED
  BY <1>1, <1>3, <1>4, <1>5 DEF OK, s2

\* RefundSubscription: the charge is returned.
LEMMA SubRefunded ==
  ASSUME NEW q \in Requests,
         NEW s \in Session,
         OK(q, s),
         s.refund = "funding",
         s.src = "sub"
  PROVE  /\ [s EXCEPT !.refund = "mark", !.sub = s.sub - s.fund] \in Session
         /\ OK(q, [s EXCEPT !.refund = "mark", !.sub = s.sub - s.fund])
<1> DEFINE s2 == [s EXCEPT !.refund = "mark", !.sub = s.sub - s.fund]
<1>1. s2 \in Session
  <2>1. "mark" \in RefundPc
    BY DEF RefundPc
  <2>2. s.sub - s.fund \in Int
    BY Fields, QuotasAssumption
  <2>3. QED
    BY <2>1, <2>2 DEF Session
<1>2. /\ s2.pc = s.pc /\ s2.src = s.src /\ s2.est = s.est /\ s2.pre = s.pre
      /\ s2.tok = s.tok /\ s2.fund = s.fund /\ s2.actual = s.actual /\ s2.settled = s.settled
      /\ s2.refund = "mark" /\ s2.record = s.record /\ s2.fee = s.fee /\ s2.feeToken = s.feeToken
      /\ s2.wallet = s.wallet /\ s2.sub = s.sub - s.fund /\ s2.token = s.token /\ s2.tries = s.tries
      /\ s2.faulty = s.faulty
  BY DEF Session
<1> HIDE DEF s2
<1>3. PhaseInv(s2)
  BY <1>2, Fields DEF OK, PhaseInv, FundingInv, Early, Failing, Amount, NeedsRefund, maxAttempts
<1>4. FundingInv(s2)
  BY <1>2, Fields, QuotasAssumption DEF OK, PhaseInv, FundingInv, Early, Failing, FundingDue, Paid, Amount, NeedsRefund
<1>5. TokenInv(q, s2)
  BY <1>2, Fields, QuotasAssumption DEF OK, PhaseInv, TokenInv, Early, Failing, TokenDue, TokenQuota, Amount, NeedsRefund
<1>6. QED
  BY <1>1, <1>3, <1>4, <1>5 DEF OK, s2

\* RefundSubscription: the record says it is done.
LEMMA SubAlreadyRefunded ==
  ASSUME NEW q \in Requests,
         NEW s \in Session,
         OK(q, s),
         s.refund = "funding",
         s.src = "sub",
         s.record = "refunded"
  PROVE  /\ [s EXCEPT !.refund = "token"] \in Session
         /\ OK(q, [s EXCEPT !.refund = "token"])
<1> DEFINE s2 == [s EXCEPT !.refund = "token"]
<1>1. s2 \in Session
  <2>1. "token" \in RefundPc
    BY DEF RefundPc
  <2>2. QED
    BY <2>1 DEF Session
<1>2. /\ s2.pc = s.pc /\ s2.src = s.src /\ s2.est = s.est /\ s2.pre = s.pre
      /\ s2.tok = s.tok /\ s2.fund = s.fund /\ s2.actual = s.actual /\ s2.settled = s.settled
      /\ s2.refund = "token" /\ s2.record = s.record /\ s2.fee = s.fee /\ s2.feeToken = s.feeToken
      /\ s2.wallet = s.wallet /\ s2.sub = s.sub /\ s2.token = s.token /\ s2.tries = s.tries
      /\ s2.faulty = s.faulty
  BY DEF Session
<1> HIDE DEF s2
<1>3. PhaseInv(s2)
  BY <1>2, Fields DEF OK, PhaseInv, FundingInv, Early, Failing, Amount, NeedsRefund, maxAttempts
<1>4. FundingInv(s2)
  BY <1>2, Fields, QuotasAssumption DEF OK, PhaseInv, FundingInv, Early, Failing, FundingDue, Paid, Amount, NeedsRefund
<1>5. TokenInv(q, s2)
  BY <1>2, Fields, QuotasAssumption DEF OK, PhaseInv, TokenInv, Early, Failing, TokenDue, TokenQuota, Amount, NeedsRefund
<1>6. QED
  BY <1>1, <1>3, <1>4, <1>5 DEF OK, s2

\* RefundSubscription and MarkRefunded: the statement fails.
LEMMA SubRetried ==
  ASSUME NEW q \in Requests,
         NEW s \in Session,
         OK(q, s),
         s.refund \in {"funding", "mark"},
         s.src = "sub",
         s.tries < maxAttempts
  PROVE  /\ [[s EXCEPT !.tries = s.tries + 1, !.refund = IF s.tries + 1 < maxAttempts THEN "funding" ELSE "token"] EXCEPT !.faulty = TRUE] \in Session
         /\ OK(q, [[s EXCEPT !.tries = s.tries + 1, !.refund = IF s.tries + 1 < maxAttempts THEN "funding" ELSE "token"] EXCEPT !.faulty = TRUE])
<1> DEFINE s2 == [[s EXCEPT !.tries = s.tries + 1, !.refund = IF s.tries + 1 < maxAttempts THEN "funding" ELSE "token"] EXCEPT !.faulty = TRUE]
<1>1. s2 \in Session
  <2>1. s.tries + 1 \in 0..maxAttempts
    BY Fields DEF maxAttempts
  <2>2. (IF s.tries + 1 < maxAttempts THEN "funding" ELSE "token") \in RefundPc
    BY Fields, QuotasAssumption DEF RefundPc
  <2>3. QED
    BY <2>1, <2>2 DEF Session
<1>2. /\ s2.pc = s.pc /\ s2.src = s.src /\ s2.est = s.est /\ s2.pre = s.pre
      /\ s2.tok = s.tok /\ s2.fund = s.fund /\ s2.actual = s.actual /\ s2.settled = s.settled
      /\ s2.refund = (IF s.tries + 1 < maxAttempts THEN "funding" ELSE "token") /\ s2.record = s.record /\ s2.fee = s.fee /\ s2.feeToken = s.feeToken
      /\ s2.wallet = s.wallet /\ s2.sub = s.sub /\ s2.token = s.token /\ s2.tries = s.tries + 1
      /\ s2.faulty = TRUE
  BY DEF Session
<1> HIDE DEF s2
<1>3. PhaseInv(s2)
  BY <1>2, Fields DEF OK, PhaseInv, FundingInv, Early, Failing, Amount, NeedsRefund, maxAttempts
<1>4. FundingInv(s2)
  BY <1>2, Fields, QuotasAssumption DEF OK, PhaseInv, FundingInv, Early, Failing, FundingDue, Paid, Amount, NeedsRefund
<1>5. TokenInv(q, s2)
  BY <1>2, Fields, QuotasAssumption DEF OK, PhaseInv, TokenInv, Early, Failing, TokenDue, TokenQuota, Amount, NeedsRefund
<1>6. QED
  BY <1>1, <1>3, <1>4, <1>5 DEF OK, s2

\* MarkRefunded: the record is committed.
LEMMA SubMarked ==
  ASSUME NEW q \in Requests,
         NEW s \in Session,
         OK(q, s),
         s.refund = "mark"
  PROVE  /\ [s EXCEPT !.refund = "token", !.record = "refunded"] \in Session
         /\ OK(q, [s EXCEPT !.refund = "token", !.record = "refunded"])
<1> DEFINE s2 == [s EXCEPT !.refund = "token", !.record = "refunded"]
<1>1. s2 \in Session
  <2>1. "token" \in RefundPc
    BY DEF RefundPc
  <2>2. "refunded" \in {"none", "consumed", "refunded"}
    OBVIOUS
  <2>3. QED
    BY <2>1, <2>2 DEF Session
<1>2. /\ s2.pc = s.pc /\ s2.src = s.src /\ s2.est = s.est /\ s2.pre = s.pre
      /\ s2.tok = s.tok /\ s2.fund = s.fund /\ s2.actual = s.actual /\ s2.settled = s.settled
      /\ s2.refund = "token" /\ s2.record = "refunded" /\ s2.fee = s.fee /\ s2.feeToken = s.feeToken
      /\ s2.wallet = s.wallet /\ s2.sub = s.sub /\ s2.token = s.token /\ s2.tries = s.tries
      /\ s2.faulty = s.faulty
  BY DEF Session
<1> HIDE DEF s2
<1>3. PhaseInv(s2)
  BY <1>2, Fields DEF OK, PhaseInv, FundingInv, Early, Failing, Amount, NeedsRefund, maxAttempts
<1>4. FundingInv(s2)
  BY <1>2, Fields, QuotasAssumption DEF OK, PhaseInv, FundingInv, Early, Failing, FundingDue, Paid, Amount, NeedsRefund
<1>5. TokenInv(q, s2)
  BY <1>2, Fields, QuotasAssumption DEF OK, PhaseInv, TokenInv, Early, Failing, TokenDue, TokenQuota, Amount, NeedsRefund
<1>6. QED
  BY <1>1, <1>3, <1>4, <1>5 DEF OK, s2

\* RefundToken: the charge is returned.
LEMMA TokenRefunded ==
  ASSUME NEW q \in Requests,
         NEW s \in Session,
         OK(q, s),
         s.refund = "token"
  PROVE  /\ [s EXCEPT !.refund = "end", !.token = s.token - TokenQuota(q, s.tok)] \in Session
         /\ OK(q, [s EXCEPT !.refund = "end", !.token = s.token - TokenQuota(q, s.tok)])
<1> DEFINE s2 == [s EXCEPT !.refund = "end", !.token = s.token - TokenQuota(q, s.tok)]
<1>1. s2 \in Session
  <2>1. "end" \in RefundPc
    BY DEF RefundPc
  <2>2. s.token - TokenQuota(q, s.tok) \in Int
    BY Fields, QuotasAssumption DEF TokenQuota
  <2>3. QED
    BY <2>1, <2>2 DEF Session
<1>2. /\ s2.pc = s.pc /\ s2.src = s.src /\ s2.est = s.est /\ s2.pre = s.pre
      /\ s2.tok = s.tok /\ s2.fund = s.fund /\ s2.actual = s.actual /\ s2.settled = s.settled
      /\ s2.refund = "end" /\ s2.record = s.record /\ s2.fee = s.fee /\ s2.feeToken = s.feeToken
      /\ s2.wallet = s.wallet /\ s2.sub = s.sub /\ s2.token = s.token - TokenQuota(q, s.tok) /\ s2.tries = s.tries
      /\ s2.faulty = s.faulty
  BY DEF Session
<1> HIDE DEF s2
<1>3. PhaseInv(s2)
  BY <1>2, Fields DEF OK, PhaseInv, FundingInv, Early, Failing, Amount, NeedsRefund, maxAttempts
<1>4. FundingInv(s2)
  BY <1>2, Fields, QuotasAssumption DEF OK, PhaseInv, FundingInv, Early, Failing, FundingDue, Paid, Amount, NeedsRefund
<1>5. TokenInv(q, s2)
  BY <1>2, Fields, QuotasAssumption DEF OK, PhaseInv, TokenInv, Early, Failing, TokenDue, TokenQuota, Amount, NeedsRefund
<1>6. QED
  BY <1>1, <1>3, <1>4, <1>5 DEF OK, s2

\* RefundToken: the statement fails.
LEMMA TokenNotRefunded ==
  ASSUME NEW q \in Requests,
         NEW s \in Session,
         OK(q, s),
         s.refund = "token"
  PROVE  /\ [[s EXCEPT !.refund = "end"] EXCEPT !.faulty = TRUE] \in Session
         /\ OK(q, [[s EXCEPT !.refund = "end"] EXCEPT !.faulty = TRUE])
<1> DEFINE s2 == [[s EXCEPT !.refund = "end"] EXCEPT !.faulty = TRUE]
<1>1. s2 \in Session
  <2>1. "end" \in RefundPc
    BY DEF RefundPc
  <2>2. QED
    BY <2>1 DEF Session
<1>2. /\ s2.pc = s.pc /\ s2.src = s.src /\ s2.est = s.est /\ s2.pre = s.pre
      /\ s2.tok = s.tok /\ s2.fund = s.fund /\ s2.actual = s.actual /\ s2.settled = s.settled
      /\ s2.refund = "end" /\ s2.record = s.record /\ s2.fee = s.fee /\ s2.feeToken = s.feeToken
      /\ s2.wallet = s.wallet /\ s2.sub = s.sub /\ s2.token = s.token /\ s2.tries = s.tries
      /\ s2.faulty = TRUE
  BY DEF Session
<1> HIDE DEF s2
<1>3. PhaseInv(s2)
  BY <1>2, Fields DEF OK, PhaseInv, FundingInv, Early, Failing, Amount, NeedsRefund, maxAttempts
<1>4. FundingInv(s2)
  BY <1>2, Fields, QuotasAssumption DEF OK, PhaseInv, FundingInv, Early, Failing, FundingDue, Paid, Amount, NeedsRefund
<1>5. TokenInv(q, s2)
  BY <1>2, Fields, QuotasAssumption DEF OK, PhaseInv, TokenInv, Early, Failing, TokenDue, TokenQuota, Amount, NeedsRefund
<1>6. QED
  BY <1>1, <1>3, <1>4, <1>5 DEF OK, s2

\* tryWallet, from a new session or after the rollback of a subscription.
LEMMA WalletChosen ==
  ASSUME NEW q \in Requests, NEW s \in Session, PhaseInv(s), FundingInv(s),
         s.pc \in {"new", "overflow"}, s.token >= 0, ~s.faulty => s.token = 0,
         NEW p \in {"relay", "token"}
  PROVE  /\ [s EXCEPT !.src = "wallet", !.tok = 0, !.pc = p] \in Session
         /\ OK(q, [s EXCEPT !.src = "wallet", !.tok = 0, !.pc = p])
<1> DEFINE s2 == [s EXCEPT !.src = "wallet", !.tok = 0, !.pc = p]
<1>1. s2 \in Session
  <2>1. p \in Pc
    BY DEF Pc
  <2>2. QED
    BY <2>1 DEF Session
<1>2. /\ s2.pc = p /\ s2.src = "wallet" /\ s2.est = s.est /\ s2.pre = s.pre
      /\ s2.tok = 0 /\ s2.fund = s.fund /\ s2.actual = s.actual /\ s2.settled = s.settled
      /\ s2.refund = s.refund /\ s2.record = s.record /\ s2.fee = s.fee
      /\ s2.feeToken = s.feeToken /\ s2.wallet = s.wallet /\ s2.sub = s.sub
      /\ s2.token = s.token /\ s2.tries = s.tries /\ s2.faulty = s.faulty
  BY DEF Session
<1> HIDE DEF s2
<1>3. PhaseInv(s2)
  BY <1>2, Fields DEF PhaseInv, Early, Failing, Amount, maxAttempts
<1>4. FundingInv(s2)
  BY <1>2, Fields DEF PhaseInv, FundingInv, Early, Failing, FundingDue, Paid
<1>5. TokenInv(q, s2)
  BY <1>2, Fields DEF PhaseInv, TokenInv, Early, Failing, TokenDue, TokenQuota
<1>6. QED
  BY <1>1, <1>3, <1>4, <1>5 DEF OK, s2

LEMMA TryWalletStep ==
  ASSUME NEW q \in Requests, NEW s \in Session, PhaseInv(s), FundingInv(s),
         s.pc \in {"new", "overflow"}, s.token >= 0, ~s.faulty => s.token = 0,
         TryWallet(q, s)
  PROVE  \E s2 \in Session : OK(q, s2) /\ Step(q, s2)
<1>1. PICK p \in {"relay", "token"} :
        Step(q, [s EXCEPT !.src = "wallet", !.tok = 0, !.pc = p])
  BY DEF TryWallet
<1>2. QED
  BY <1>1, WalletChosen

\* A new session with its estimate.
LEMMA Estimated ==
  ASSUME NEW q \in Requests, NEW s \in Session, OK(q, s), s.pc = "new", NEW e \in Nat
  PROVE  /\ [s EXCEPT !.est = e] \in Session
         /\ PhaseInv([s EXCEPT !.est = e]) /\ FundingInv([s EXCEPT !.est = e])
         /\ [s EXCEPT !.est = e].pc = "new"
         /\ [s EXCEPT !.est = e].token >= 0
         /\ ~[s EXCEPT !.est = e].faulty => [s EXCEPT !.est = e].token = 0
<1> DEFINE s2 == [s EXCEPT !.est = e]
<1>1. s2 \in Session
  BY DEF Session
<1>2. /\ s2.pc = s.pc /\ s2.src = s.src /\ s2.est = e /\ s2.pre = s.pre
      /\ s2.tok = s.tok /\ s2.fund = s.fund /\ s2.actual = s.actual /\ s2.settled = s.settled
      /\ s2.refund = s.refund /\ s2.record = s.record /\ s2.fee = s.fee
      /\ s2.feeToken = s.feeToken /\ s2.wallet = s.wallet /\ s2.sub = s.sub
      /\ s2.token = s.token /\ s2.tries = s.tries /\ s2.faulty = s.faulty
  BY DEF Session
<1> HIDE DEF s2
<1>3. PhaseInv(s2)
  BY <1>2, Fields DEF OK, PhaseInv, Early, Failing, Amount, maxAttempts
<1>4. FundingInv(s2)
  BY <1>2, Fields DEF OK, PhaseInv, FundingInv, Early, Failing, FundingDue, Paid
<1>5. s2.token >= 0 /\ (~s2.faulty => s2.token = 0)
  BY <1>2, Fields DEF OK, PhaseInv, TokenInv, TokenDue, TokenQuota, Early, Failing
<1>6. QED
  BY <1>1, <1>2, <1>3, <1>4, <1>5 DEF s2

\* The token after the rollback of a pre-consumption, done (r = TRUE) or failed.
LEMMA RolledBack ==
  ASSUME NEW q \in Requests, NEW s \in Session, OK(q, s), s.pc \in {"rollback", "overflow"},
         NEW s2, \/ s2 = [s EXCEPT !.token = @ - TokenQuota(q, s.tok)]
                 \/ s2 = [s EXCEPT !.faulty = TRUE]
  PROVE  /\ s2 \in Session /\ s2.pc = s.pc
         /\ PhaseInv(s2) /\ FundingInv(s2)
         /\ s2.token >= 0 /\ (~s2.faulty => s2.token = 0)
<1>1. s.token - TokenQuota(q, s.tok) \in Int
  BY Fields DEF TokenQuota
<1>2. s2 \in Session
  BY <1>1 DEF Session
<1>3. /\ s2.pc = s.pc /\ s2.src = s.src /\ s2.est = s.est /\ s2.pre = s.pre
      /\ s2.tok = s.tok /\ s2.fund = s.fund /\ s2.actual = s.actual /\ s2.settled = s.settled
      /\ s2.refund = s.refund /\ s2.record = s.record /\ s2.fee = s.fee
      /\ s2.feeToken = s.feeToken /\ s2.wallet = s.wallet /\ s2.sub = s.sub /\ s2.tries = s.tries
  BY DEF Session
<1>4. \/ s2.token = s.token - TokenQuota(q, s.tok) /\ s2.faulty = s.faulty
      \/ s2.token = s.token /\ s2.faulty
  BY DEF Session
<1>5. PhaseInv(s2)
  BY <1>3, <1>4, Fields DEF OK, PhaseInv, Early, Failing, Amount, maxAttempts
<1>6. FundingInv(s2)
  BY <1>3, <1>4, Fields DEF OK, PhaseInv, FundingInv, Early, Failing, FundingDue, Paid
<1>7. s2.token >= 0 /\ (~s2.faulty => s2.token = 0)
  BY <1>3, <1>4, Fields DEF OK, PhaseInv, TokenInv, TokenDue, TokenQuota, Early, Failing
<1>8. QED
  BY <1>2, <1>3, <1>5, <1>6, <1>7

\* The end of a rejected request.
LEMMA Rejected ==
  ASSUME NEW q \in Requests, NEW s \in Session, PhaseInv(s), FundingInv(s),
         s.pc = "rollback", s.token >= 0, ~s.faulty => s.token = 0
  PROVE  /\ [s EXCEPT !.pc = "rejected", !.tok = 0] \in Session
         /\ OK(q, [s EXCEPT !.pc = "rejected", !.tok = 0])
<1> DEFINE s2 == [s EXCEPT !.pc = "rejected", !.tok = 0]
<1>1. s2 \in Session
  <2>1. "rejected" \in Pc
    BY DEF Pc
  <2>2. QED
    BY <2>1 DEF Session
<1>2. /\ s2.pc = "rejected" /\ s2.src = s.src /\ s2.est = s.est /\ s2.pre = s.pre
      /\ s2.tok = 0 /\ s2.fund = s.fund /\ s2.actual = s.actual /\ s2.settled = s.settled
      /\ s2.refund = s.refund /\ s2.record = s.record /\ s2.fee = s.fee
      /\ s2.feeToken = s.feeToken /\ s2.wallet = s.wallet /\ s2.sub = s.sub
      /\ s2.token = s.token /\ s2.tries = s.tries /\ s2.faulty = s.faulty
  BY DEF Session
<1> HIDE DEF s2
<1>3. PhaseInv(s2)
  BY <1>2, Fields DEF PhaseInv, Early, Failing, Amount, maxAttempts
<1>4. FundingInv(s2)
  BY <1>2, Fields DEF PhaseInv, FundingInv, Early, Failing, FundingDue, Paid
<1>5. TokenInv(q, s2)
  BY <1>2, Fields DEF PhaseInv, TokenInv, Early, Failing, TokenDue, TokenQuota
<1>6. QED
  BY <1>1, <1>3, <1>4, <1>5 DEF OK, s2

LEMMA AfterRollbackStep ==
  ASSUME NEW q \in Requests, NEW s \in Session, PhaseInv(s), FundingInv(s),
         s.token >= 0, ~s.faulty => s.token = 0, AfterRollback(q, s)
  PROVE  \E s2 \in Session : OK(q, s2) /\ Step(q, s2)
<1>1. CASE s.pc = "overflow" /\ TryWallet(q, s)
  BY <1>1, TryWalletStep
<1>2. CASE s.pc = "rollback" /\ Step(q, [s EXCEPT !.pc = "rejected", !.tok = 0])
  BY <1>2, Rejected
<1>3. QED
  BY <1>1, <1>2 DEF AfterRollback

-----------------------------------------------------------------------------
\* One session replaced by a good one leaves all sessions good.
LEMMA Replaced ==
  ASSUME sess \in [Requests -> Session], \A q \in Requests : OK(q, sess[q]),
         NEW q \in Requests, NEW s2 \in Session, OK(q, s2), Step(q, s2)
  PROVE  sess' \in [Requests -> Session] /\ \A r \in Requests : OK(r, sess'[r])
<1>1. sess' = [sess EXCEPT ![q] = s2]
  BY DEF Step
<1>2. ASSUME NEW r \in Requests PROVE OK(r, sess'[r])
  BY <1>1, Zenon
<1>3. QED
  BY <1>1, <1>2

\* Every pre-consumption step replaces the session by a good one.
LEMMA PreConsumeReplaces ==
  ASSUME NEW q \in Requests, sess[q] \in Session, OK(q, sess[q]), PreConsumeStep(q)
  PROVE  \E s2 \in Session : OK(q, s2) /\ Step(q, s2)
<1> DEFINE s == sess[q]
<1> HIDE DEF s
<1>0. s \in Session /\ OK(q, s)
  BY DEF s
<1>1. CASE NewBillingSession(q)
  <2>1. PICK e \in Estimates :
          \/ TryWallet(q, [s EXCEPT !.est = e])
          \/ Step(q, [s EXCEPT !.est = e, !.src = "sub", !.pc = "token"])
    BY <1>1 DEF NewBillingSession, s
  <2>2. s.pc = "new" /\ e \in Nat
    BY <1>1, QuotasAssumption DEF NewBillingSession, s
  <2>3. CASE TryWallet(q, [s EXCEPT !.est = e])
    BY <1>0, <2>2, <2>3, Estimated, TryWalletStep
  <2>4. CASE Step(q, [s EXCEPT !.est = e, !.src = "sub", !.pc = "token"])
    BY <1>0, <2>2, <2>4, SubChosen
  <2>5. QED
    BY <2>1, <2>3, <2>4
<1>2. CASE PreConsumeToken(q)
  BY <1>0, <1>2, TokenTaken, TokenRefused DEF PreConsumeToken, s
<1>3. CASE PreConsumeWallet(q)
  BY <1>0, <1>3, WalletTaken, FundingFailed DEF PreConsumeWallet, Fails, s
<1>4. CASE PreConsumeSubscription(q)
  BY <1>0, <1>4, SubTaken, SubUnavailable, FundingFailed DEF PreConsumeSubscription, Fails, s
<1>5. CASE RollbackToken(q)
  <2>1. PICK s2 : /\ \/ s2 = [s EXCEPT !.token = @ - TokenQuota(q, s.tok)]
                     \/ s2 = [s EXCEPT !.faulty = TRUE]
                  /\ AfterRollback(q, s2)
    BY <1>5 DEF RollbackToken, s
  <2>2. s.pc \in {"rollback", "overflow"}
    BY <1>5 DEF RollbackToken, s
  <2>3. QED
    BY <1>0, <2>1, <2>2, RolledBack, AfterRollbackStep
<1>6. QED
  BY <1>1, <1>2, <1>3, <1>4, <1>5 DEF PreConsumeStep

\* So does every step that ends the request.
LEMMA EndReplaces ==
  ASSUME NEW q \in Requests, sess[q] \in Session, OK(q, sess[q]), EndStep(q)
  PROVE  \E s2 \in Session : OK(q, s2) /\ Step(q, s2)
<1> DEFINE s == sess[q]
<1> HIDE DEF s
<1>0. s \in Session /\ OK(q, s)
  BY DEF s
<1>1. CASE Succeed(q)
  <2>1. PICK a \in 0..MaxQuota :
          Step(q, [s EXCEPT !.actual = a, !.settled = (a = s.pre),
                            !.pc = IF a = s.pre THEN "done" ELSE "settle"])
    BY <1>1 DEF Succeed, s
  <2>2. s.pc = "relay" /\ a \in Nat
    BY <1>1, QuotasAssumption DEF Succeed, s
  <2> DEFINE s2 == [s EXCEPT !.actual = a, !.settled = (a = s.pre),
                             !.pc = IF a = s.pre THEN "done" ELSE "settle"]
  <2>3. s2 \in Session /\ OK(q, s2)
    BY <1>0, <2>2, Succeeded
  <2> HIDE DEF s2
  <2>4. Step(q, s2)
    BY <2>1, Zenon DEF s2
  <2>5. QED
    BY <2>3, <2>4
<1>2. CASE SettleWallet(q)
  BY <1>0, <1>2, WalletSettled, SettleFailed DEF SettleWallet, Fails, s
<1>3. CASE SettleSubscription(q)
  BY <1>0, <1>3, SubSettled, SettleRefused, SettleFailed DEF SettleSubscription, Fails, s
<1>4. CASE SettleToken(q)
  BY <1>0, <1>4, TokenSettled, TokenSettleFailed DEF SettleToken, Fails, s
<1>5. CASE Abort(q)
  <2>1. PICK next \in {"fee", "failed"} :
          Step(q, [s EXCEPT !.pc = next,
                            !.refund = IF NeedsRefund(s) THEN "funding" ELSE @])
    BY <1>5 DEF Abort, s
  <2>2. s.pc = "relay"
    BY <1>5 DEF Abort, s
  <2>3. QED
    BY <1>0, <2>1, <2>2, Aborted
<1>6. CASE ChargeFee(q)
  BY <1>0, <1>6, WalletFee, SubFee, FeeRefused, FeeFailed DEF ChargeFee, Fails, s
<1>7. CASE ChargeFeeToken(q)
  BY <1>0, <1>7, TokenFee, FeeFailed DEF ChargeFeeToken, Fails, s
<1>8. QED
  BY <1>1, <1>2, <1>3, <1>4, <1>5, <1>6, <1>7 DEF EndStep

\* And so does every step of the refund goroutine.
LEMMA RefundReplaces ==
  ASSUME NEW q \in Requests, sess[q] \in Session, OK(q, sess[q]),
         RefundStep(q)
  PROVE  \E s2 \in Session : OK(q, s2) /\ Step(q, s2)
<1> DEFINE s == sess[q]
<1> HIDE DEF s
<1>0. s \in Session /\ OK(q, s) /\ (s.refund \in {"funding", "mark"} => s.tries < maxAttempts)
  BY DEF s, OK, PhaseInv
<1>1. CASE RefundWallet(q)
  BY <1>0, <1>1, WalletRefunded, WalletNotRefunded DEF RefundWallet, Fails, s
<1>2. CASE RefundSubscription(q)
  BY <1>0, <1>2, SubRefunded, SubAlreadyRefunded, SubRetried
     DEF RefundSubscription, Fails, Retry, s
<1>3. CASE MarkRefunded(q)
  <2>1. s.src = "sub"
    BY <1>0, <1>3 DEF MarkRefunded, OK, PhaseInv, s
  <2>2. QED
    BY <1>0, <1>3, <2>1, SubMarked, SubRetried DEF MarkRefunded, Fails, Retry, s
<1>4. CASE RefundToken(q)
  BY <1>0, <1>4, TokenRefunded, TokenNotRefunded DEF RefundToken, Fails, s
<1>5. QED
  BY <1>1, <1>2, <1>3, <1>4 DEF RefundStep

-----------------------------------------------------------------------------
\* A change of the subscription that fits leaves it within its total.
LEMMA UsedInRange ==
  ASSUME TypeOK, NEW delta \in Int, Fits(delta) \/ delta <= 0, used' = NewUsed(delta)
  PROVE  used' \in 0..SubTotal
BY QuotasAssumption DEF TypeOK, Fits, NewUsed

LEMMA CountersOfPreConsume ==
  ASSUME TypeOK, NEW q \in Requests, PreConsumeStep(q)
  PROVE  used' \in 0..SubTotal /\ fails' \in 0..MaxFail
<1>1. sess[q] \in Session /\ used \in 0..SubTotal /\ fails \in 0..MaxFail
  BY DEF TypeOK
<1>2. CASE NewBillingSession(q)
  BY <1>1, <1>2 DEF NewBillingSession
<1>3. CASE PreConsumeToken(q)
  BY <1>1, <1>3 DEF PreConsumeToken
<1>4. CASE PreConsumeWallet(q)
  BY <1>1, <1>4, QuotasAssumption DEF PreConsumeWallet, Fails
<1>5. CASE PreConsumeSubscription(q)
  <2>1. Amount(sess[q]) \in Int
    BY <1>1, Fields DEF Amount
  <2>2. QED
    BY <1>1, <1>5, <2>1, UsedInRange, QuotasAssumption DEF PreConsumeSubscription, Fails
<1>6. CASE RollbackToken(q)
  BY <1>1, <1>6, QuotasAssumption DEF RollbackToken
<1>7. QED
  BY <1>2, <1>3, <1>4, <1>5, <1>6 DEF PreConsumeStep

LEMMA CountersOfEnd ==
  ASSUME TypeOK, NEW q \in Requests, EndStep(q)
  PROVE  used' \in 0..SubTotal /\ fails' \in 0..MaxFail
<1>1. sess[q] \in Session /\ used \in 0..SubTotal /\ fails \in 0..MaxFail
  BY DEF TypeOK
<1>2. CASE Succeed(q)
  BY <1>1, <1>2 DEF Succeed
<1>3. CASE SettleWallet(q)
  BY <1>1, <1>3, QuotasAssumption DEF SettleWallet, Fails
<1>4. CASE SettleSubscription(q)
  <2>1. sess[q].actual - sess[q].pre \in Int
    BY <1>1, Fields
  <2>2. QED
    BY <1>1, <1>4, <2>1, UsedInRange, QuotasAssumption DEF SettleSubscription, Fails
<1>5. CASE SettleToken(q)
  BY <1>1, <1>5, QuotasAssumption DEF SettleToken, Fails
<1>6. CASE Abort(q)
  BY <1>1, <1>6 DEF Abort
<1>7. CASE ChargeFee(q)
  BY <1>1, <1>7, UsedInRange, QuotasAssumption DEF ChargeFee, Fails
<1>8. CASE ChargeFeeToken(q)
  BY <1>1, <1>8, QuotasAssumption DEF ChargeFeeToken, Fails
<1>9. QED
  BY <1>2, <1>3, <1>4, <1>5, <1>6, <1>7, <1>8 DEF EndStep

LEMMA CountersOfRefund ==
  ASSUME TypeOK, NEW q \in Requests, RefundStep(q)
  PROVE  used' \in 0..SubTotal /\ fails' \in 0..MaxFail
<1>1. sess[q] \in Session /\ used \in 0..SubTotal /\ fails \in 0..MaxFail
  BY DEF TypeOK
<1>2. CASE RefundWallet(q)
  BY <1>1, <1>2, QuotasAssumption DEF RefundWallet, Fails
<1>3. CASE RefundSubscription(q)
  <2>1. 0 - sess[q].fund \in Int /\ 0 - sess[q].fund <= 0
    BY <1>1, Fields
  <2>2. QED
    BY <1>1, <1>3, <2>1, UsedInRange, QuotasAssumption DEF RefundSubscription, Fails
<1>4. CASE MarkRefunded(q)
  BY <1>1, <1>4, QuotasAssumption DEF MarkRefunded, Fails
<1>5. CASE RefundToken(q)
  BY <1>1, <1>5, QuotasAssumption DEF RefundToken, Fails
<1>6. QED
  BY <1>2, <1>3, <1>4, <1>5 DEF RefundStep

LEMMA NewIsGood == New \in Session /\ \A q \in Requests : OK(q, New)
<1>1. New \in Session
  BY DEF New, Session, Pc, RefundPc, maxAttempts
<1>2. PhaseInv(New)
  BY DEF New, PhaseInv, Early, Failing, maxAttempts
<1>3. FundingInv(New)
  BY DEF New, FundingInv, FundingDue, Paid, Early
<1>4. ASSUME NEW q \in Requests PROVE TokenInv(q, New)
  BY DEF New, TokenInv, TokenDue, TokenQuota
<1>5. QED
  BY <1>1, <1>2, <1>3, <1>4 DEF OK

\* What each session has paid is in line with its phase, at the start ...
LEMMA InitGood == Init => TypeOK /\ SessionInv
<1> SUFFICES ASSUME Init PROVE TypeOK /\ SessionInv
  OBVIOUS
<1>1. \A q \in Requests : sess[q] = New
  BY DEF Init
<1>2. TypeOK
  BY NewIsGood, QuotasAssumption DEF Init, TypeOK
<1>3. SessionInv
  BY <1>1, NewIsGood, Zenon DEF SessionInv, OK
<1>4. QED
  BY <1>2, <1>3

\* ... and after every step.
LEMMA StepGood == TypeOK /\ SessionInv /\ [Next]_vars => TypeOK' /\ SessionInv'
<1> SUFFICES ASSUME TypeOK, SessionInv, [Next]_vars PROVE TypeOK' /\ SessionInv'
  OBVIOUS
<1>1. /\ sess \in [Requests -> Session]
      /\ \A q \in Requests : sess[q] \in Session /\ OK(q, sess[q])
  BY DEF TypeOK, SessionInv, OK
<1>2. CASE Next
  <2>1. PICK q \in Requests : PreConsumeStep(q) \/ EndStep(q) \/ RefundStep(q)
    BY <1>2 DEF Next
  <2>2. used' \in 0..SubTotal /\ fails' \in 0..MaxFail
    BY <2>1, CountersOfPreConsume, CountersOfEnd, CountersOfRefund
  <2>3. PICK s2 \in Session : OK(q, s2) /\ Step(q, s2)
    BY <1>1, <2>1, PreConsumeReplaces, EndReplaces, RefundReplaces
  <2>4. sess' \in [Requests -> Session] /\ \A r \in Requests : OK(r, sess'[r])
    BY <1>1, <2>3, Replaced
  <2>5. QED
    BY <2>2, <2>4 DEF TypeOK, SessionInv, OK
<1>3. CASE UNCHANGED vars
  BY <1>3 DEF vars, TypeOK, SessionInv, PhaseInv, FundingInv, TokenInv
<1>4. QED
  BY <1>2, <1>3

\* In every reachable state the fields of the sessions are of their types and
\* the subscription holds between nothing and its total: PostConsumeUserSubscriptionDelta
\* refuses what exceeds AmountTotal and clamps at zero.
THEOREM TypeCorrect == Spec => []TypeOK
BY InitGood, StepGood, PTL DEF Spec

\* The inductive invariant: in every phase of its life a session has been
\* charged exactly what it should have been by then, if no statement failed.
THEOREM PaidByPhase == Spec => []SessionInv
BY InitGood, StepGood, PTL DEF Spec

\* BillingSession.Settle: a settled request has paid its actual cost, once,
\* whatever the number of requests, their estimates and the interleaving.
THEOREM SettledPaysActual == Spec => []SettledExact
<1>1. TypeOK /\ SessionInv => SettledExact
  <2> SUFFICES ASSUME TypeOK, SessionInv, NEW q \in Requests,
                      sess[q].settled, ~sess[q].faulty
               PROVE  Paid(sess[q]) = sess[q].actual /\ sess[q].token = TokenQuota(q, sess[q].actual)
    BY DEF SettledExact
  <2>1. FundingInv(sess[q]) /\ TokenInv(q, sess[q])
    BY DEF SessionInv
  <2>2. QED
    BY <2>1 DEF FundingInv, TokenInv, FundingDue, TokenDue
<1>2. QED
  BY <1>1, TypeCorrect, PaidByPhase, PTL

\* BillingSession.Refund and ChargeViolationFeeIfNeeded: a request that failed
\* has in the end paid nothing but the fee.
THEOREM FailedPaysFee == Spec => []FailedPaysOnlyFee
<1>1. TypeOK /\ SessionInv => FailedPaysOnlyFee
  <2> SUFFICES ASSUME TypeOK, SessionInv, NEW q \in Requests,
                      sess[q].pc \in {"failed", "rejected"},
                      sess[q].refund \in {"none", "end"}, ~sess[q].faulty
               PROVE  Paid(sess[q]) = sess[q].fee /\ sess[q].token = sess[q].feeToken
    BY DEF FailedPaysOnlyFee
  <2> DEFINE s == sess[q]
  <2>1. s \in Session /\ PhaseInv(s) /\ FundingInv(s) /\ TokenInv(q, s)
    BY DEF TypeOK, SessionInv
  <2>2. s.pc \in {"failed", "rejected"} /\ s.refund \in {"none", "end"} /\ ~s.faulty
    OBVIOUS
  <2> HIDE DEF s
  <2>3. Paid(s) = s.fee /\ s.token = s.feeToken
    BY <2>1, <2>2, Fields DEF PhaseInv, FundingInv, TokenInv, FundingDue, TokenDue,
                              TokenQuota, Early, Failing
  <2>4. QED
    BY <2>3 DEF s
<1>2. QED
  BY <1>1, TypeCorrect, PaidByPhase, PTL

\* WalletFunding.Refund is never retried and the token is refunded once: even
\* when statements fail, nothing is given back that was not charged.
THEOREM NothingOverRefunded == Spec => []NeverOverRefunded
<1>1. TypeOK /\ SessionInv => NeverOverRefunded
  <2> SUFFICES ASSUME TypeOK, SessionInv, NEW q \in Requests
               PROVE  sess[q].wallet >= 0 /\ sess[q].token >= 0
    BY DEF NeverOverRefunded
  <2> DEFINE s == sess[q]
  <2>1. s \in Session /\ PhaseInv(s) /\ FundingInv(s) /\ TokenInv(q, s)
    BY DEF TypeOK, SessionInv
  <2> HIDE DEF s
  <2>2. s.wallet >= 0
    BY <2>1, Fields DEF FundingInv, FundingDue
  <2>3. s.token >= 0
    BY <2>1, Fields DEF TokenInv, TokenDue, TokenQuota
  <2>4. QED
    BY <2>2, <2>3 DEF s
<1>2. QED
  BY <1>1, TypeCorrect, PaidByPhase, PTL

\* NewBillingSession: a request that falls back to the wallet has not been
\* charged on the subscription.
THEOREM OnlyOneSource == Spec => []OneSource
<1>1. TypeOK /\ SessionInv => OneSource
  <2> SUFFICES ASSUME TypeOK, SessionInv, NEW q \in Requests
               PROVE  sess[q].wallet = 0 \/ sess[q].sub = 0
    BY DEF OneSource
  <2>1. FundingInv(sess[q])
    BY DEF SessionInv
  <2>2. QED
    BY <2>1 DEF FundingInv
<1>2. QED
  BY <1>1, TypeCorrect, PaidByPhase, PTL
=============================================================================
