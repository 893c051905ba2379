------------------------- MODULE CodexDeviceProofs -------------------------
(***************************************************************************)
(* Proofs about CodexDevice, for any number of poll requests and any       *)
(* lengths of the lease and of the attempt: the row never goes back to a   *)
(* stage from which the code would be sent again, and the requests         *)
(* together implement DeviceAttempt.                                       *)
(***************************************************************************)
EXTENDS CodexDevice, TLAPS

-----------------------------------------------------------------------------
(* The inductive invariant.                                                *)

\* A request that is about to send the one-time code.
Sender(p) == \/ poll[p].pc = "exchange"
             \/ poll[p].pc = "reread" /\ poll[p].exchanging

\* The row's stage tells whether the code was sent.
Counted == /\ exchanges \in {0, 1}
           /\ exchanges = 1 => rec.stage \notin {"pending", "polled"}
           /\ rec.stage \in {"exchanged", "saved"} => exchanges = 1

\* Whoever is about to send it is alone, whether or not the row is still its
\* own, and whoever has its answer knows that it was sent.
Senders == /\ \A p \in Polls : Sender(p) => exchanges = 0 /\ rec.stage = "exchange_started"
           /\ \A p, q \in Polls : Sender(p) /\ Sender(q) => p = q
           /\ \A p \in Polls : poll[p].pc = "keep" => exchanges = 1

\* The stages a request at pc may find in the row while the row is its own.
StagesAt(pc) == CASE pc \in {"ask", "code", "release"} -> {"pending"}
                  [] pc = "begin" -> {"polled"}
                  [] pc \in {"exchange", "keep"} -> {"exchange_started"}
                  [] pc = "save" -> {"exchanged"}
                  [] pc = "backoff" -> {"pending", "exchanged"}
                  [] OTHER -> Stages

Owned == \A p \in Polls :
    rec.status = "exchanging" /\ rec.owner = p => rec.stage \in StagesAt(poll[p].pc)

\* A row that is put back was released before the code was sent, or after its
\* answer was written; an error message means the attempt is over.
PutBack == /\ rec.status = "pending" => rec.stage \in {"pending", "exchanged"}
           /\ rec.failed => rec.status \in {"completed", "gone"}

IInv == TypeOK /\ Counted /\ Senders /\ Owned /\ PutBack

-----------------------------------------------------------------------------
(* Types.                                                                  *)

USE DeviceAssumption

LEMMA InitTypes == Init => TypeOK
<1> SUFFICES ASSUME Init PROVE TypeOK
  OBVIOUS
<1>1. rec \in Record
  BY DEF Init, Record, Stages
<1>2. NewPoll \in Poll
  BY DEF NewPoll, Poll, PollPc
<1>3. poll \in [Polls -> Poll]
  BY <1>2 DEF Init
<1>4. QED
  BY <1>1, <1>3 DEF Init, TypeOK

Status == {"gone", "pending", "exchanging", "completed", "cancelled", "uncertain"}

\* Writes of one field, and of the row's holder, keep the types.
LEMMA SetPc ==
  ASSUME NEW f \in [Polls -> Poll], NEW p \in Polls, NEW v \in PollPc
  PROVE  [f EXCEPT ![p].pc = v] \in [Polls -> Poll]
BY DEF Poll

LEMMA SetAt ==
  ASSUME NEW f \in [Polls -> Poll], NEW p \in Polls, NEW v \in Nat
  PROVE  [f EXCEPT ![p].at = v] \in [Polls -> Poll]
BY DEF Poll

LEMMA SetFence ==
  ASSUME NEW f \in [Polls -> Poll], NEW p \in Polls, NEW v \in Nat
  PROVE  [f EXCEPT ![p].fence = v] \in [Polls -> Poll]
BY DEF Poll

LEMMA SetExchanging ==
  ASSUME NEW f \in [Polls -> Poll], NEW p \in Polls, NEW v \in BOOLEAN
  PROVE  [f EXCEPT ![p].exchanging = v] \in [Polls -> Poll]
BY DEF Poll

\* The combinations of them that requests write.
LEMMA SetPcAt ==
  ASSUME poll \in [Polls -> Poll], NEW p \in Polls, NEW pc \in PollPc, NEW n \in Nat
  PROVE  [poll EXCEPT ![p].pc = pc, ![p].at = n] \in [Polls -> Poll]
<1>1. [poll EXCEPT ![p].pc = pc] \in [Polls -> Poll]
  BY SetPc
<1>2. QED
  BY <1>1, SetAt

LEMMA SetPcFence ==
  ASSUME poll \in [Polls -> Poll], NEW p \in Polls, NEW pc \in PollPc, NEW n \in Nat
  PROVE  [poll EXCEPT ![p].pc = pc, ![p].fence = n] \in [Polls -> Poll]
<1>1. [poll EXCEPT ![p].pc = pc] \in [Polls -> Poll]
  BY SetPc
<1>2. QED
  BY <1>1, SetFence

LEMMA SetPcExchanging ==
  ASSUME poll \in [Polls -> Poll], NEW p \in Polls, NEW pc \in PollPc, NEW e \in BOOLEAN
  PROVE  [poll EXCEPT ![p].pc = pc, ![p].exchanging = e] \in [Polls -> Poll]
<1>1. [poll EXCEPT ![p].pc = pc] \in [Polls -> Poll]
  BY SetPc
<1>2. QED
  BY <1>1, SetExchanging

LEMMA SetAfterReread ==
  ASSUME poll \in [Polls -> Poll], NEW p \in Polls, NEW pc \in PollPc, NEW n \in Nat
  PROVE  [poll EXCEPT ![p].pc = pc, ![p].fence = n, ![p].exchanging = FALSE]
            \in [Polls -> Poll]
<1>1. [poll EXCEPT ![p].pc = pc, ![p].fence = n] \in [Polls -> Poll]
  BY SetPcFence
<1>2. QED
  BY <1>1, SetExchanging

LEMMA FreeType == ASSUME rec \in Record, NEW s \in Status PROVE Free(s) \in Record
BY DEF Record, Stages, Status, Free

LEMMA SetStage == ASSUME NEW r \in Record, NEW st \in Stages
                  PROVE  [r EXCEPT !.stage = st] \in Record
BY DEF Record

LEMMA SetNext == ASSUME NEW r \in Record, NEW n \in Nat PROVE [r EXCEPT !.next = n] \in Record
BY DEF Record

LEMMA SetRowFence == ASSUME NEW r \in Record, NEW n \in Nat PROVE [r EXCEPT !.fence = n] \in Record
BY DEF Record

LEMMA SetLease == ASSUME NEW r \in Record, NEW n \in Nat PROVE [r EXCEPT !.lease = n] \in Record
BY DEF Record

LEMMA SetFailed == ASSUME NEW r \in Record PROVE [r EXCEPT !.failed = TRUE] \in Record
BY DEF Record

\* An advance keeps the types.
LEMMA AdvanceRow ==
  ASSUME rec \in Record, NEW st \in Stages
  PROVE  [rec EXCEPT !.stage = st, !.next = 0] \in Record
<1>1. [rec EXCEPT !.stage = st] \in Record
  BY SetStage
<1>2. QED
  BY <1>1, SetNext

LEMMA AdvanceTypes ==
  ASSUME TypeOK, NEW p \in Polls, NEW st \in Stages, Advance(p, st)
  PROVE  rec' \in Record /\ poll' \in [Polls -> Poll]
<1>1. rec' \in Record
  BY AdvanceRow DEF Advance, TypeOK
<1>2. (st = "exchange_started") \in BOOLEAN
  OBVIOUS
<1>3. [poll EXCEPT ![p].pc = "reread", ![p].exchanging = st = "exchange_started"]
         \in [Polls -> Poll]
  BY <1>2, SetPcExchanging DEF TypeOK, PollPc
<1>4. Goto(p, "done") => poll' \in [Polls -> Poll]
  <2>1. poll \in [Polls -> Poll] /\ "done" \in PollPc
    BY DEF TypeOK, PollPc
  <2>2. QED
    BY <2>1, SetPc DEF Goto
<1>5. poll' \in [Polls -> Poll]
  BY <1>3, <1>4 DEF Advance
<1>6. QED
  BY <1>1, <1>5

\* The row of a new claim.
LEMMA ClaimRow ==
  ASSUME rec \in Record, NEW p \in Polls, NEW n \in Nat
  PROVE  [rec EXCEPT !.status = "exchanging", !.owner = p, !.fence = rec.fence + 1,
                     !.lease = n] \in Record
<1> DEFINE r == [rec EXCEPT !.status = "exchanging", !.owner = p]
<1>1. r \in Record
  BY DEF Record
<1>a. rec.fence + 1 \in Nat
  BY DEF Record
<1> HIDE DEF r
<1>2. [r EXCEPT !.fence = rec.fence + 1] \in Record
  BY <1>1, <1>a, SetRowFence
<1>3. [r EXCEPT !.fence = rec.fence + 1, !.lease = n] \in Record
  BY <1>2, SetLease
<1>4. QED
  BY <1>3 DEF r

LEMMA NextTypes == TypeOK /\ [Next]_vars => TypeOK'
<1> SUFFICES ASSUME TypeOK, [Next]_vars PROVE TypeOK'
  OBVIOUS
<1>a. rec \in Record /\ poll \in [Polls -> Poll] /\ now \in Nat /\ exchanges \in Nat
  BY DEF TypeOK
<1>b. \A p \in Polls : poll[p] \in Poll /\ poll[p].at \in Nat
  BY <1>a DEF Poll
<1>c. rec.fence \in Nat /\ rec.stage \in Stages
  BY <1>a DEF Record
<1>d. \A p \in Polls, pc \in PollPc : Goto(p, pc) => poll' \in [Polls -> Poll]
  BY <1>a, SetPc DEF Goto
<1>1. ASSUME NEW p \in Polls, Receive(p) PROVE TypeOK'
  BY <1>1, <1>a, SetPcAt DEF Receive, TypeOK, PollPc
<1>2. ASSUME NEW p \in Polls, Claim(p) PROVE TypeOK'
  <2> DEFINE claimed == [rec EXCEPT !.status = "exchanging", !.owner = p,
                             !.fence = rec.fence + 1, !.lease = poll[p].at + LeaseTTL]
  <2>a. poll[p].at + LeaseTTL \in Nat
    BY <1>b
  <2>c. claimed \in Record
    BY <1>a, <2>a, ClaimRow
  <2>b. Free("uncertain") \in Record
    BY <1>a, FreeType DEF Status
  <2>1. rec' \in Record
    BY <1>2, <1>a, <2>b, <2>c DEF Claim
  <2>2. CaseOf(rec.stage) \in PollPc
    BY <1>c DEF CaseOf, Stages, PollPc
  <2>3. rec.fence + 1 \in Nat
    BY <1>c
  <2>4. poll' \in [Polls -> Poll]
    <3>1. [poll EXCEPT ![p].pc = CaseOf(rec.stage), ![p].fence = rec.fence + 1]
             \in [Polls -> Poll]
      BY <1>a, <2>2, <2>3, SetPcFence
    <3>2. \A pc \in {"done", "wait"} : Goto(p, pc) => poll' \in [Polls -> Poll]
      BY <1>d DEF PollPc
    <3>3. QED
      BY <1>2, <3>1, <3>2 DEF Claim
  <2>5. QED
    BY <1>2, <2>1, <2>4 DEF Claim, TypeOK
<1>3. ASSUME NEW p \in Polls, Wait(p) PROVE TypeOK'
  <2>1. [poll EXCEPT ![p].pc = "claim", ![p].at = now] \in [Polls -> Poll]
    BY <1>a, SetPcAt DEF PollPc
  <2>2. Goto(p, "done") => poll' \in [Polls -> Poll]
    BY <1>d DEF PollPc
  <2>3. QED
    BY <1>3, <2>1, <2>2 DEF Wait, TypeOK
<1>4. ASSUME NEW p \in Polls, Renew(p) PROVE TypeOK'
  <2>a. now + LeaseTTL \in Nat
    BY <1>a
  <2>1. rec' \in Record
    BY <1>4, <1>a, <2>a, SetLease DEF Renew
  <2>2. poll' \in [Polls -> Poll]
    <3>1. \A pc \in {"backoff", "done"} : Goto(p, pc) => poll' \in [Polls -> Poll]
      BY <1>d DEF PollPc
    <3>2. QED
      BY <1>4, <1>a, <3>1 DEF Renew
  <2>3. QED
    BY <1>4, <2>1, <2>2 DEF Renew, TypeOK
<1>5. ASSUME NEW p \in Polls, AskUpstream(p) PROVE TypeOK'
  BY <1>5, <1>d DEF AskUpstream, TypeOK, PollPc
<1>6. ASSUME NEW p \in Polls, SaveCode(p) PROVE TypeOK'
  BY <1>6, AdvanceTypes DEF SaveCode, TypeOK, Stages
<1>7. ASSUME NEW p \in Polls, BeginExchange(p) PROVE TypeOK'
  BY <1>7, AdvanceTypes DEF BeginExchange, TypeOK, Stages
<1>8. ASSUME NEW p \in Polls, Reread(p) PROVE TypeOK'
  <2>1. CaseOf(rec.stage) \in PollPc
    BY <1>c DEF CaseOf, Stages, PollPc
  <2>2. poll' \in [Polls -> Poll]
    <3> DEFINE pc == IF poll[p].exchanging THEN "exchange" ELSE CaseOf(rec.stage)
    <3>1. pc \in PollPc
      BY <2>1 DEF PollPc
    <3>2. [poll EXCEPT ![p].pc = pc, ![p].fence = rec.fence, ![p].exchanging = FALSE]
             \in [Polls -> Poll]
      BY <1>a, <1>c, <3>1, SetAfterReread
    <3>3. Goto(p, "done") => poll' \in [Polls -> Poll]
      BY <1>d DEF PollPc
    <3>4. QED
      BY <1>8, <3>2, <3>3 DEF Reread
  <2>3. QED
    BY <1>8, <2>2 DEF Reread, TypeOK
<1>9. ASSUME NEW p \in Polls, Exchange(p) PROVE TypeOK'
  BY <1>9, <1>a, <1>d DEF Exchange, TypeOK, PollPc
<1>10. ASSUME NEW p \in Polls, KeepToken(p) PROVE TypeOK'
  <2>1. CASE Advance(p, "exchanged")
    BY <1>10, <2>1, AdvanceTypes DEF KeepToken, TypeOK, Stages
  <2>2. CASE /\ Goto(p, "unknown")
             /\ rec' \in {rec, [rec EXCEPT !.stage = "exchanged", !.next = 0]}
    BY <1>10, <1>a, <1>d, <2>2, AdvanceRow DEF KeepToken, TypeOK, Stages, PollPc
  <2>3. QED
    BY <1>10, <2>1, <2>2 DEF KeepToken
<1>11. ASSUME NEW p \in Polls, MarkUncertain(p) PROVE TypeOK'
  BY <1>11, <1>a, <1>d, FreeType DEF MarkUncertain, TypeOK, PollPc, Status
<1>12. ASSUME NEW p \in Polls, Save(p) PROVE TypeOK'
  <2>1. Free("completed") \in Record
    BY <1>a, FreeType DEF Status
  <2>2. rec' \in Record /\ replaced' \in BOOLEAN
    BY <1>12, <1>a, <2>1, SetStage DEF Save, Stages, TypeOK
  <2>3. poll' \in [Polls -> Poll]
    BY <1>12, <1>d DEF Save, PollPc
  <2>4. QED
    BY <1>12, <2>2, <2>3 DEF Save, TypeOK
<1>13. ASSUME NEW p \in Polls, Fail(p) PROVE TypeOK'
  <2>1. Free("completed") \in Record
    BY <1>a, FreeType DEF Status
  <2>2. [Free("completed") EXCEPT !.failed = TRUE] \in Record
    BY <2>1, SetFailed
  <2>3. QED
    BY <1>13, <1>d, <2>1, <2>2 DEF Fail, TypeOK, PollPc
<1>14. ASSUME NEW p \in Polls, Release(p) PROVE TypeOK'
  <2>1. Free("pending") \in Record /\ now + 1 \in Nat /\ 0 \in Nat
    BY <1>a, FreeType DEF Status
  <2>2. rec' \in Record
    <3>1. \A n \in Nat : [Free("pending") EXCEPT !.next = n] \in Record
      BY <2>1, SetNext
    <3>2. QED
      BY <1>14, <1>a, <2>1, <3>1 DEF Release
  <2>3. QED
    BY <1>14, <1>d, <2>2 DEF Release, TypeOK, PollPc
<1>15. ASSUME NEW p \in Polls, Stop(p) PROVE TypeOK'
  BY <1>15, <1>d DEF Stop, TypeOK, PollPc
<1>16. CASE Cancel
  <2>1. Free("cancelled") \in Record /\ rec.fence + 1 \in Nat
    BY <1>a, <1>c, FreeType DEF Status
  <2>2. QED
    BY <1>16, <2>1, SetRowFence DEF Cancel, TypeOK
<1>17. CASE Delete
  BY <1>17, <1>a, FreeType DEF Delete, TypeOK, Status
<1>18. CASE Tick
  BY <1>18, <1>a DEF Tick, TypeOK
<1>19. CASE UNCHANGED vars
  BY <1>19 DEF vars, TypeOK
<1>20. QED
  BY <1>1, <1>2, <1>3, <1>4, <1>5, <1>6, <1>7, <1>8, <1>9, <1>10, <1>11, <1>12,
     <1>13, <1>14, <1>15, <1>16, <1>17, <1>18, <1>19 DEF Next

-----------------------------------------------------------------------------
(* The invariant.                                                          *)

LEMMA InitIInv == Init => IInv
BY InitTypes DEF Init, IInv, Counted, Senders, Sender, Owned, PutBack, NewPoll, TypeOK

LEMMA ReceiveKeeps == ASSUME IInv, NEW p \in Polls, Receive(p) PROVE (Counted /\ Senders /\ Owned /\ PutBack)'
<1> USE DEF IInv, TypeOK, Record, Poll
<1>1. Counted'
  BY DEF Counted, Senders, Sender, Owned, StagesAt, Receive
<1>2. Senders'
  BY DEF Counted, Senders, Sender, Owned, StagesAt, Receive
<1>3. Owned'
  BY DEF Counted, Senders, Sender, Owned, StagesAt, Stages, Receive
<1>4. PutBack'
  BY DEF PutBack, Owned, StagesAt, Receive
<1>5. QED
  BY <1>1, <1>2, <1>3, <1>4

\* A request that writes the row has it; the others' rights are as before.
LEMMA OwnedByOthers ==
  ASSUME Owned, NEW p \in Polls,
         \A q \in Polls \ {p} : poll'[q].pc = poll[q].pc,
         rec'.status = "exchanging" => rec.status = "exchanging" /\ rec'.owner = rec.owner,
         rec'.stage = rec.stage \/ rec.owner = p,
         rec'.status = "exchanging" /\ rec'.owner = p => rec'.stage \in StagesAt(poll'[p].pc)
  PROVE  Owned'
BY DEF Owned

LEMMA ClaimKeeps == ASSUME IInv, NEW p \in Polls, Claim(p) PROVE (Counted /\ Senders /\ Owned /\ PutBack)'
<1> USE DEF IInv, TypeOK, Record, Poll
<1>a. UNCHANGED exchanges /\ rec'.stage = rec.stage /\ rec.stage \in Stages
  BY DEF Claim, Free
<1>b. \A q \in Polls \ {p} : poll'[q] = poll[q]
  BY DEF Claim, Goto
<1>c. poll'[p].pc \in {"done", "wait", CaseOf(rec.stage)}
  BY DEF Claim, Goto
<1>d. CaseOf(rec.stage) \in {"ask", "begin", "unknown", "save", "done"}
  BY <1>a DEF CaseOf, Stages
<1>1. Counted'
  BY <1>a DEF Counted
<1>2. Senders'
  <2>1. \A q \in Polls : Sender(q)' => Sender(q) /\ q # p
    BY <1>b, <1>c, <1>d DEF Sender
  <2>2. \A q \in Polls : poll'[q].pc = "keep" => q # p
    BY <1>c, <1>d
  <2>3. QED
    BY <1>a, <1>b, <2>1, <2>2 DEF Senders
<1>3. Owned'
  <2>1. CASE rec' = Free("uncertain")
    BY <2>1 DEF Owned, Free
  <2>2. CASE UNCHANGED rec /\ poll'[p].pc \in {"wait", "done"}
    BY <1>b, <2>2 DEF Owned, StagesAt
  <2>3. CASE rec'.owner = p /\ poll'[p].pc = CaseOf(rec.stage)
    <3>1. rec.stage \in StagesAt(CaseOf(rec.stage))
      BY <1>a DEF CaseOf, StagesAt, Stages
    <3>2. QED
      BY <1>a, <2>3, <3>1 DEF Owned
  <2>4. CASE Goto(p, IF ~Expired(poll[p].at) /\ rec.status = "exchanging" THEN "wait" ELSE "done")
             /\ UNCHANGED rec
    BY <2>2, <2>4 DEF Goto
  <2>5. CASE /\ rec' = [rec EXCEPT !.status = "exchanging", !.owner = p,
                            !.fence = rec.fence + 1, !.lease = poll[p].at + LeaseTTL]
             /\ poll' = [poll EXCEPT ![p].pc = CaseOf(rec.stage), ![p].fence = rec.fence + 1]
    BY <2>3, <2>5
  <2>6. QED
    BY <2>1, <2>4, <2>5 DEF Claim
<1>4. PutBack'
  <2>1. CASE rec' = Free("uncertain") /\ rec.status = "exchanging"
    BY <2>1 DEF PutBack, Free
  <2>2. CASE UNCHANGED rec
    BY <2>2 DEF PutBack
  <2>3. CASE rec'.status = "exchanging" /\ rec'.failed = rec.failed /\ Claimable(p)
    BY <2>3 DEF PutBack, Claimable
  <2>4. QED
    BY <2>1, <2>2, <2>3 DEF Claim, InDoubt
<1>5. QED
  BY <1>1, <1>2, <1>3, <1>4

LEMMA WaitKeeps == ASSUME IInv, NEW p \in Polls, Wait(p) PROVE (Counted /\ Senders /\ Owned /\ PutBack)'
<1> USE DEF IInv, TypeOK, Record, Poll
<1>1. Counted'
  BY DEF Counted, Senders, Sender, Owned, StagesAt, Wait, Goto
<1>2. Senders'
  BY DEF Counted, Senders, Sender, Owned, StagesAt, Wait, Goto
<1>3. Owned'
  BY DEF Counted, Senders, Sender, Owned, StagesAt, Stages, Wait, Goto
<1>4. PutBack'
  BY DEF PutBack, Owned, StagesAt, Wait, Goto
<1>5. QED
  BY <1>1, <1>2, <1>3, <1>4

LEMMA RenewKeeps == ASSUME IInv, NEW p \in Polls, Renew(p) PROVE (Counted /\ Senders /\ Owned /\ PutBack)'
<1> USE DEF IInv, TypeOK, Record, Poll
<1>1. Counted'
  BY DEF Counted, Senders, Sender, Owned, StagesAt, Renew, Goto
<1>2. Senders'
  BY DEF Counted, Senders, Sender, Owned, StagesAt, Renew, Goto
<1>3. Owned'
  BY DEF Counted, Senders, Sender, Owned, StagesAt, Stages, Renew, Goto
<1>4. PutBack'
  BY DEF PutBack, Owned, StagesAt, Renew, Goto
<1>5. QED
  BY <1>1, <1>2, <1>3, <1>4

LEMMA AskUpstreamKeeps == ASSUME IInv, NEW p \in Polls, AskUpstream(p) PROVE (Counted /\ Senders /\ Owned /\ PutBack)'
<1> USE DEF IInv, TypeOK, Record, Poll
<1>1. Counted'
  BY DEF Counted, Senders, Sender, Owned, StagesAt, AskUpstream, Goto
<1>2. Senders'
  BY DEF Counted, Senders, Sender, Owned, StagesAt, AskUpstream, Goto
<1>3. Owned'
  BY DEF Counted, Senders, Sender, Owned, StagesAt, Stages, AskUpstream, Goto
<1>4. PutBack'
  BY DEF PutBack, Owned, StagesAt, AskUpstream, Goto
<1>5. QED
  BY <1>1, <1>2, <1>3, <1>4

LEMMA SaveCodeKeeps == ASSUME IInv, NEW p \in Polls, SaveCode(p) PROVE (Counted /\ Senders /\ Owned /\ PutBack)'
<1> USE DEF IInv, TypeOK, Record, Poll
<1>1. Counted'
  BY DEF Counted, Senders, Sender, Owned, StagesAt, SaveCode, Advance, Holds, Goto
<1>2. Senders'
  BY DEF Counted, Senders, Sender, Owned, StagesAt, SaveCode, Advance, Holds, Goto
<1>3. Owned'
  <2>1. \A q \in Polls \ {p} : poll'[q].pc = poll[q].pc
    BY DEF SaveCode, Goto, Advance
  <2>2. rec'.status = "exchanging" => rec.status = "exchanging" /\ rec'.owner = rec.owner
    BY DEF SaveCode, Advance, Holds
  <2>3. rec'.stage = rec.stage \/ rec.owner = p
    BY DEF SaveCode, Advance, Holds
  <2>4. rec'.status = "exchanging" /\ rec'.owner = p => rec'.stage \in StagesAt(poll'[p].pc)
    <3>1. rec'.stage \in Stages
      BY DEF SaveCode, Advance, Stages
    <3>2. poll'[p].pc \in {"reread", "done"}
      BY DEF SaveCode, Advance, Goto
    <3>3. QED
      BY <3>1, <3>2 DEF StagesAt
  <2>5. QED
    BY <2>1, <2>2, <2>3, <2>4, OwnedByOthers
<1>4. PutBack'
  BY DEF PutBack, Owned, StagesAt, SaveCode, Advance, Holds, Goto
<1>5. QED
  BY <1>1, <1>2, <1>3, <1>4

LEMMA BeginExchangeKeeps == ASSUME IInv, NEW p \in Polls, BeginExchange(p) PROVE (Counted /\ Senders /\ Owned /\ PutBack)'
<1> USE DEF IInv, TypeOK, Record, Poll
<1>1. Counted'
  BY DEF Counted, Senders, Sender, Owned, StagesAt, BeginExchange, Advance, Holds, Goto
<1>2. Senders'
  <2>a. \A q \in Polls \ {p} : poll'[q] = poll[q]
    BY DEF BeginExchange, Advance, Goto
  <2>b. UNCHANGED exchanges /\ poll'[p].pc # "keep"
    BY DEF BeginExchange, Advance, Goto
  <2>1. CASE Holds(p) /\ ~Expired(now)
    <3>1. rec.stage = "polled"
      BY <2>1 DEF BeginExchange, Holds, Owned, StagesAt
    <3>2. \A q \in Polls : ~Sender(q)
      BY <3>1 DEF Senders
    <3>3. exchanges = 0 /\ rec'.stage = "exchange_started"
      BY <2>1, <3>1 DEF Counted, BeginExchange, Advance
    <3>4. \A q \in Polls : Sender(q)' => q = p
      BY <2>a, <3>2 DEF Sender
    <3>5. QED
      BY <2>a, <2>b, <3>3, <3>4 DEF Senders
  <2>2. CASE poll'[p].pc = "done" /\ UNCHANGED rec
    <3>1. \A q \in Polls : Sender(q)' => Sender(q)
      BY <2>a, <2>2 DEF Sender
    <3>2. QED
      BY <2>a, <2>b, <2>2, <3>1 DEF Senders
  <2>3. QED
    BY <2>1, <2>2 DEF BeginExchange, Advance, Goto
<1>3. Owned'
  <2>1. \A q \in Polls \ {p} : poll'[q].pc = poll[q].pc
    BY DEF BeginExchange, Goto, Advance
  <2>2. rec'.status = "exchanging" => rec.status = "exchanging" /\ rec'.owner = rec.owner
    BY DEF BeginExchange, Advance, Holds
  <2>3. rec'.stage = rec.stage \/ rec.owner = p
    BY DEF BeginExchange, Advance, Holds
  <2>4. rec'.status = "exchanging" /\ rec'.owner = p => rec'.stage \in StagesAt(poll'[p].pc)
    <3>1. rec'.stage \in Stages
      BY DEF BeginExchange, Advance, Stages
    <3>2. poll'[p].pc \in {"reread", "done"}
      BY DEF BeginExchange, Advance, Goto
    <3>3. QED
      BY <3>1, <3>2 DEF StagesAt
  <2>5. QED
    BY <2>1, <2>2, <2>3, <2>4, OwnedByOthers
<1>4. PutBack'
  BY DEF PutBack, Owned, StagesAt, BeginExchange, Advance, Holds, Goto
<1>5. QED
  BY <1>1, <1>2, <1>3, <1>4

LEMMA RereadKeeps == ASSUME IInv, NEW p \in Polls, Reread(p) PROVE (Counted /\ Senders /\ Owned /\ PutBack)'
<1> USE DEF IInv, TypeOK, Record, Poll
<1>1. Counted'
  BY DEF Counted, Senders, Sender, Owned, StagesAt, Reread, CaseOf, Goto
<1>2. Senders'
  <2>1. \A q \in Polls \ {p} : poll'[q] = poll[q]
    BY DEF Reread, Goto
  <2>2. CaseOf(rec.stage) \in {"ask", "begin", "unknown", "save", "done"}
    BY DEF CaseOf, Stages
  <2>3. poll'[p].pc \notin {"keep", "reread"} /\ (poll'[p].pc = "exchange" => Sender(p))
    BY <2>2 DEF Reread, Goto, Sender
  <2>4. \A q \in Polls : Sender(q)' => Sender(q)
    BY <2>1, <2>3 DEF Sender
  <2>5. QED
    BY <2>1, <2>3, <2>4 DEF Senders, Reread
<1>3. Owned'
  BY DEF Counted, Senders, Sender, Owned, StagesAt, Stages, Reread, CaseOf, Goto
<1>4. PutBack'
  BY DEF PutBack, Owned, StagesAt, Reread, CaseOf, Goto
<1>5. QED
  BY <1>1, <1>2, <1>3, <1>4

LEMMA ExchangeKeeps == ASSUME IInv, NEW p \in Polls, Exchange(p) PROVE (Counted /\ Senders /\ Owned /\ PutBack)'
<1> USE DEF IInv, TypeOK, Record, Poll
<1>1. Counted'
  BY DEF Counted, Senders, Sender, Owned, StagesAt, Exchange, Goto
<1>2. Senders'
  BY DEF Counted, Senders, Sender, Owned, StagesAt, Exchange, Goto
<1>3. Owned'
  BY DEF Counted, Senders, Sender, Owned, StagesAt, Stages, Exchange, Goto
<1>4. PutBack'
  BY DEF PutBack, Owned, StagesAt, Exchange, Goto
<1>5. QED
  BY <1>1, <1>2, <1>3, <1>4

LEMMA KeepTokenKeeps == ASSUME IInv, NEW p \in Polls, KeepToken(p) PROVE (Counted /\ Senders /\ Owned /\ PutBack)'
<1> USE DEF IInv, TypeOK, Record, Poll
<1>1. Counted'
  BY DEF Counted, Senders, Sender, Owned, StagesAt, KeepToken, Advance, Holds, Goto
<1>2. Senders'
  BY DEF Counted, Senders, Sender, Owned, StagesAt, KeepToken, Advance, Holds, Goto
<1>3. Owned'
  <2>1. \A q \in Polls \ {p} : poll'[q].pc = poll[q].pc
    BY DEF KeepToken, Goto, Advance
  <2>2. rec'.status = "exchanging" => rec.status = "exchanging" /\ rec'.owner = rec.owner
    BY DEF KeepToken, Advance, Holds
  <2>3. rec'.stage = rec.stage \/ rec.owner = p
    BY DEF KeepToken, Advance, Holds
  <2>4. rec'.status = "exchanging" /\ rec'.owner = p => rec'.stage \in StagesAt(poll'[p].pc)
    <3>1. rec'.stage \in Stages
      BY DEF KeepToken, Advance, Stages
    <3>2. poll'[p].pc \in {"reread", "unknown", "done"}
      BY DEF KeepToken, Advance, Goto
    <3>3. QED
      BY <3>1, <3>2 DEF StagesAt
  <2>5. QED
    BY <2>1, <2>2, <2>3, <2>4, OwnedByOthers
<1>4. PutBack'
  BY DEF PutBack, Owned, StagesAt, KeepToken, Advance, Holds, Goto
<1>5. QED
  BY <1>1, <1>2, <1>3, <1>4

LEMMA MarkUncertainKeeps == ASSUME IInv, NEW p \in Polls, MarkUncertain(p) PROVE (Counted /\ Senders /\ Owned /\ PutBack)'
<1> USE DEF IInv, TypeOK, Record, Poll
<1>1. Counted'
  BY DEF Counted, Senders, Sender, Owned, StagesAt, MarkUncertain, Free, Holds, Goto
<1>2. Senders'
  BY DEF Counted, Senders, Sender, Owned, StagesAt, MarkUncertain, Free, Holds, Goto
<1>3. Owned'
  BY DEF Counted, Senders, Sender, Owned, StagesAt, Stages, MarkUncertain, Free, Holds, Goto
<1>4. PutBack'
  BY DEF PutBack, Owned, StagesAt, MarkUncertain, Free, Holds, Goto
<1>5. QED
  BY <1>1, <1>2, <1>3, <1>4

LEMMA SaveKeeps == ASSUME IInv, NEW p \in Polls, Save(p) PROVE (Counted /\ Senders /\ Owned /\ PutBack)'
<1> USE DEF IInv, TypeOK, Record, Poll
<1>1. Counted'
  BY DEF Counted, Senders, Sender, Owned, StagesAt, Save, MaySave, Free, Holds, Goto
<1>2. Senders'
  BY DEF Counted, Senders, Sender, Owned, StagesAt, Save, MaySave, Free, Holds, Goto
<1>3. Owned'
  <2>1. \A q \in Polls \ {p} : poll'[q].pc = poll[q].pc
    BY DEF Save, Goto
  <2>2. rec'.status = "exchanging" => rec.status = "exchanging" /\ rec'.owner = rec.owner
    BY DEF Save, Holds, MaySave, Free
  <2>3. rec'.stage = rec.stage \/ rec.owner = p
    BY DEF Save, Holds, MaySave, Free
  <2>4. rec'.status = "exchanging" /\ rec'.owner = p => rec'.stage \in StagesAt(poll'[p].pc)
    <3>2. CASE UNCHANGED rec /\ poll'[p].pc \in {"done", "fail"}
      BY <3>2 DEF StagesAt
    <3>4. CASE MaySave(p) /\ rec' = [Free("completed") EXCEPT !.stage = "saved"]
      BY <3>4, DeviceAssumption DEF Free
    <3>3. CASE UNCHANGED rec /\ \E pc \in {"done", "fail"} : Goto(p, pc)
      BY <3>2, <3>3 DEF Goto
    <3>5. QED
      BY <3>3, <3>4 DEF Save
  <2>5. QED
    BY <2>1, <2>2, <2>3, <2>4, OwnedByOthers
<1>4. PutBack'
  BY DEF PutBack, Owned, StagesAt, Save, MaySave, Free, Holds, Goto
<1>5. QED
  BY <1>1, <1>2, <1>3, <1>4

LEMMA FailKeeps == ASSUME IInv, NEW p \in Polls, Fail(p) PROVE (Counted /\ Senders /\ Owned /\ PutBack)'
<1> USE DEF IInv, TypeOK, Record, Poll
<1>1. Counted'
  BY DEF Counted, Senders, Sender, Owned, StagesAt, Fail, Free, Holds, Goto
<1>2. Senders'
  BY DEF Counted, Senders, Sender, Owned, StagesAt, Fail, Free, Holds, Goto
<1>3. Owned'
  BY DEF Counted, Senders, Sender, Owned, StagesAt, Stages, Fail, Free, Holds, Goto
<1>4. PutBack'
  BY DEF PutBack, Owned, StagesAt, Fail, Free, Holds, Goto
<1>5. QED
  BY <1>1, <1>2, <1>3, <1>4

LEMMA ReleaseKeeps == ASSUME IInv, NEW p \in Polls, Release(p) PROVE (Counted /\ Senders /\ Owned /\ PutBack)'
<1> USE DEF IInv, TypeOK, Record, Poll
<1>1. Counted'
  BY DEF Counted, Senders, Sender, Owned, StagesAt, Release, Free, Holds, Goto
<1>2. Senders'
  BY DEF Counted, Senders, Sender, Owned, StagesAt, Release, Free, Holds, Goto
<1>3. Owned'
  BY DEF Counted, Senders, Sender, Owned, StagesAt, Stages, Release, Free, Holds, Goto
<1>4. PutBack'
  BY DEF PutBack, Owned, StagesAt, Release, Free, Holds, Goto
<1>5. QED
  BY <1>1, <1>2, <1>3, <1>4

LEMMA StopKeeps == ASSUME IInv, NEW p \in Polls, Stop(p) PROVE (Counted /\ Senders /\ Owned /\ PutBack)'
<1> USE DEF IInv, TypeOK, Record, Poll
<1>1. Counted'
  BY DEF Counted, Senders, Sender, Owned, StagesAt, Stop, Goto
<1>2. Senders'
  BY DEF Counted, Senders, Sender, Owned, StagesAt, Stop, Goto
<1>3. Owned'
  BY DEF Counted, Senders, Sender, Owned, StagesAt, Stages, Stop, Goto
<1>4. PutBack'
  BY DEF PutBack, Owned, StagesAt, Stop, Goto
<1>5. QED
  BY <1>1, <1>2, <1>3, <1>4

\* The other requests and the clock touch no request and leave the row's stage.
LEMMA OthersKeep ==
  ASSUME IInv, Cancel \/ Delete \/ Tick \/ UNCHANGED vars
  PROVE  (Counted /\ Senders /\ Owned /\ PutBack)'
<1> USE DEF IInv, TypeOK, Record
<1>1. /\ UNCHANGED <<poll, exchanges>> /\ rec'.stage = rec.stage
      /\ rec'.status = "exchanging" => UNCHANGED <<rec.status, rec.owner>>
      /\ rec'.status = "pending" => rec.status = "pending"
      /\ rec'.failed => rec.failed /\ rec'.status \in {rec.status, "gone"}
  BY DEF Cancel, Delete, Tick, vars, Free, PutBack
<1>2. \A p \in Polls : Sender(p)' <=> Sender(p)
  BY <1>1 DEF Sender
<1>3. QED
  BY <1>1, <1>2 DEF Counted, Senders, Owned, PutBack

LEMMA NextKeepsIInv == IInv /\ [Next]_vars => IInv'
<1> SUFFICES ASSUME IInv, [Next]_vars PROVE IInv'
  OBVIOUS
<1> DEFINE Rest == Counted /\ Senders /\ Owned /\ PutBack
<1>1. TypeOK'
  BY NextTypes DEF IInv
<1>2. ASSUME NEW p \in Polls, Receive(p) \/ Claim(p) \/ Wait(p) \/ Renew(p) \/ AskUpstream(p)
      PROVE Rest'
  BY <1>2, ReceiveKeeps, ClaimKeeps, WaitKeeps, RenewKeeps, AskUpstreamKeeps
<1>3. ASSUME NEW p \in Polls, SaveCode(p) \/ BeginExchange(p) \/ Reread(p) \/ Exchange(p)
      PROVE Rest'
  BY <1>3, SaveCodeKeeps, BeginExchangeKeeps, RereadKeeps, ExchangeKeeps
<1>4. ASSUME NEW p \in Polls, \/ KeepToken(p) \/ MarkUncertain(p) \/ Save(p)
                              \/ Fail(p) \/ Release(p) \/ Stop(p)
      PROVE Rest'
  BY <1>4, KeepTokenKeeps, MarkUncertainKeeps, SaveKeeps, FailKeeps, ReleaseKeeps, StopKeeps
<1>5. ASSUME Cancel \/ Delete \/ Tick \/ UNCHANGED vars PROVE Rest'
  BY <1>5, OthersKeep
<1> HIDE DEF Rest
<1>6. Rest'
  BY <1>2, <1>3, <1>4, <1>5 DEF Next
<1>7. QED
  BY <1>1, <1>6 DEF IInv, Rest

LEMMA IInvHolds == Spec => []IInv
<1>1. Init => IInv
  BY InitIInv
<1>2. QED
  BY <1>1, NextKeepsIInv, PTL DEF Spec

-----------------------------------------------------------------------------
(* The theorems.                                                           *)

\* The row and the locals of every request have the columns' types.
THEOREM TypeCorrect == Spec => []TypeOK
<1>1. IInv => TypeOK
  BY DEF IInv
<1>2. QED
  BY <1>1, IInvHolds, PTL

\* Whatever number of requests poll, stall and stop, the row of an attempt
\* whose code was sent is never again one the code would be sent for.
THEOREM CodeNeverOfferedAgain == Spec => []NoSecondChance
<1>1. IInv => NoSecondChance
  BY DEF IInv, Counted, PutBack, NoSecondChance
<1>2. QED
  BY <1>1, IInvHolds, PTL

\* Each step is a step of the abstract attempt, or none of its business.
LEMMA StepRefines == IInv /\ [Next]_vars => [Attempt!Next]_(Attempt!vars)
<1> SUFFICES ASSUME IInv, [Next]_vars PROVE [Attempt!Next]_(Attempt!vars)
  OBVIOUS
<1> USE DEF IInv, TypeOK, Record
<1> DEFINE Stutter == UNCHANGED <<Outcome, exchanges, replaced>>
<1>1. Stutter => [Attempt!Next]_(Attempt!vars)
  BY DEF Attempt!vars
<1>3. ASSUME NEW p \in Polls, Exchange(p) PROVE Attempt!Exchange
  <2>1. exchanges = 0
    BY <1>3 DEF Exchange, Senders, Sender
  <2>2. QED
    BY <1>3, <2>1 DEF Exchange, Attempt!Exchange, Outcome
<1>4. ASSUME NEW p \in Polls, Save(p) PROVE Attempt!Save \/ Stutter
  <2>1. CASE MaySave(p) /\ rec' = [Free("completed") EXCEPT !.stage = "saved"] /\ replaced'
    <3>1. rec.status = "exchanging" /\ exchanges = 1 /\ ~rec.failed
      BY <2>1 DEF MaySave, Holds, Counted, PutBack
    <3>2. rec'.status = "completed" /\ ~rec'.failed
      BY <2>1, <3>1 DEF Free
    <3>3. Outcome = "open" /\ Outcome' = "saved"
      BY <3>1, <3>2 DEF Outcome
    <3>4. QED
      BY <1>4, <2>1, <3>1, <3>3 DEF Save, Attempt!Save
  <2>2. CASE UNCHANGED <<rec, replaced>>
    BY <1>4, <2>2 DEF Save, Outcome
  <2>3. QED
    BY <1>4, <2>1, <2>2 DEF Save
<1>5. ASSUME NEW p \in Polls, MarkUncertain(p) \/ Fail(p) \/ Claim(p) \/ Release(p)
      PROVE Attempt!End \/ Stutter
  <2>1. UNCHANGED <<exchanges, replaced>>
    BY <1>5 DEF MarkUncertain, Fail, Claim, Release
  <2>2. CASE /\ rec.status = "exchanging"
             /\ \/ rec'.status = "uncertain"
                \/ rec'.status = "completed" /\ rec'.failed
    <3>1. Outcome = "open" /\ Outcome' \in {"uncertain", "failed"}
      BY <2>2 DEF Outcome
    <3>2. QED
      BY <2>1, <3>1 DEF Attempt!End
  <2>3. CASE rec.status \in {"pending", "exchanging"} /\ rec'.status \in {"pending", "exchanging"}
    BY <2>1, <2>3 DEF Outcome
  <2>4. CASE UNCHANGED rec
    BY <2>1, <2>4 DEF Outcome
  <2>5. QED
    BY <1>5, <2>2, <2>3, <2>4 DEF MarkUncertain, Fail, Claim, Release, Holds, Free, InDoubt,
       Claimable
<1>6. CASE Cancel
  <2>1. /\ rec.status \in {"pending", "exchanging", "cancelled"}
        /\ rec'.status = "cancelled" /\ UNCHANGED <<exchanges, replaced>>
    BY <1>6 DEF Cancel, Free
  <2>2. Outcome' = "cancelled" /\ Outcome \in {"open", "cancelled"}
    BY <2>1 DEF Outcome
  <2>3. QED
    BY <2>1, <2>2 DEF Attempt!End, Attempt!Next, Attempt!vars
<1>7. CASE Delete
  <2>1. rec'.status = "gone" /\ UNCHANGED <<exchanges, replaced>>
    BY <1>7 DEF Delete, Free
  <2>2. Outcome' = "gone"
    BY <2>1 DEF Outcome
  <2>3. QED
    BY <2>1, <2>2 DEF Attempt!Drop, Attempt!Next
<1>8. ASSUME NEW p \in Polls, \/ Receive(p) \/ Wait(p) \/ Renew(p) \/ AskUpstream(p)
                              \/ SaveCode(p) \/ BeginExchange(p) \/ Reread(p)
                              \/ KeepToken(p) \/ Stop(p)
      PROVE Stutter
  <2>1. /\ rec'.status = rec.status /\ rec'.failed = rec.failed
        /\ UNCHANGED <<exchanges, replaced>>
    BY <1>8 DEF Receive, Wait, Renew, AskUpstream, SaveCode, BeginExchange, Advance,
       Reread, KeepToken, Stop
  <2>2. QED
    BY <2>1 DEF Outcome
<1>9. CASE Tick \/ UNCHANGED vars
  BY <1>1, <1>9 DEF Tick, vars, Outcome
<1> HIDE DEF Stutter
<1>10. ASSUME NEW p \in Polls,
              \/ Receive(p) \/ Claim(p) \/ Wait(p) \/ Renew(p) \/ AskUpstream(p)
              \/ SaveCode(p) \/ BeginExchange(p) \/ Reread(p) \/ Exchange(p)
              \/ KeepToken(p) \/ MarkUncertain(p) \/ Save(p) \/ Fail(p)
              \/ Release(p) \/ Stop(p)
       PROVE Attempt!Exchange \/ Attempt!Save \/ Attempt!End \/ Stutter
  BY <1>3, <1>4, <1>5, <1>8, <1>10
<1>11. QED
  BY <1>1, <1>6, <1>7, <1>9, <1>10 DEF Next, Attempt!Next

LEMMA InitRefines == Init => Attempt!Init
BY DEF Init, Attempt!Init, Outcome

\* The poll requests together keep what one attempt promises: the code is
\* exchanged at most once, the attempt ends in one way, and the credential
\* is replaced by an attempt that was open at that moment and by no other.
THEOREM PollsImplementAttempt == Spec => ImplementsAttempt
<1>1. Init => Attempt!Init
  BY InitRefines
<1>2. IInv /\ [Next]_vars => [Attempt!Next]_(Attempt!vars)
  BY StepRefines
<1>3. QED
  BY <1>1, <1>2, IInvHolds, PTL DEF Spec, ImplementsAttempt, Attempt!Spec
=============================================================================
