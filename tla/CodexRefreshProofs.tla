------------------------- MODULE CodexRefreshProofs -------------------------
(***************************************************************************)
(* Proofs about CodexRefresh, for any number of calls, credentials and     *)
(* ticks of the clock and any lengths of the lease, the operation and the  *)
(* freshness window.                                                       *)
(*                                                                         *)
(* Credentials are numbered in the order they came into being, and a       *)
(* channel's key only ever moves up: that is why a late commit is told by  *)
(* comparing generations.  A token that was, or is about to be, sent is    *)
(* exposed until its operation expires; the row of a channel whose key is  *)
(* exposed refuses claims until then: that is why it is sent once.         *)
(***************************************************************************)
EXTENDS CodexRefresh, TLAPS

-----------------------------------------------------------------------------
(* The inductive invariant.                                                *)

\* Credentials are used in the order of their numbers.
Fresh == /\ chan.token <= last
         /\ op.gen <= chan.token
         /\ \A t \in Tokens : /\ parent[t] < t /\ parent[t] <= chan.token
                              /\ exposed[t] # 0 => t <= chan.token
         /\ \A c \in Calls : /\ call[c].tok <= chan.token
                             /\ call[c].at <= now
                             /\ call[c].pc \notin {"idle", "done"} => call[c].tok \in Tokens

\* The row was created for an older key, whose successor will not be saved.
Outdated == op.gen < chan.token

\* What is on its way into the key was rotated from the row's generation.
Lineage == /\ op.stage = "exchanged" =>
                 /\ op.payload \in 1..last
                 /\ parent[op.payload] = op.gen \/ Outdated
           /\ \A c \in Calls :
                 /\ call[c].pc = "persist" =>
                       call[c].got \in 1..last /\ parent[call[c].got] = call[c].tok
                 /\ op.owner = c /\ call[c].pc \in {"start", "send", "persist"} =>
                       call[c].tok = op.gen \/ Outdated
                 /\ op.owner = c /\ call[c].pc = "commit" =>
                       /\ call[c].got \in 1..last
                       /\ parent[call[c].got] = op.gen \/ Outdated

\* The call that has the row is still at work under its claim.
Holds(c) == op.owner = c /\ call[c].pc \notin {"record", "done"}

\* What the row looks like to the call whose claim it holds.
Rights == /\ Active => op.expires > 0
          /\ \A c \in Calls :
                /\ call[c].pc \in {"start", "send"} => call[c].expires > 0
                /\ op.owner = c =>
                      /\ op.status = "exchanging"
                      /\ Holds(c) => call[c].expires = op.expires
                      /\ call[c].pc \notin {"idle", "claim"}
                      /\ call[c].pc = "start" => op.stage \notin {"started", "exchanged"}
                      /\ call[c].pc \in {"send", "persist", "release", "terminal"} =>
                            op.stage = "started"

Sends(c, t) == call[c].pc = "send" /\ call[c].tok = t

\* The row refuses whoever would send a key that is exposed until e.
Guards(e) == \/ op.status = "uncertain"
             \/ op.status = "completed" /\ op.failed
             \/ Active /\ e < op.expires /\ e <= now
             \/ /\ Active /\ e = op.expires /\ op.stage \in {"started", "exchanged"}
                /\ \A c \in Calls : Holds(c) => call[c].tok = chan.token

Guarded == /\ rotated > now => Guards(rotated)
           /\ exposed[chan.token] # 0 => Guards(exposed[chan.token])
           /\ \A c \in Calls : Sends(c, chan.token) => Guards(call[c].expires)
           /\ \A c \in Calls :
                 Sends(c, chan.token) /\ Active /\ call[c].expires = op.expires => op.owner = c

\* Nobody else can still be sending, or have sent, what a call is to send.
Alone == /\ \A c, d \in Calls : \A t \in Tokens :
               Sends(c, t) /\ Sends(d, t) /\ c # d =>
                  call[c].expires <= now \/ call[d].expires <= now
         /\ \A c \in Calls : op.owner = c /\ call[c].pc = "start" =>
               /\ exposed[call[c].tok] <= now
               /\ \A d \in Calls : Sends(d, call[c].tok) => call[d].expires <= now
         /\ \A c \in Calls : Sends(c, call[c].tok) =>
               exposed[call[c].tok] <= now \/ call[c].expires <= now

\* Whoever may still put the row back has not seen the key's token rotated.
Marked == \A c \in Calls :
             Holds(c) /\ call[c].pc \in {"send", "release"} =>
                rotated <= now \/ rotated # op.expires

IInv == TypeOK /\ Fresh /\ Lineage /\ Rights /\ Guarded /\ Alone /\ Marked

-----------------------------------------------------------------------------
(* Types.                                                                  *)

USE TimeAssumption, TokenAssumption, NoneAssumption

LEMMA InitTypes == Init => TypeOK
<1> SUFFICES ASSUME Init PROVE TypeOK
  OBVIOUS
<1>1. chan \in Channel
  BY DEF Init, Channel, Tokens
<1>2. op \in Operation
  BY DEF Init, NoOperation, Operation
<1>3. NewCall \in Call
  BY DEF NewCall, Call, CallPc
<1>4. call \in [Calls -> Call]
  BY <1>3 DEF Init
<1>5. /\ parent \in [Tokens -> 0..MaxToken] /\ exposed \in [Tokens -> Nat]
      /\ now \in Nat /\ last \in Tokens /\ rotated \in Nat
  BY DEF Init, Tokens
<1>6. QED
  BY <1>1, <1>2, <1>4, <1>5 DEF TypeOK, Init

\* Writes of the locals of a call keep the types.
LEMMA SetPc ==
  ASSUME NEW f \in [Calls -> Call], NEW c \in Calls, NEW v \in CallPc
  PROVE  [f EXCEPT ![c].pc = v] \in [Calls -> Call]
BY DEF Call

LEMMA SetTok ==
  ASSUME NEW f \in [Calls -> Call], NEW c \in Calls, NEW v \in 0..MaxToken
  PROVE  [f EXCEPT ![c].tok = v] \in [Calls -> Call]
BY DEF Call

LEMMA SetAt ==
  ASSUME NEW f \in [Calls -> Call], NEW c \in Calls, NEW v \in Nat
  PROVE  [f EXCEPT ![c].at = v] \in [Calls -> Call]
BY DEF Call

LEMMA SetFence ==
  ASSUME NEW f \in [Calls -> Call], NEW c \in Calls, NEW v \in Nat
  PROVE  [f EXCEPT ![c].fence = v] \in [Calls -> Call]
BY DEF Call

LEMMA SetExpires ==
  ASSUME NEW f \in [Calls -> Call], NEW c \in Calls, NEW v \in Nat
  PROVE  [f EXCEPT ![c].expires = v] \in [Calls -> Call]
BY DEF Call

LEMMA SetGot ==
  ASSUME NEW f \in [Calls -> Call], NEW c \in Calls, NEW v \in 0..MaxToken
  PROVE  [f EXCEPT ![c].got = v] \in [Calls -> Call]
BY DEF Call

\* Writes of the row keep the types.
LEMMA FencedType == op \in Operation => Fenced \in Operation
BY DEF Operation, Fenced

LEMMA Fields ==
  ASSUME TypeOK, NEW c \in Calls
  PROVE  /\ call[c].at \in Nat /\ call[c].fence \in Nat /\ call[c].expires \in Nat
         /\ call[c].tok \in 0..MaxToken /\ call[c].got \in 0..MaxToken
         /\ op.fence \in Nat /\ op.expires \in Nat /\ op.lease \in Nat
         /\ op.payload \in 0..MaxToken /\ op.gen \in 0..MaxToken
         /\ chan.token \in Tokens /\ last \in Tokens /\ now \in Nat
         /\ Tokens \subseteq 0..MaxToken
<1>1. call[c] \in Call
  BY DEF TypeOK
<1>2. op \in Operation /\ chan \in Channel /\ last \in Tokens /\ now \in Nat
  BY DEF TypeOK
<1>3. QED
  BY <1>1, <1>2 DEF Call, Operation, Channel, Tokens

LEMMA NewOperationType ==
  ASSUME TypeOK, NEW c \in Calls
  PROVE  NewOperation(c) \in Operation
<1>1. /\ call[c].at + LeaseTTL \in Nat /\ call[c].at + OpTTL \in Nat
      /\ op.fence + 1 \in Nat /\ chan.token \in 0..MaxToken
  BY Fields
<1>2. QED
  BY <1>1 DEF NewOperation, Operation

LEMMA TakenType ==
  ASSUME NEW r \in Operation, NEW c \in Calls, NEW f \in Nat, NEW l \in Nat
  PROVE  [r EXCEPT !.status = "exchanging", !.owner = c, !.fence = f, !.lease = l] \in Operation
BY DEF Operation

LEMMA StartedType ==
  ASSUME NEW r \in Operation, NEW l \in Nat
  PROVE  [r EXCEPT !.stage = "started", !.lease = l] \in Operation
BY DEF Operation

LEMMA SavedType ==
  ASSUME NEW r \in Operation, NEW l \in Nat, NEW p \in 0..MaxToken
  PROVE  [r EXCEPT !.stage = "exchanged", !.payload = p, !.lease = l] \in Operation
BY DEF Operation

LEMMA ReleasedType ==
  ASSUME NEW r \in Operation, NEW st \in {"completed", "pending"}, NEW f \in BOOLEAN
  PROVE  [r EXCEPT !.status = st, !.stage = "pending", !.owner = None, !.lease = 0,
                   !.failed = f] \in Operation
<1>1. [r EXCEPT !.status = st, !.stage = "pending", !.owner = None] \in Operation
  BY DEF Operation
<1>2. QED
  BY <1>1 DEF Operation

LEMMA EmptiedType ==
  ASSUME NEW r \in Operation, NEW p \in 0..MaxToken, NEW f \in BOOLEAN
  PROVE  [r EXCEPT !.payload = p, !.failed = f] \in Operation
BY DEF Operation

LEMMA CompletedType ==
  ASSUME NEW r \in Operation, NEW f \in BOOLEAN
  PROVE  [r EXCEPT !.status = "completed", !.stage = "saved", !.owner = None, !.lease = 0,
                   !.payload = 0, !.failed = f] \in Operation
<1>1. [r EXCEPT !.status = "completed", !.stage = "saved", !.owner = None, !.lease = 0]
         \in Operation
  BY DEF Operation
<1>2. 0 \in 0..MaxToken
  OBVIOUS
<1>3. QED
  BY <1>1, <1>2, EmptiedType

LEMMA GotoType ==
  ASSUME TypeOK, NEW c \in Calls, NEW pc \in CallPc, Goto(c, pc)
  PROVE  call' \in [Calls -> Call]
BY SetPc DEF TypeOK, Goto

LEMMA FailedType ==
  ASSUME TypeOK, NEW c \in Calls, Failed(c)
  PROVE  call' \in [Calls -> Call]
<1>1. [NewCall EXCEPT !.pc = "record", !.tok = call[c].tok] \in Call
  <2>1. call[c].tok \in 0..MaxToken /\ "record" \in CallPc
    BY Fields DEF CallPc
  <2>2. NewCall \in Call
    BY DEF NewCall, Call, CallPc
  <2>3. QED
    BY <2>1, <2>2 DEF Call
<1>2. QED
  BY <1>1 DEF Failed, TypeOK

LEMMA ReturnType ==
  ASSUME TypeOK, NEW c \in Calls, Return(c)
  PROVE  call' \in [Calls -> Call]
<1>1. [NewCall EXCEPT !.pc = "done"] \in Call
  BY DEF NewCall, Call, CallPc
<1>2. QED
  BY <1>1 DEF Return, TypeOK

LEMMA IssueType ==
  ASSUME TypeOK, NEW t \in 0..MaxToken, Issue(t)
  PROVE  /\ last' = last + 1 /\ last' \in Tokens
         /\ parent' \in [Tokens -> 0..MaxToken]
<1>1. last \in Tokens /\ last < MaxToken /\ parent \in [Tokens -> 0..MaxToken]
  BY DEF TypeOK, Issue
<1>2. last' = last + 1 /\ last' \in Tokens
  BY <1>1 DEF Issue, Tokens
<1>3. QED
  BY <1>1, <1>2 DEF Issue

LEMMA ExposeType ==
  ASSUME TypeOK, NEW c \in Calls, Expose(c)
  PROVE  exposed' \in [Tokens -> Nat]
BY Fields DEF TypeOK, Expose

LEMMA ClaimTypes ==
  ASSUME TypeOK, NEW c \in Calls, Claim(c)
  PROVE  TypeOK'
<1>1. CASE ClaimCurrent(c)
  BY <1>1, ReturnType DEF ClaimCurrent, TypeOK, History
<1>2. CASE ClaimRefused(c)
  BY <1>2, ReturnType, FailedType DEF ClaimRefused, Claiming, TypeOK, History
<1>3. CASE ClaimNew(c)
  <2>1. op' \in Operation
    BY <1>3, NewOperationType DEF ClaimNew
  <2> DEFINE a == [call EXCEPT ![c].pc = "start"]
             b == [call EXCEPT ![c].pc = "start", ![c].fence = op.fence + 1]
  <2>2. a \in [Calls -> Call]
    BY SetPc DEF TypeOK, CallPc
  <2>3. op.fence + 1 \in Nat /\ call[c].at + OpTTL \in Nat
    BY Fields
  <2>4. b \in [Calls -> Call]
    BY <2>2, <2>3, SetFence
  <2>5. [b EXCEPT ![c].expires = call[c].at + OpTTL] \in [Calls -> Call]
    BY <2>3, <2>4, SetExpires
  <2>6. call' \in [Calls -> Call]
    BY <1>3, <2>5 DEF ClaimNew
  <2>7. QED
    BY <1>3, <2>1, <2>6 DEF ClaimNew, Claiming, TypeOK, History
<1>4. CASE ClaimInProgress(c)
  BY <1>4, ReturnType DEF ClaimInProgress, Claiming, TypeOK, History
<1>5. CASE ClaimUncertain(c)
  BY <1>5, FailedType, FencedType DEF ClaimUncertain, Claiming, TypeOK, History
<1>6. CASE ClaimTakeover(c)
  <2>1. op.fence + 1 \in Nat /\ call[c].at + LeaseTTL \in Nat /\ op.expires \in Nat
    BY Fields
  <2>2. op' \in Operation
    BY <1>6, <2>1, TakenType DEF ClaimTakeover, TypeOK
  <2> DEFINE pc == IF op.stage = "exchanged" THEN "commit" ELSE "start"
             a == [call EXCEPT ![c].pc = pc]
             b == [a EXCEPT ![c].fence = op.fence + 1]
             e == [b EXCEPT ![c].expires = op.expires]
  <2>3. pc \in CallPc /\ Recovered \in 0..MaxToken
    BY Fields DEF CallPc, Recovered
  <2> HIDE DEF pc
  <2>4. a \in [Calls -> Call]
    BY <2>3, SetPc DEF TypeOK
  <2> HIDE DEF a
  <2>5. b \in [Calls -> Call]
    BY <2>1, <2>4, SetFence
  <2> HIDE DEF b
  <2>6. e \in [Calls -> Call]
    BY <2>1, <2>5, SetExpires
  <2> HIDE DEF e
  <2>7. [e EXCEPT ![c].got = Recovered] \in [Calls -> Call]
    BY <2>3, <2>6, SetGot
  <2>8. call' \in [Calls -> Call]
    BY <1>6, <2>7 DEF ClaimTakeover, e, b, a, pc
  <2>9. QED
    BY <1>6, <2>2, <2>8 DEF ClaimTakeover, Claiming, TypeOK, History
<1>7. QED
  BY <1>1, <1>2, <1>3, <1>4, <1>5, <1>6 DEF Claim

\* A credential is committed only where there is one to commit.
LEMMA NextTypes == TypeOK /\ Lineage /\ [Next]_vars => TypeOK'
<1> SUFFICES ASSUME TypeOK, Lineage, [Next]_vars PROVE TypeOK'
  OBVIOUS
<1>1. ASSUME NEW c \in Calls, Observe(c) PROVE TypeOK'
  <2> DEFINE a == [call EXCEPT ![c].pc = "claim"]
             b == [a EXCEPT ![c].tok = chan.token]
  <2>1. a \in [Calls -> Call]
    BY SetPc DEF TypeOK, CallPc
  <2> HIDE DEF a
  <2>2. b \in [Calls -> Call]
    BY <2>1, SetTok, Fields
  <2> HIDE DEF b
  <2>3. [b EXCEPT ![c].at = now] \in [Calls -> Call]
    BY <2>2, SetAt DEF TypeOK
  <2>4. QED
    BY <1>1, <2>3 DEF Observe, TypeOK, History, a, b
<1>2. ASSUME NEW c \in Calls, Claim(c) PROVE TypeOK'
  BY <1>2, ClaimTypes
<1>3. ASSUME NEW c \in Calls, MarkStarted(c) PROVE TypeOK'
  <2>1. call[c].at + LeaseTTL \in Nat
    BY Fields
  <2>2. op' \in Operation
    <3>1. op \in Operation
      BY DEF TypeOK
    <3>2. [op EXCEPT !.stage = "started", !.lease = call[c].at + LeaseTTL] \in Operation
      BY <2>1, <3>1, StartedType
    <3>3. QED
      BY <1>3, <3>1, <3>2 DEF MarkStarted
  <2>3. call' \in [Calls -> Call]
    BY <1>3, GotoType, ReturnType DEF MarkStarted, CallPc
  <2>4. QED
    BY <1>3, <2>2, <2>3 DEF MarkStarted, TypeOK, History
<1>4. ASSUME NEW c \in Calls, UpstreamRotates(c) PROVE TypeOK'
  <2>1. /\ last' \in Tokens /\ last' = last + 1 /\ parent' \in [Tokens -> 0..MaxToken]
        /\ exposed' \in [Tokens -> Nat]
    BY <1>4, IssueType, ExposeType, Fields DEF UpstreamRotates
  <2>5. rotated' \in Nat
    BY <1>4, Fields DEF UpstreamRotates, TypeOK
  <2>2. CASE Goto(c, "uncertain") \/ Goto(c, "release") \/ Goto(c, "terminal")
    <3>1. call' \in [Calls -> Call]
      BY <2>2, GotoType DEF CallPc
    <3>2. QED
      BY <1>4, <2>1, <2>5, <3>1 DEF UpstreamRotates, TypeOK
  <2>3. CASE call' = [call EXCEPT ![c].pc = "persist", ![c].got = last + 1]
    <3>1. [call EXCEPT ![c].pc = "persist"] \in [Calls -> Call]
      BY SetPc DEF TypeOK, CallPc
    <3>2. last + 1 \in 0..MaxToken
      BY <2>1 DEF Tokens
    <3>3. call' \in [Calls -> Call]
      BY <2>3, <3>1, <3>2, SetGot
    <3>4. QED
      BY <1>4, <2>1, <2>5, <3>3 DEF UpstreamRotates, TypeOK
  <2>4. QED
    BY <1>4, <2>2, <2>3 DEF UpstreamRotates
<1>5. ASSUME NEW c \in Calls, UpstreamRefuses(c) PROVE TypeOK'
  <2>1. call' \in [Calls -> Call]
    BY <1>5, GotoType DEF UpstreamRefuses, CallPc
  <2>2. QED
    BY <1>5, <2>1, ExposeType DEF UpstreamRefuses, TypeOK
<1>6. ASSUME NEW c \in Calls, Release(c) PROVE TypeOK'
  <2>1. op' \in Operation
    <3>1. (call[c].pc = "terminal") \in BOOLEAN
      OBVIOUS
    <3>2. (IF call[c].pc = "terminal" THEN "completed" ELSE "pending")
             \in {"completed", "pending"}
      OBVIOUS
    <3>3. QED
      BY <1>6, <3>1, <3>2, ReleasedType DEF Release, TypeOK
  <2>2. exposed' \in [Tokens -> Nat]
    BY <1>6 DEF Release, TypeOK
  <2>3. call' \in [Calls -> Call]
    BY <1>6, FailedType DEF Release
  <2>4. QED
    BY <1>6, <2>1, <2>2, <2>3 DEF Release, TypeOK
<1>7. ASSUME NEW c \in Calls, MarkUncertain(c) PROVE TypeOK'
  BY <1>7, FailedType, FencedType DEF MarkUncertain, TypeOK, History
<1>8. ASSUME NEW c \in Calls, RecordFailure(c) PROVE TypeOK'
  <2>1. chan' \in Channel
    BY <1>8, Fields DEF RecordFailure, TypeOK, Channel
  <2>2. QED
    BY <1>8, <2>1, ReturnType DEF RecordFailure, TypeOK
<1>9. ASSUME NEW c \in Calls, PersistResult(c) PROVE TypeOK'
  <2>1. call[c].at + LeaseTTL \in Nat
    BY Fields
  <2>2. op' \in Operation
    <3>1. op \in Operation /\ call[c].got \in 0..MaxToken
      BY Fields DEF TypeOK
    <3>2. [op EXCEPT !.stage = "exchanged", !.payload = call[c].got,
                     !.lease = call[c].at + LeaseTTL] \in Operation
      BY <2>1, <3>1, SavedType
    <3>3. QED
      BY <1>9, <3>1, <3>2 DEF PersistResult
  <2>3. call' \in [Calls -> Call]
    BY <1>9, GotoType DEF PersistResult, CallPc
  <2>4. QED
    BY <1>9, <2>2, <2>3 DEF PersistResult, TypeOK, History
<1>10. ASSUME NEW c \in Calls, Stop(c) PROVE TypeOK'
  BY <1>10, ReturnType DEF Stop, TypeOK, History
<1>11. CASE EditKey
  <2>1. /\ last' = last + 1 /\ last' \in Tokens /\ parent' \in [Tokens -> 0..MaxToken]
    BY <1>11, IssueType DEF EditKey
  <2>2. chan' \in Channel
    BY <1>11, <2>1 DEF EditKey, Channel, TypeOK
  <2>3. QED
    BY <1>11, <2>1, <2>2 DEF EditKey, TypeOK
<1>12. CASE Regenerate
  <2>1. /\ last' = last + 1 /\ last' \in Tokens /\ parent' \in [Tokens -> 0..MaxToken]
    BY <1>12, IssueType DEF Regenerate
  <2>2. chan' \in Channel
    BY <1>12, <2>1 DEF Regenerate, Channel, TypeOK
  <2>3. NoOperation \in Operation
    BY DEF NoOperation, Operation
  <2>4. QED
    BY <1>12, <2>1, <2>2, <2>3 DEF Regenerate, TypeOK
<1>13. CASE Tick
  BY <1>13 DEF Tick, TypeOK, History
<1>14. CASE UNCHANGED vars
  BY <1>14 DEF vars, TypeOK
<1>15. ASSUME NEW c \in Calls, Commit(c) PROVE TypeOK'
  <2>1. call' \in [Calls -> Call]
    BY <1>15, ReturnType DEF Commit
  <2>2. rotated' \in Nat /\ stray' \in BOOLEAN
    <3>1. rotated \in Nat /\ stray \in BOOLEAN
      BY DEF TypeOK
    <3>2. CASE rotated' = 0 /\ stray' = FALSE
      BY <3>2
    <3>3. CASE rotated' = rotated /\ stray' = stray
      BY <3>1, <3>3
    <3>4. QED
      BY <1>15, <3>2, <3>3 DEF Commit
  <2>3. op' \in Operation
    <3>1. (~SameGeneration) \in BOOLEAN /\ op \in Operation
      BY DEF TypeOK
    <3>2. QED
      BY <1>15, <3>1, CompletedType DEF Commit
  <2>4. chan' \in Channel
    <3>1. CASE UNCHANGED chan
      BY <3>1 DEF TypeOK
    <3>2. CASE Owns(c) /\ chan' = [token |-> call[c].got, at |-> call[c].at, bad |-> 0]
      <4>1. call[c].got \in Tokens /\ call[c].at \in Int
        BY <1>15, <3>2, Fields DEF Commit, Lineage, Owns, Tokens
      <4>2. QED
        BY <3>2, <4>1 DEF Channel
    <3>3. QED
      BY <1>15, <3>1, <3>2 DEF Commit
  <2>5. QED
    BY <1>15, <2>1, <2>2, <2>3, <2>4 DEF Commit, TypeOK
<1>17. CASE RecordIssue
  <2>1. chan' \in Channel
    <3>1. PICK t \in {1, chan.token} : chan' \in {[chan EXCEPT !.bad = b] : b \in {0, t}}
      BY <1>17 DEF RecordIssue
    <3>2. t \in 0..MaxToken /\ 0 \in 0..MaxToken /\ chan \in Channel
      BY DEF TypeOK, Channel, Tokens
    <3>3. QED
      BY <3>1, <3>2 DEF Channel
  <2>2. stray' \in BOOLEAN
    BY <1>17 DEF RecordIssue
  <2>3. QED
    BY <1>17, <2>1, <2>2 DEF RecordIssue, TypeOK
<1>16. QED
  BY <1>1, <1>2, <1>3, <1>4, <1>5, <1>6, <1>7, <1>8, <1>9, <1>10, <1>11, <1>12,
     <1>13, <1>14, <1>15, <1>17 DEF Next

-----------------------------------------------------------------------------
(* The invariant.                                                          *)

LEMMA InitIInv == Init => IInv
<1> SUFFICES ASSUME Init PROVE IInv
  OBVIOUS
<1>1. TypeOK
  BY InitTypes
<1>2. \A c \in Calls : call[c].pc = "idle" /\ call[c].tok = 0 /\ call[c].at = 0 /\ op.owner # c
  BY DEF Init, NewCall, NoOperation
<1>3. Fresh /\ Lineage
  BY <1>2 DEF Init, NoOperation, Fresh, Lineage, Tokens
<1>4. Rights /\ Guarded /\ Alone /\ Marked
  BY <1>2 DEF Init, NoOperation, Rights, Active, Guarded, Sends, Alone, Marked, Spent, Tokens
<1>5. QED
  BY <1>1, <1>3, <1>4 DEF IInv

Parts == Fresh /\ Lineage /\ Rights /\ Guarded /\ Alone /\ Marked

\* The types as numbers.
LEMMA Numbers ==
  ASSUME TypeOK
  PROVE  /\ \A c \in Calls : /\ call[c].at \in Nat /\ call[c].expires \in Nat
                             /\ call[c].tok \in Nat /\ call[c].got \in Nat
         /\ op.expires \in Nat /\ op.gen \in Nat /\ op.payload \in Nat
         /\ chan.token \in Nat /\ chan.token \in Tokens
         /\ last \in Nat /\ last \in Tokens /\ now \in Nat
         /\ \A t \in Tokens : exposed[t] \in Nat /\ parent[t] \in Nat /\ t \in Nat
<1>1. \A c \in Calls : /\ call[c].at \in Nat /\ call[c].expires \in Nat
                       /\ call[c].tok \in Nat /\ call[c].got \in Nat
  <2> TAKE c \in Calls
  <2>1. 0..MaxToken \subseteq Nat
    OBVIOUS
  <2>2. QED
    BY <2>1, Fields
<1>2. /\ op.expires \in Nat /\ op.gen \in Nat /\ op.payload \in Nat
  BY DEF TypeOK, Operation
<1>3. /\ chan.token \in Nat /\ chan.token \in Tokens
      /\ last \in Nat /\ last \in Tokens /\ now \in Nat
  BY DEF TypeOK, Channel, Tokens
<1>4. \A t \in Tokens : exposed[t] \in Nat /\ parent[t] \in Nat /\ t \in Nat
  BY DEF TypeOK, Tokens
<1>5. QED
  BY <1>1, <1>2, <1>3, <1>4

\* What a request that only moves on leaves alone.
LEMMA GotoEffect ==
  ASSUME TypeOK, NEW c \in Calls, NEW pc, Goto(c, pc)
  PROVE  /\ \A d \in Calls \ {c} : call'[d] = call[d]
         /\ call'[c].pc = pc
         /\ call'[c].tok = call[c].tok /\ call'[c].at = call[c].at
         /\ call'[c].expires = call[c].expires /\ call'[c].got = call[c].got
BY DEF TypeOK, Goto, Call

\* What remains of a call that has failed, or returned.
LEMMA EndEffect ==
  ASSUME TypeOK, NEW c \in Calls, Failed(c) \/ Return(c)
  PROVE  /\ \A d \in Calls \ {c} : call'[d] = call[d]
         /\ \/ call'[c].pc = "record" /\ call'[c].tok = call[c].tok
            \/ call'[c].pc = "done" /\ call'[c].tok = 0
         /\ call'[c].at = 0 /\ call'[c].expires = 0
<1>1. call \in [Calls -> Call]
  BY DEF TypeOK
<1>2. CASE Failed(c)
  <2>1. /\ \A d \in Calls \ {c} : call'[d] = call[d]
        /\ call'[c] = [NewCall EXCEPT !.pc = "record", !.tok = call[c].tok]
    BY <1>1, <1>2 DEF Failed
  <2>2. QED
    BY <2>1 DEF NewCall
<1>3. CASE Return(c)
  <2>1. /\ \A d \in Calls \ {c} : call'[d] = call[d]
        /\ call'[c] = [NewCall EXCEPT !.pc = "done"]
    BY <1>1, <1>3 DEF Return
  <2>2. QED
    BY <2>1 DEF NewCall
<1>4. QED
  BY <1>2, <1>3

\* Only the locals of c have changed, and it sends nothing.
Inert(c) == /\ \A d \in Calls \ {c} : call'[d] = call[d]
            /\ call'[c].pc \in {"claim", "uncertain", "record", "done"}
            /\ call'[c].pc # "done" => call'[c].tok \in Tokens
            /\ call'[c].tok <= chan.token
            /\ call'[c].at <= now

LEMMA InertEnd ==
  ASSUME IInv, NEW c \in Calls, call[c].pc \notin {"idle", "done"},
         Failed(c) \/ Return(c) \/ Goto(c, "uncertain")
  PROVE  /\ Inert(c)
         /\ \/ call'[c].pc \in {"record", "done"}
            \/ call'[c].pc = "uncertain" /\ UNCHANGED <<call[c].tok, call[c].expires>>
<1>1. TypeOK /\ Fresh
  BY DEF IInv
<1>2. call[c].tok \in Tokens /\ call[c].tok <= chan.token /\ call[c].at <= now
  BY <1>1 DEF Fresh
<1>3. 0 <= chan.token /\ 0 <= now
  BY <1>1, Numbers
<1>4. CASE Failed(c) \/ Return(c)
  BY <1>1, <1>2, <1>3, <1>4, EndEffect DEF Inert
<1>5. CASE Goto(c, "uncertain")
  BY <1>1, <1>2, <1>5, GotoEffect DEF Inert
<1>6. QED
  BY <1>4, <1>5

\* A step that leaves the row, the key and upstream alone.
LEMMA CalmKeeps ==
  ASSUME IInv, NEW c \in Calls, Inert(c),
         UNCHANGED <<op, last, parent, exposed, rotated, now>>, chan'.token = chan.token,
         op.owner = c => \/ call'[c].pc \in {"record", "done"}
                         \/ /\ call[c].pc \notin {"record", "done"} /\ call'[c].pc = "uncertain"
                            /\ UNCHANGED <<call[c].tok, call[c].expires>>
  PROVE  Parts'
<1>1. \A d \in Calls : \A t : Sends(d, t)' => d # c /\ Sends(d, t)
  BY DEF Sends, Inert
<1>2. \A d \in Calls \ {c} : call'[d] = call[d]
  BY DEF Inert
<1>3. \A d \in Calls : Holds(d)' => Holds(d) /\ UNCHANGED <<call[d].tok, call[d].expires>>
  BY <1>2 DEF Holds
<1>4. Fresh'
  BY <1>2 DEF IInv, Fresh, Inert
<1>5. Lineage'
  BY <1>2 DEF IInv, Lineage, Outdated, Inert
<1>6. Rights'
  BY <1>2, <1>3 DEF IInv, Rights, Active, Inert
<1>7. Guarded'
  <2>1. \A e : Guards(e) => Guards(e)'
    BY <1>3 DEF Guards, Active
  <2>2. QED
    BY <1>1, <1>2, <2>1 DEF IInv, Guarded, Active
<1>8. Alone'
  BY <1>1, <1>2 DEF IInv, Alone, Inert
<1>9. Marked'
  BY <1>2, <1>3 DEF IInv, Marked, Inert, Holds
<1>10. QED
  BY <1>4, <1>5, <1>6, <1>7, <1>8, <1>9 DEF Parts

\* A step that closes the row for good.
LEMMA ClosesKeep ==
  ASSUME IInv, NEW c \in Calls, Inert(c),
         UNCHANGED <<last, parent, exposed, rotated, now>>, chan'.token = chan.token,
         op'.status = "uncertain" \/ (op'.status = "completed" /\ op'.failed),
         op'.owner = None, op'.gen = op.gen,
         op'.stage = "exchanged" => op.stage = "exchanged" /\ op'.payload = op.payload
  PROVE  Parts'
<1>1. \A d \in Calls : \A t : Sends(d, t)' => d # c /\ Sends(d, t)
  BY DEF Sends, Inert
<1>2. \A d \in Calls \ {c} : call'[d] = call[d]
  BY DEF Inert
<1>3. \A d \in Calls : op'.owner # d
  OBVIOUS
<1>4. Fresh'
  BY <1>2 DEF IInv, Fresh, Inert
<1>5. Lineage'
  BY <1>2, <1>3 DEF IInv, Lineage, Outdated, Inert
<1>6. Rights'
  BY <1>2, <1>3 DEF IInv, Rights, Active, Inert, Holds
<1>7. Guarded'
  BY <1>1 DEF Guarded, Guards, Active
<1>8. Alone'
  BY <1>1, <1>2, <1>3 DEF IInv, Alone
<1>9. Marked'
  BY <1>3 DEF Marked, Holds
<1>10. QED
  BY <1>4, <1>5, <1>6, <1>7, <1>8, <1>9 DEF Parts

\* A step that replaces the key: by a credential nobody has seen, so that it
\* is not exposed, and the row is outdated.
LEMMA KeyMovesKeep ==
  ASSUME IInv, TypeOK', UNCHANGED <<exposed, now>>, rotated' = 0,
         chan.token < chan'.token, chan'.token <= last', last <= last',
         \A t \in 1..last : parent'[t] = parent[t],
         \A t \in Tokens : parent'[t] < t /\ parent'[t] <= chan.token,
         \/ UNCHANGED op
         \/ /\ op'.owner = None /\ op'.gen <= chan.token
            /\ op'.stage # "exchanged" /\ op'.status \in {"none", "completed"},
         \A d \in Calls : \/ call'[d] = call[d]
                          \/ /\ call'[d].pc = "done" /\ op'.owner # d
                             /\ call'[d].tok = 0 /\ call'[d].at = 0
  PROVE  Parts'
<1>a. TypeOK
  BY DEF IInv
<1>b. Outdated' /\ op'.gen <= chan'.token
  BY <1>a, Numbers DEF IInv, Fresh, Outdated, TypeOK, Operation, Channel
<1>c. \A d \in Calls : call'[d] = call[d] \/ (call'[d].tok = 0 /\ call'[d].at = 0)
  OBVIOUS
<1>f. chan'.token \in Nat /\ chan'.token \in Tokens /\ last' \in Tokens /\ last' \in Nat
  BY DEF TypeOK, Channel, Tokens
<1>g. /\ \A d \in Calls : call[d].tok \in Nat /\ call[d].tok <= chan.token
      /\ chan.token \in Nat /\ last \in Nat
  <2>1. \A d \in Calls : call[d].tok <= chan.token
    BY DEF IInv, Fresh
  <2>2. QED
    BY <1>a, <2>1, Numbers
<1>d. \A d \in Calls : call'[d].tok # chan'.token /\ call'[d].tok <= chan'.token
  BY <1>c, <1>f, <1>g
<1>h. \A n \in 1..last : n \in 1..last'
  BY <1>f, <1>g
<1>e. \A d \in Calls : op'.owner = d => call'[d] = call[d] /\ op' = op
  OBVIOUS
<1>1. Fresh'
  <2>1. \A t \in Tokens : /\ parent'[t] < t /\ parent'[t] <= chan'.token
                          /\ exposed'[t] # 0 => t <= chan'.token
    <3> TAKE t \in Tokens
    <3>1. parent'[t] <= chan.token /\ parent'[t] < t /\ parent'[t] \in Nat /\ t \in Nat
      BY DEF TypeOK, Tokens
    <3>2. exposed'[t] # 0 => t <= chan.token
      BY DEF IInv, Fresh
    <3>3. QED
      BY <1>f, <1>g, <3>1, <3>2
  <2>2. \A d \in Calls : /\ call'[d].tok <= chan'.token /\ call'[d].at <= now'
                         /\ call'[d].pc \notin {"idle", "done"} => call'[d].tok \in Tokens
    BY <1>a, <1>c, <1>d, Numbers DEF IInv, Fresh
  <2>3. QED
    BY <1>b, <2>1, <2>2 DEF Fresh
<1>2. Lineage'
  <2>1. op'.stage = "exchanged" => op'.payload \in 1..last'
    BY <1>h DEF IInv, Lineage
  <2>2. \A d \in Calls : call'[d].pc = "persist" =>
           call'[d].got \in 1..last' /\ parent'[call'[d].got] = call'[d].tok
    BY <1>h DEF IInv, Lineage
  <2>3. \A d \in Calls : op'.owner = d /\ call'[d].pc = "commit" => call'[d].got \in 1..last'
    BY <1>e, <1>h DEF IInv, Lineage
  <2>4. QED
    BY <1>b, <2>1, <2>2, <2>3 DEF Lineage
<1>3. Rights'
  BY <1>e DEF IInv, Rights, Active, Holds
<1>4. Guarded'
  <2>1. exposed'[chan'.token] = 0
    BY <1>a, Numbers DEF IInv, Fresh, TypeOK, Channel
  <2>2. \A d \in Calls : ~Sends(d, chan.token)'
    BY <1>d DEF Sends
  <2>3. ~(rotated' > now')
    BY <1>a, Numbers
  <2>4. QED
    BY <2>1, <2>2, <2>3 DEF Guarded
<1>5. Alone'
  <2>1. \A d \in Calls : \A t : Sends(d, t)' => Sends(d, t) /\ call'[d] = call[d]
    BY DEF Sends
  <2>2. QED
    BY <1>c, <1>e, <2>1 DEF IInv, Alone
<1>6. Marked'
  BY <1>a, Numbers DEF Marked
<1>7. QED
  BY <1>1, <1>2, <1>3, <1>4, <1>5, <1>6 DEF Parts

LEMMA ObserveKeeps == ASSUME IInv, NEW c \in Calls, Observe(c) PROVE Parts'
<1>1. TypeOK /\ Rights /\ call[c].pc = "idle"
  BY DEF IInv, Observe
<1>2. /\ \A d \in Calls \ {c} : call'[d] = call[d]
      /\ call'[c].pc = "claim" /\ call'[c].tok = chan.token /\ call'[c].at = now
  BY <1>1 DEF Observe, TypeOK, Call
<1>3. op.owner # c
  BY <1>1 DEF Rights
<1>4. Inert(c)
  BY <1>1, <1>2, Numbers DEF Inert
<1>5. QED
  BY <1>3, <1>4, CalmKeeps DEF Observe, History

\* A call that ends, or goes on to record a failure, and changes nothing else.
LEMMA EndsKeep ==
  ASSUME IInv, NEW c \in Calls, call[c].pc \notin {"idle", "done"},
         \/ Failed(c) \/ Return(c)
         \/ call[c].pc # "record" /\ Goto(c, "uncertain"),
         UNCHANGED <<op, last, parent, exposed, rotated, now>>, chan'.token = chan.token
  PROVE  Parts'
<1>1. /\ Inert(c)
      /\ \/ call'[c].pc \in {"record", "done"}
         \/ call'[c].pc = "uncertain" /\ UNCHANGED <<call[c].tok, call[c].expires>>
  BY InertEnd
<1>2. call'[c].pc = "uncertain" => call[c].pc # "record"
  BY EndEffect DEF IInv
<1>3. QED
  BY <1>1, <1>2, CalmKeeps

LEMMA FencesKeep ==
  ASSUME IInv, NEW c \in Calls, call[c].pc \notin {"idle", "done"}, Failed(c), op' = Fenced,
         UNCHANGED <<now, chan, last, parent, exposed, rotated>>
  PROVE  Parts'
<1>1. Inert(c)
  BY InertEnd
<1>2. /\ op'.status = "uncertain" /\ op'.owner = None
      /\ UNCHANGED <<op.gen, op.stage, op.payload>>
  BY DEF Fenced, IInv, TypeOK, Operation
<1>3. QED
  BY <1>1, <1>2, ClosesKeep

LEMMA ClaimNewKeeps == ASSUME IInv, NEW c \in Calls, ClaimNew(c) PROVE Parts'
<1> USE DEF IInv
<1>a. /\ call[c].pc = "claim" /\ call[c].tok = chan.token /\ call[c].at <= now
      /\ UNCHANGED <<now, chan, last, parent, exposed, rotated>>
  BY DEF ClaimNew, Claiming, Fresh, History
<1>b. /\ \A d \in Calls \ {c} : call'[d] = call[d]
      /\ call'[c].pc = "start" /\ call'[c].expires = call[c].at + OpTTL
      /\ UNCHANGED <<call[c].tok, call[c].at, call[c].got>>
  BY DEF ClaimNew, TypeOK, Call
<1>c. /\ op'.status = "exchanging" /\ op'.stage = "pending" /\ op'.owner = c
      /\ op'.expires = call[c].at + OpTTL /\ op'.gen = chan.token
  BY DEF ClaimNew, NewOperation
<1>d. \A e \in Nat : Guards(e) => e <= call[c].at
  BY Numbers DEF Guards, ClaimNew, Live, Active
<1>e. \A e \in Nat : Guards(e) => e <= now /\ e < op'.expires /\ Guards(e)'
  BY <1>a, <1>c, <1>d, Numbers DEF Guards, Active
<1>f. exposed[chan.token] <= now
  BY <1>e, Numbers DEF Guarded
<1>g. \A d \in Calls : Sends(d, chan.token) => Guards(call[d].expires)
  BY DEF Guarded
<1>h. \A d \in Calls : Sends(d, chan.token) => call[d].expires <= now /\ call[d].expires # op'.expires
  BY <1>e, <1>g, Numbers
<1>i. \A d \in Calls : \A t : Sends(d, t)' => Sends(d, t) /\ call'[d] = call[d]
  BY <1>b DEF Sends
<1>1. Fresh'
  BY <1>a, <1>b, <1>c, Numbers DEF Fresh
<1>2. Lineage'
  BY <1>a, <1>b, <1>c DEF Lineage, Outdated
<1>3. Rights'
  BY <1>b, <1>c, Numbers DEF Rights, Active, Holds
<1>4. Guarded'
  <2>1. ~(rotated' > now')
    BY <1>a, <1>e, Numbers DEF Guarded, TypeOK
  <2>2. QED
    BY <1>a, <1>e, <1>g, <1>h, <1>i, <2>1, Numbers DEF Guarded
<1>5. Alone'
  BY <1>a, <1>b, <1>c, <1>f, <1>h, <1>i DEF Alone
<1>6. Marked'
  BY <1>a, <1>b, <1>c DEF Marked, Holds
<1>7. QED
  BY <1>1, <1>2, <1>3, <1>4, <1>5, <1>6 DEF Parts

LEMMA ClaimTakeoverKeeps == ASSUME IInv, NEW c \in Calls, ClaimTakeover(c) PROVE Parts'
<1> USE DEF IInv
<1>a. /\ call[c].pc = "claim" /\ call[c].tok = chan.token /\ call[c].at <= now
      /\ UNCHANGED <<now, chan, last, parent, exposed, rotated>>
  BY DEF ClaimTakeover, Claiming, Fresh, History
<1>b. /\ \A d \in Calls \ {c} : call'[d] = call[d]
      /\ call'[c].pc = IF op.stage = "exchanged" THEN "commit" ELSE "start"
      /\ call'[c].expires = op.expires /\ call'[c].got = Recovered
      /\ UNCHANGED <<call[c].tok, call[c].at>>
  BY DEF ClaimTakeover, TypeOK, Call
<1>c. /\ op'.status = "exchanging" /\ op'.owner = c
      /\ UNCHANGED <<op.stage, op.expires, op.gen, op.payload>>
  BY DEF ClaimTakeover, TypeOK, Operation
<1>d. Active /\ Active' /\ op.stage # "started"
  BY <1>c DEF ClaimTakeover, Live, LostUpstream, Active
<1>e. \A e \in Nat : Guards(e) => Guards(e)' /\ (op.stage # "exchanged" => e <= now)
  BY <1>a, <1>b, <1>c, <1>d DEF Guards, Active, Holds
<1>g. \A d \in Calls : Sends(d, chan.token) => Guards(call[d].expires)
  BY DEF Guarded
<1>h. \A d \in Calls : Sends(d, chan.token) => call[d].expires # op.expires
  BY <1>d DEF Guarded, Rights, Sends, Holds
<1>i. \A d \in Calls : \A t : Sends(d, t)' => Sends(d, t) /\ call'[d] = call[d]
  BY <1>b DEF Sends
<1>1. Fresh'
  BY <1>a, <1>b, <1>c, Numbers DEF Fresh
<1>2. Lineage'
  <2>1. chan.token = op.gen \/ Outdated
    BY Numbers DEF Fresh, Outdated
  <2>2. QED
    BY <1>a, <1>b, <1>c, <2>1 DEF Lineage, Outdated, Recovered
<1>3. Rights'
  BY <1>b, <1>c, <1>d DEF Rights, Active, Holds
<1>4. Guarded'
  <2>1. (rotated > now => Guards(rotated))'
    BY <1>a, <1>e, Numbers DEF Guarded, TypeOK
  <2>2. QED
    BY <1>a, <1>c, <1>e, <1>g, <1>h, <1>i, <2>1, Numbers DEF Guarded
<1>5. Alone'
  <2>1. op.stage # "exchanged" => exposed[chan.token] <= now
    BY <1>e, Numbers DEF Guarded
  <2>2. op.stage # "exchanged" => \A d \in Calls : Sends(d, chan.token) => call[d].expires <= now
    BY <1>e, <1>g, Numbers
  <2>3. QED
    BY <1>a, <1>b, <1>c, <1>i, <2>1, <2>2 DEF Alone
<1>6. Marked'
  BY <1>a, <1>b, <1>c DEF Marked, Holds
<1>7. QED
  BY <1>1, <1>2, <1>3, <1>4, <1>5, <1>6 DEF Parts

LEMMA ClaimKeeps == ASSUME IInv, NEW c \in Calls, Claim(c) PROVE Parts'
<1>1. CASE ClaimCurrent(c)
  BY <1>1, EndsKeep DEF ClaimCurrent, History
<1>2. CASE ClaimRefused(c)
  BY <1>2, EndsKeep DEF ClaimRefused, Claiming, History
<1>3. CASE ClaimNew(c)
  BY <1>3, ClaimNewKeeps
<1>4. CASE ClaimInProgress(c)
  BY <1>4, EndsKeep DEF ClaimInProgress, Claiming, History
<1>5. CASE ClaimUncertain(c)
  BY <1>5, FencesKeep DEF ClaimUncertain, Claiming, History
<1>6. CASE ClaimTakeover(c)
  BY <1>6, ClaimTakeoverKeeps
<1>7. QED
  BY <1>1, <1>2, <1>3, <1>4, <1>5, <1>6 DEF Claim

LEMMA MarkStartedKeeps == ASSUME IInv, NEW c \in Calls, MarkStarted(c) PROVE Parts'
<1>1. CASE Return(c) /\ UNCHANGED op
  BY <1>1, EndsKeep DEF MarkStarted, History
<1>2. CASE /\ Owns(c)
           /\ op' = [op EXCEPT !.stage = "started", !.lease = call[c].at + LeaseTTL]
           /\ Goto(c, "send")
  <2> USE DEF IInv
  <2>a. /\ call[c].pc = "start" /\ op.owner = c /\ op.status = "exchanging"
        /\ call[c].expires = op.expires /\ call[c].tok \in Tokens
        /\ op.stage \notin {"started", "exchanged"}
        /\ UNCHANGED <<now, chan, last, parent, exposed, rotated>>
    BY <1>2 DEF MarkStarted, Owns, Rights, Fresh, History, Holds
  <2>b. /\ \A d \in Calls \ {c} : call'[d] = call[d]
        /\ call'[c].pc = "send"
        /\ UNCHANGED <<call[c].tok, call[c].at, call[c].expires, call[c].got>>
    BY <1>2, GotoEffect
  <2>c. /\ op'.stage = "started"
        /\ UNCHANGED <<op.status, op.owner, op.expires, op.gen, op.payload>>
    BY <1>2 DEF TypeOK, Operation
  <2>d. \A d \in Calls : \A t : Sends(d, t)' =>
           \/ d # c /\ Sends(d, t) /\ call'[d] = call[d]
           \/ d = c /\ t = call[c].tok
    BY <2>b DEF Sends
  <2>e. \A e \in Nat : Guards(e) => Guards(e)' /\ e <= now
    BY <2>a, <2>c DEF Guards, Active
  <2>1. Fresh'
    BY <2>a, <2>b, <2>c DEF Fresh
  <2>2. Lineage'
    BY <2>a, <2>b, <2>c DEF Lineage, Outdated
  <2>3. Rights'
    BY <2>a, <2>b, <2>c DEF Rights, Active, Holds
  <2>4. Guarded'
    <3>1. call[c].tok = chan.token => Guards(call[c].expires)'
      BY <2>a, <2>b, <2>c DEF Guards, Active, Holds
    <3>a. /\ rotated <= now
          /\ \A d \in Calls : Sends(d, chan.token) => Guards(call[d].expires)
          /\ exposed[chan.token] # 0 => Guards(exposed[chan.token])
      BY <2>e, Numbers DEF Guarded, TypeOK
    <3>b. exposed[chan.token] \in Nat /\ \A d \in Calls : call[d].expires \in Nat
      BY Numbers
    <3>2. \A d \in Calls : (Sends(d, chan.token) => Guards(call[d].expires))'
      BY <2>a, <2>b, <2>d, <2>e, <3>1, <3>a, <3>b
    <3>3. (exposed[chan.token] # 0 => Guards(exposed[chan.token]))'
      BY <2>a, <2>e, <3>a, <3>b
    <3>4. \A d \in Calls : Sends(d, chan.token)' /\ Active' /\ call'[d].expires = op'.expires
                              => op'.owner = d
      BY <2>a, <2>b, <2>c, <2>d DEF Guarded, Active
    <3>6. ~(rotated' > now')
      BY <2>a, <3>a, Numbers DEF TypeOK
    <3>5. QED
      BY <3>2, <3>3, <3>4, <3>6 DEF Guarded
  <2>5. Alone'
    <3>1. /\ exposed[call[c].tok] <= now
          /\ \A d \in Calls : Sends(d, call[c].tok) => call[d].expires <= now
      BY <2>a DEF Alone
    <3>2. QED
      BY <2>a, <2>b, <2>c, <2>d, <3>1 DEF Alone, Sends
  <2>6. Marked'
    <3>1. rotated <= now
      BY <2>e, Numbers DEF Guarded, TypeOK
    <3>2. QED
      BY <2>a, <3>1 DEF Marked
  <2>7. QED
    BY <2>1, <2>2, <2>3, <2>4, <2>5, <2>6 DEF Parts
<1>3. QED
  BY <1>1, <1>2 DEF MarkStarted

\* Upstream has seen the token: c stops sending, and the token is exposed
\* until the operation of c expires.
LEMMA ExposeKeeps ==
  ASSUME IInv, NEW c \in Calls, call[c].pc = "send", Expose(c),
         UNCHANGED <<now, chan, op>>, last <= last', last' \in Nat,
         \A t \in 1..last : parent'[t] = parent[t],
         \A t \in Tokens : /\ parent'[t] \in {parent[t], call[c].tok}
                           /\ parent'[t] < t,
         \A d \in Calls \ {c} : call'[d] = call[d],
         UNCHANGED <<call[c].tok, call[c].at, call[c].expires>>,
         call'[c].pc \in {"persist", "uncertain", "terminal", "release"},
         call'[c].pc = "persist" => /\ call'[c].got \in 1..last'
                                    /\ parent'[call'[c].got] = call[c].tok,
         \/ UNCHANGED rotated
         \/ /\ call'[c].pc \in {"persist", "uncertain"}
            /\ call[c].tok = chan.token /\ rotated' = call[c].expires
  PROVE  Parts'
<1> USE DEF IInv
<1>a. call[c].tok \in Tokens /\ call[c].tok <= chan.token /\ call[c].expires > 0
  BY DEF Fresh, Rights
<1>b. \A t \in Tokens : exposed'[t] = IF t = call[c].tok THEN call[c].expires ELSE exposed[t]
  BY <1>a DEF Expose, TypeOK
<1>c. \A d \in Calls : UNCHANGED <<call[d].tok, call[d].at, call[d].expires>>
  OBVIOUS
<1>d. \A d \in Calls : \A t : Sends(d, t)' => d # c /\ Sends(d, t)
  BY DEF Sends
<1>e. Sends(c, call[c].tok)
  BY DEF Sends
<1>f. \A n \in 1..last : n \in 1..last'
  BY Numbers
<1>1. Fresh'
  <2>1. chan.token <= last'
    BY Numbers DEF Fresh
  <2>2. \A t \in Tokens : /\ parent'[t] < t /\ parent'[t] <= chan.token
                          /\ exposed'[t] # 0 => t <= chan.token
    BY <1>a, <1>b DEF Fresh
  <2>3. \A d \in Calls : /\ call'[d].tok <= chan.token
                         /\ call'[d].at <= now
                         /\ call'[d].pc \notin {"idle", "done"} => call'[d].tok \in Tokens
    BY <1>a, <1>c DEF Fresh
  <2>4. QED
    BY <2>1, <2>2, <2>3 DEF Fresh
<1>2. Lineage'
  <2>1. \A d \in Calls : call'[d].pc = "persist" =>
           call'[d].got \in 1..last' /\ parent'[call'[d].got] = call'[d].tok
    BY <1>f DEF Lineage
  <2>2. op.stage = "exchanged" =>
           op.payload \in 1..last' /\ (parent'[op.payload] = op.gen \/ Outdated)
    BY <1>f DEF Lineage
  <2>3. \A d \in Calls : op.owner = d /\ call'[d].pc = "commit" =>
           call'[d].got \in 1..last' /\ (parent'[call'[d].got] = op.gen \/ Outdated)
    BY <1>f DEF Lineage
  <2>4. \A d \in Calls : op.owner = d /\ call'[d].pc \in {"start", "send", "persist"} =>
           call'[d].tok = op.gen \/ Outdated
    BY DEF Lineage
  <2>5. QED
    BY <2>1, <2>2, <2>3, <2>4 DEF Lineage, Outdated
<1>3. Rights'
  BY <1>c DEF Rights, Active, Holds
<1>4. Guarded'
  <2>1. \A e \in Nat : Guards(e) => Guards(e)'
    BY <1>c DEF Guards, Active, Holds
  <2>2. chan.token = call[c].tok => Guards(call[c].expires)
    BY <1>e DEF Guarded
  <2>3. (exposed[chan.token] # 0 => Guards(exposed[chan.token]))'
    BY <1>b, <2>1, <2>2, Numbers DEF Guarded
  <2>4. (rotated > now => Guards(rotated))'
    BY <2>1, <2>2, Numbers DEF Guarded, TypeOK
  <2>5. QED
    BY <1>c, <1>d, <2>1, <2>3, <2>4, Numbers DEF Guarded, Active
<1>5. Alone'
  <2>1. \A d \in Calls : Sends(d, call[c].tok) /\ d # c =>
                            call[d].expires <= now \/ call[c].expires <= now
    BY <1>a, <1>e DEF Alone
  <2>2. \A d \in Calls : op.owner = d /\ call[d].pc = "start" =>
           /\ exposed'[call[d].tok] <= now
           /\ \A q \in Calls : Sends(q, call[d].tok) => call[q].expires <= now
    BY <1>b, <1>e DEF Alone, Fresh
  <2>3. \A d \in Calls : Sends(d, call[d].tok) /\ d # c =>
           exposed'[call[d].tok] <= now \/ call[d].expires <= now
    BY <1>b, <2>1 DEF Alone, Fresh, Sends
  <2>4. QED
    BY <1>c, <1>d, <2>2, <2>3 DEF Alone
<1>6. Marked'
  <2> SUFFICES ASSUME NEW d \in Calls, Holds(d)', call'[d].pc \in {"send", "release"},
                      rotated' > now
               PROVE  rotated' # op.expires
    BY Numbers DEF Marked, TypeOK
  <2>1. Holds(d) /\ Active /\ (d = c \/ call[d].pc = call'[d].pc)
    BY DEF Holds, Rights, Active
  <2>2. CASE UNCHANGED rotated
    BY <2>1, <2>2, Numbers DEF Marked, TypeOK
  <2>3. CASE d # c /\ call[c].tok = chan.token /\ rotated' = call[c].expires
    BY <1>e, <2>1, <2>3 DEF Guarded, Holds
  <2>4. QED
    BY <2>2, <2>3
<1>7. QED
  BY <1>1, <1>2, <1>3, <1>4, <1>5, <1>6 DEF Parts

LEMMA UpstreamRotatesKeeps == ASSUME IInv, NEW c \in Calls, UpstreamRotates(c) PROVE Parts'
<1>a. TypeOK /\ call[c].tok \in Nat /\ call[c].tok <= chan.token /\ chan.token <= last
  BY Numbers DEF IInv, Fresh
<1>b. last' = last + 1 /\ last < MaxToken /\ last \in Nat
  BY <1>a, Numbers DEF UpstreamRotates, Issue
<1>c. /\ \A d \in Calls \ {c} : call'[d] = call[d]
      /\ UNCHANGED <<call[c].tok, call[c].at, call[c].expires>>
      /\ \/ call'[c].pc = "persist" /\ call'[c].got = last + 1
         \/ call'[c].pc \in {"uncertain", "release", "terminal"}
      /\ \/ UNCHANGED rotated
         \/ /\ call'[c].pc \in {"persist", "uncertain"}
            /\ call[c].tok = chan.token /\ rotated' = call[c].expires
  BY <1>a DEF UpstreamRotates, Goto, TypeOK, Call
<1>d. parent' = [parent EXCEPT ![last + 1] = call[c].tok] /\ parent \in [Tokens -> 0..MaxToken]
  BY <1>a DEF UpstreamRotates, Issue, TypeOK
<1>e. last + 1 \in Tokens /\ last + 1 \in 1..last'
  BY <1>b DEF Tokens
<1>f. \A t \in 1..last : t \in Tokens /\ t # last + 1
  BY <1>b DEF Tokens
<1>1. \A t \in Tokens : parent'[t] \in {parent[t], call[c].tok} /\ parent'[t] < t
  <2>1. call[c].tok < last + 1
    BY <1>a, <1>b, Numbers
  <2>2. QED
    BY <1>d, <1>e, <2>1 DEF IInv, Fresh
<1>2. /\ \A t \in 1..last : parent'[t] = parent[t]
      /\ parent'[last + 1] = call[c].tok
  BY <1>d, <1>e, <1>f
<1>3. last <= last' /\ last' \in Nat
  BY <1>b
<1>4. QED
  BY <1>1, <1>2, <1>3, <1>c, <1>e, ExposeKeeps DEF UpstreamRotates

LEMMA UpstreamRefusesKeeps == ASSUME IInv, NEW c \in Calls, UpstreamRefuses(c) PROVE Parts'
<1>1. \A pc : Goto(c, pc) =>
         /\ \A d \in Calls \ {c} : call'[d] = call[d]
         /\ UNCHANGED <<call[c].tok, call[c].at, call[c].expires>>
         /\ call'[c].pc = pc
  BY GotoEffect DEF IInv
<1>2. /\ \A d \in Calls \ {c} : call'[d] = call[d]
      /\ UNCHANGED <<call[c].tok, call[c].at, call[c].expires>>
      /\ call'[c].pc \in {"terminal", "release", "uncertain"}
  BY <1>1 DEF UpstreamRefuses
<1>3. \A t \in Tokens : parent[t] < t
  BY DEF IInv, Fresh
<1>4. last <= last /\ last \in Nat
  BY Numbers DEF IInv
<1>5. QED
  BY <1>2, <1>3, <1>4, ExposeKeeps DEF UpstreamRefuses

\* A passing error: the claim is given back, and what was sent under it is
\* no longer exposed.
LEMMA GivesBackKeeps ==
  ASSUME IInv, NEW c \in Calls, Release(c), Owns(c), call[c].pc = "release"
  PROVE  Parts'
<1> USE DEF IInv
<1>a. /\ op.owner = c /\ op.status = "exchanging" /\ call[c].expires = op.expires
      /\ call[c].tok \in Tokens
      /\ UNCHANGED <<now, chan, last, parent, rotated>> /\ Holds(c)
  BY DEF Owns, Rights, Release, Fresh, Holds
<1>b. /\ op'.status = "pending" /\ op'.stage = "pending" /\ op'.owner = None
      /\ UNCHANGED <<op.expires, op.gen, op.payload>>
  BY DEF Release, TypeOK, Operation
<1>c. /\ \A d \in Calls \ {c} : call'[d] = call[d]
      /\ call'[c].pc = "record"
      /\ call'[c].tok = call[c].tok /\ call'[c].at <= now
  <2>1. Failed(c) /\ call[c].pc = "release" /\ call[c].tok # 0
    BY <1>a DEF Release, Tokens
  <2>2. [NewCall EXCEPT !.pc = "record", !.tok = call[c].tok].pc = "record"
    BY DEF NewCall
  <2>3. call'[c].pc = "record"
    BY <2>1, <2>2 DEF Failed, TypeOK
  <2>4. QED
    BY <2>1, <2>3, EndEffect, Numbers
<1>d. \A t \in Tokens : \/ exposed'[t] = exposed[t]
                        \/ t = call[c].tok /\ exposed[t] = op.expires /\ exposed'[t] = 0
  BY <1>a DEF Release, TypeOK
<1>e. exposed[call[c].tok] = op.expires => exposed'[call[c].tok] = 0
  BY <1>a DEF Release, TypeOK
<1>f. \A d \in Calls : \A t : Sends(d, t)' => d # c /\ Sends(d, t) /\ call'[d] = call[d]
  BY <1>c DEF Sends
<1>g. \A d \in Calls : op'.owner # d
  BY <1>b
<1>1. Fresh'
  BY <1>a, <1>b, <1>c, <1>d DEF Fresh
<1>2. Lineage'
  BY <1>a, <1>b, <1>c, <1>g DEF Lineage, Outdated
<1>3. Rights'
  BY <1>a, <1>b, <1>c, <1>g DEF Rights, Active, Holds
<1>4. Guarded'
  <2>1. \A e \in Nat : Guards(e) /\ (e = op.expires => call[c].tok # chan.token) => Guards(e)'
    BY <1>a, <1>b DEF Guards, Active, Holds
  <2>2. \A d \in Calls : Sends(d, chan.token) /\ d # c => call[d].expires # op.expires
    BY <1>a DEF Guarded, Active
  <2>3. (exposed[chan.token] # 0 => Guards(exposed[chan.token]))'
    BY <1>a, <1>d, <1>e, <2>1, Numbers DEF Guarded
  <2>4. \A d \in Calls : (Sends(d, chan.token) => Guards(call[d].expires))'
    BY <1>a, <1>f, <2>1, <2>2, Numbers DEF Guarded
  <2>6. (rotated > now => Guards(rotated))'
    BY <1>a, <2>1, Numbers DEF Guarded, Marked, TypeOK
  <2>5. QED
    BY <1>a, <1>b, <1>f, <2>2, <2>3, <2>4, <2>6 DEF Guarded
<1>5. Alone'
  <2>1. \A t \in Tokens : exposed'[t] = exposed[t] \/ exposed'[t] <= now
    BY <1>d, Numbers
  <2>2. QED
    BY <1>a, <1>f, <1>g, <2>1 DEF Alone, Fresh, Sends
<1>6. Marked'
  BY <1>g DEF Marked, Holds
<1>7. QED
  BY <1>1, <1>2, <1>3, <1>4, <1>5, <1>6 DEF Parts

LEMMA ReleaseKeeps == ASSUME IInv, NEW c \in Calls, Release(c) PROVE Parts'
<1>1. CASE ~Owns(c)
  BY <1>1, EndsKeep DEF Release
<1>2. CASE Owns(c) /\ call[c].pc = "release"
  BY <1>2, GivesBackKeeps
<1>3. CASE Owns(c) /\ call[c].pc = "terminal"
  <2>1. Inert(c)
    BY <1>3, InertEnd DEF Release
  <2>2. /\ op'.status = "completed" /\ op'.failed /\ op'.owner = None
        /\ op'.stage = "pending" /\ UNCHANGED op.gen
    BY <1>3 DEF Release, IInv, TypeOK, Operation
  <2>3. UNCHANGED exposed
    BY <1>3 DEF Release
  <2>4. QED
    BY <2>1, <2>2, <2>3, ClosesKeep DEF Release
<1>4. QED
  BY <1>1, <1>2, <1>3 DEF Release

LEMMA MarkUncertainKeeps == ASSUME IInv, NEW c \in Calls, MarkUncertain(c) PROVE Parts'
<1>1. CASE UNCHANGED op
  BY <1>1, EndsKeep DEF MarkUncertain, History
<1>2. CASE op' = Fenced
  BY <1>2, FencesKeep DEF MarkUncertain, History
<1>3. QED
  BY <1>1, <1>2 DEF MarkUncertain

LEMMA RecordFailureKeeps == ASSUME IInv, NEW c \in Calls, RecordFailure(c) PROVE Parts'
<1>1. chan'.token = chan.token
  BY DEF RecordFailure, IInv, TypeOK, Channel
<1>2. QED
  BY <1>1, EndsKeep DEF RecordFailure

\* No call reads what is recorded of the key's health.
LEMMA RecordIssueKeeps == ASSUME IInv, RecordIssue PROVE Parts'
<1>1. /\ chan'.token = chan.token
      /\ UNCHANGED <<now, op, call, last, parent, exposed, rotated>>
  BY DEF RecordIssue, IInv, TypeOK, Channel
<1>2. Parts
  BY DEF IInv, Parts
<1>3. QED
  BY <1>1, <1>2 DEF Parts, Fresh, Lineage, Outdated, Rights, Holds, Active, Guarded, Guards,
     Sends, Alone, Marked

\* The answer is in the row before anything is done with it.
LEMMA PersistResultKeeps == ASSUME IInv, NEW c \in Calls, PersistResult(c) PROVE Parts'
<1>1. CASE Goto(c, "uncertain") /\ UNCHANGED op
  BY <1>1, EndsKeep DEF PersistResult, History
<1>2. CASE /\ Owns(c)
           /\ op' = [op EXCEPT !.stage = "exchanged", !.payload = call[c].got,
                               !.lease = call[c].at + LeaseTTL]
           /\ Goto(c, "commit")
  <2> USE DEF IInv
  <2>a. /\ call[c].pc = "persist" /\ op.owner = c
        /\ op.status = "exchanging" /\ op.stage = "started"
        /\ UNCHANGED <<now, chan, last, parent, exposed, rotated>>
    BY <1>2 DEF PersistResult, Owns, Rights, History
  <2>b. /\ \A d \in Calls \ {c} : call'[d] = call[d]
        /\ call'[c].pc = "commit"
        /\ UNCHANGED <<call[c].tok, call[c].at, call[c].expires, call[c].got>>
    BY <1>2, GotoEffect
  <2>c. /\ op'.stage = "exchanged" /\ op'.payload = call[c].got
        /\ UNCHANGED <<op.status, op.owner, op.expires, op.gen, op.failed>>
    BY <1>2 DEF TypeOK, Operation
  <2>d. \A d \in Calls : \A t : Sends(d, t)' => Sends(d, t) /\ call'[d] = call[d]
    BY <2>b DEF Sends
  <2>e. \A e \in Nat : Guards(e) => Guards(e)'
    BY <2>a, <2>b, <2>c DEF Guards, Active, Holds
  <2>1. Fresh'
    BY <2>a, <2>b, <2>c DEF Fresh
  <2>2. Lineage'
    <3>1. call[c].got \in 1..last /\ (parent[call[c].got] = op.gen \/ Outdated)
      BY <2>a DEF Lineage
    <3>2. QED
      BY <2>a, <2>b, <2>c, <3>1 DEF Lineage, Outdated
  <2>3. Rights'
    BY <2>a, <2>b, <2>c DEF Rights, Active, Holds
  <2>4. Guarded'
    BY <2>a, <2>c, <2>d, <2>e, Numbers DEF Guarded, Active, TypeOK
  <2>5. Alone'
    BY <2>a, <2>b, <2>c, <2>d DEF Alone
  <2>6. Marked'
    BY <2>a, <2>b, <2>c DEF Marked, Holds
  <2>7. QED
    BY <2>1, <2>2, <2>3, <2>4, <2>5, <2>6 DEF Parts
<1>3. QED
  BY <1>1, <1>2 DEF PersistResult

\* What a commit puts into the channel was rotated from the key it replaces.
LEMMA CommitsSuccessor ==
  ASSUME IInv, NEW c \in Calls, Commit(c), chan' # chan
  PROVE  /\ chan'.token = call[c].got /\ call[c].got \in 1..last
         /\ parent[call[c].got] = chan.token /\ Owns(c) /\ op.gen = chan.token
         /\ op'.status = "completed" /\ op'.stage = "saved" /\ op'.owner = None
         /\ op'.gen = op.gen
<1>1. /\ Owns(c) /\ SameGeneration /\ call[c].pc = "commit"
      /\ chan' = [token |-> call[c].got, at |-> call[c].at, bad |-> 0]
      /\ op' = [op EXCEPT !.status = "completed", !.stage = "saved", !.owner = None,
                          !.lease = 0, !.payload = 0, !.failed = ~SameGeneration]
  BY DEF Commit
<1>2. op.gen = chan.token /\ ~Outdated
  BY <1>1, Numbers DEF SameGeneration, Outdated, IInv
<1>3. call[c].got \in 1..last /\ parent[call[c].got] = op.gen
  BY <1>1, <1>2 DEF Owns, IInv, Lineage
<1>4. /\ op'.status = "completed" /\ op'.stage = "saved" /\ op'.owner = None
      /\ op'.gen = op.gen
  BY <1>1 DEF IInv, TypeOK, Operation
<1>5. QED
  BY <1>1, <1>2, <1>3, <1>4

LEMMA CommitKeeps == ASSUME IInv, NEW c \in Calls, Commit(c) PROVE Parts'
<1>a. TypeOK'
  BY NextTypes DEF Next, IInv
<1>1. CASE UNCHANGED <<op, chan, rotated>>
  BY <1>1, EndsKeep DEF Commit
<1>2. CASE chan' # chan
  <2>1. /\ chan'.token \in 1..last /\ parent[chan'.token] = chan.token
        /\ op'.status = "completed" /\ op'.stage = "saved" /\ op'.owner = None
        /\ op'.gen = chan.token
    BY <1>2, CommitsSuccessor
  <2>2. chan.token < chan'.token /\ chan'.token <= last
    BY <2>1, Numbers DEF IInv, Fresh, Tokens
  <2>3. \A t \in Tokens : parent[t] < t /\ parent[t] <= chan.token
    BY DEF IInv, Fresh
  <2>4. /\ \A d \in Calls \ {c} : call'[d] = call[d]
        /\ call'[c].pc = "done" /\ call'[c].tok = 0 /\ call'[c].at = 0
    <3>1. Return(c) /\ call \in [Calls -> Call]
      BY DEF IInv, TypeOK, Commit
    <3>2. call'[c] = [NewCall EXCEPT !.pc = "done"] /\ \A d \in Calls \ {c} : call'[d] = call[d]
      BY <3>1 DEF Return
    <3>3. QED
      BY <3>2 DEF NewCall
  <2>5. rotated' = 0
    BY <1>2 DEF Commit
  <2>6. UNCHANGED <<now, last, parent, exposed>> /\ last <= last /\ chan.token <= chan.token
    BY Numbers DEF Commit, IInv
  <2>7. \A d \in Calls : \/ call'[d] = call[d]
                         \/ /\ call'[d].pc = "done" /\ op'.owner # d
                            /\ call'[d].tok = 0 /\ call'[d].at = 0
    BY <2>1, <2>4
  <2>8. QED
    BY <1>a, <2>1, <2>2, <2>3, <2>5, <2>6, <2>7, KeyMovesKeep
<1>3. CASE chan' = chan /\ op' # op
  <2>1. ~SameGeneration /\ op' = [op EXCEPT !.status = "completed", !.stage = "saved",
            !.owner = None, !.lease = 0, !.payload = 0, !.failed = ~SameGeneration]
    <3>1. SameGeneration => FALSE
      <4> SUFFICES ASSUME SameGeneration PROVE FALSE
        OBVIOUS
      <4>1. chan'.token = call[c].got /\ Owns(c) /\ call[c].pc = "commit"
        BY <1>3 DEF Commit
      <4>2. call[c].got \in 1..last /\ parent[call[c].got] = chan.token
        BY <4>1, Numbers DEF SameGeneration, Outdated, Owns, IInv, Lineage
      <4>3. parent[call[c].got] < call[c].got
        BY <4>2, Numbers DEF IInv, Fresh, Tokens
      <4>4. QED
        BY <1>3, <4>1, <4>2, <4>3, Numbers DEF IInv
    <3>2. QED
      BY <1>3, <3>1 DEF Commit
  <2>2. op'.status = "completed" /\ op'.failed /\ op'.owner = None /\ op'.stage = "saved"
        /\ op'.gen = op.gen
    BY <2>1 DEF IInv, TypeOK, Operation
  <2>3. Inert(c)
    BY InertEnd DEF Commit
  <2>4. UNCHANGED rotated
    BY <2>1 DEF Commit
  <2>5. QED
    BY <1>3, <2>2, <2>3, <2>4, ClosesKeep DEF Commit
<1>4. op' = op => UNCHANGED <<chan, rotated>>
  <2>1. ASSUME Owns(c), op' = [op EXCEPT !.status = "completed", !.stage = "saved",
            !.owner = None, !.lease = 0, !.payload = 0, !.failed = ~SameGeneration]
        PROVE  op' # op
    BY <2>1 DEF IInv, TypeOK, Operation, Owns
  <2>2. QED
    BY <2>1 DEF Commit
<1>5. QED
  BY <1>1, <1>2, <1>3, <1>4

LEMMA StopKeeps == ASSUME IInv, NEW c \in Calls, Stop(c) PROVE Parts'
BY EndsKeep DEF Stop, History

\* A credential obtained in another way.
LEMMA IssuedAnew ==
  ASSUME IInv, Issue(0)
  PROVE  /\ last' = last + 1 /\ last <= last' /\ chan.token < last + 1 /\ last + 1 <= last'
         /\ \A t \in 1..last : parent'[t] = parent[t]
         /\ \A t \in Tokens : parent'[t] < t /\ parent'[t] <= chan.token
<1>1. last' = last + 1 /\ last < MaxToken /\ last \in Nat /\ chan.token \in Nat
      /\ chan.token <= last
  BY Numbers DEF IInv, Fresh, Issue
<1>2. parent' = [parent EXCEPT ![last + 1] = 0] /\ parent \in [Tokens -> 0..MaxToken]
  BY DEF Issue, IInv, TypeOK
<1>3. \A t \in 1..last : t \in Tokens /\ t # last + 1
  BY <1>1 DEF Tokens
<1>4. \A t \in Tokens : parent'[t] < t /\ parent'[t] <= chan.token
  <2> TAKE t \in Tokens
  <2>1. parent[t] < t /\ parent[t] <= chan.token /\ 0 < t
    BY DEF IInv, Fresh, Tokens
  <2>2. parent'[t] \in {0, parent[t]}
    BY <1>2
  <2>3. QED
    BY <1>1, <2>1, <2>2
<1>5. QED
  BY <1>1, <1>2, <1>3, <1>4

LEMMA EditKeyKeeps == ASSUME IInv, EditKey PROVE Parts'
<1>1. TypeOK'
  BY NextTypes DEF Next, IInv
<1>2. chan'.token = last + 1
  BY DEF EditKey
<1>3. QED
  BY <1>1, <1>2, IssuedAnew, KeyMovesKeep DEF EditKey

LEMMA RegenerateKeeps == ASSUME IInv, Regenerate PROVE Parts'
<1>1. TypeOK'
  BY NextTypes DEF Next, IInv
<1>2. /\ chan'.token = last + 1
      /\ op'.owner = None /\ op'.gen = 0 /\ op'.stage = "pending" /\ op'.status = "none"
      /\ call' = call /\ UNCHANGED <<now, exposed>> /\ rotated' = 0
  BY DEF Regenerate, NoOperation
<1>3. 0 <= chan.token
  BY Numbers DEF IInv
<1>4. QED
  BY <1>1, <1>2, <1>3, IssuedAnew, KeyMovesKeep DEF Regenerate

\* Time only ends exposures and claims.
LEMMA TickKeeps == ASSUME IInv, Tick PROVE Parts'
<1> USE DEF IInv
<1>a. now' = now + 1 /\ UNCHANGED <<chan, op, call, last, parent, exposed, rotated>>
  BY DEF Tick, History
<1>b. \A n \in Nat : n <= now => n <= now'
  BY <1>a, Numbers
<1>c. \A e \in Nat : Guards(e) => Guards(e)'
  BY <1>a, <1>b DEF Guards, Active, Holds
<1>d. \A d \in Calls : \A t : Sends(d, t)' <=> Sends(d, t)
  BY <1>a DEF Sends
<1>1. Fresh'
  BY <1>a, <1>b, Numbers DEF Fresh
<1>2. Lineage' /\ Rights'
  BY <1>a DEF Lineage, Outdated, Rights, Active, Holds
<1>3. Guarded'
  BY <1>a, <1>c, <1>d, Numbers DEF Guarded, Active, TypeOK
<1>4. Alone'
  BY <1>a, <1>b, <1>d, Numbers DEF Alone, Fresh, Sends
<1>5. Marked'
  BY <1>a, Numbers DEF Marked, Holds, TypeOK
<1>6. QED
  BY <1>1, <1>2, <1>3, <1>4, <1>5 DEF Parts

LEMMA StutterKeeps == ASSUME IInv, UNCHANGED vars PROVE Parts'
<1>1. /\ UNCHANGED <<now, chan, op, call, last, parent, exposed, rotated>>
  BY DEF vars
<1>2. Parts
  BY DEF IInv, Parts
<1>3. QED
  BY <1>1, <1>2 DEF Parts, Fresh, Lineage, Outdated, Rights, Holds, Active, Guarded, Guards,
     Sends, Alone, Marked

LEMMA NextKeepsIInv == IInv /\ [Next]_vars => IInv'
<1> SUFFICES ASSUME IInv, [Next]_vars PROVE IInv'
  OBVIOUS
<1>1. TypeOK'
  BY NextTypes DEF IInv
<1>2. ASSUME NEW c \in Calls, \/ Observe(c) \/ Claim(c) \/ MarkStarted(c) \/ UpstreamRotates(c)
                              \/ UpstreamRefuses(c)
      PROVE Parts'
  BY <1>2, ObserveKeeps, ClaimKeeps, MarkStartedKeeps, UpstreamRotatesKeeps,
     UpstreamRefusesKeeps
<1>3. ASSUME NEW c \in Calls, \/ Release(c) \/ MarkUncertain(c) \/ RecordFailure(c)
                              \/ PersistResult(c) \/ Commit(c) \/ Stop(c)
      PROVE Parts'
  BY <1>3, ReleaseKeeps, MarkUncertainKeeps, RecordFailureKeeps, PersistResultKeeps,
     CommitKeeps, StopKeeps
<1>4. ASSUME EditKey \/ Regenerate \/ RecordIssue \/ Tick \/ UNCHANGED vars PROVE Parts'
  BY <1>4, EditKeyKeeps, RegenerateKeeps, RecordIssueKeeps, TickKeeps, StutterKeeps
<1>5. Parts'
  BY <1>2, <1>3, <1>4 DEF Next
<1>6. QED
  BY <1>1, <1>5 DEF IInv, Parts

LEMMA IInvHolds == Spec => []IInv
<1>1. Init => IInv
  BY InitIInv
<1>2. QED
  BY <1>1, NextKeepsIInv, PTL DEF Spec

-----------------------------------------------------------------------------
(* The theorems.                                                           *)

\* Both rows and the locals of every call have the columns' types; a call
\* never commits where it has nothing to commit.
THEOREM TypeCorrect == Spec => []TypeOK
<1>1. IInv => TypeOK
  BY DEF IInv
<1>2. QED
  BY <1>1, IInvHolds, PTL

\* Takeovers, stalled calls, lost answers, edits and regenerations included,
\* no two calls expose the same token while the first one's operation and
\* the second one's own operation live.
THEOREM TokenSentOnce == Spec => []SentOnce
<1>1. IInv => SentOnce
  BY DEF IInv, Alone, Sends, SentOnce
<1>2. QED
  BY <1>1, IInvHolds, PTL

\* A rotation upstream has performed is on its way into the row, saved in
\* it, or fences the channel off, until the operation has expired.
THEOREM RotationNeverSilent == Spec => []RotationFenced
<1>1. IInv => RotationFenced
  BY Numbers DEF IInv, Guarded, Guards, RotationFenced, TypeOK
<1>2. QED
  BY <1>1, IInvHolds, PTL

\* A refresh, however late, only ever replaces the key its token came from.
THEOREM OnlySuccessors == Spec => SuccessorOnly
<1>1. ASSUME IInv, [Next]_vars
      PROVE  [chan'.token # chan.token =>
                 \/ chan'.token = last' /\ last' # last
                 \/ parent[chan'.token] = chan.token]_vars
  <2> DEFINE Goal == chan'.token # chan.token =>
                        \/ chan'.token = last' /\ last' # last
                        \/ parent[chan'.token] = chan.token
  <2>1. ASSUME NEW c \in Calls, \/ Observe(c) \/ Claim(c) \/ MarkStarted(c)
                                \/ UpstreamRotates(c) \/ UpstreamRefuses(c) \/ Release(c)
                                \/ MarkUncertain(c) \/ PersistResult(c) \/ Stop(c)
        PROVE Goal
    <3>1. UNCHANGED chan
      BY <2>1 DEF Observe, Claim, ClaimCurrent, ClaimRefused, ClaimNew, ClaimInProgress,
         ClaimUncertain, ClaimTakeover, Claiming, MarkStarted, UpstreamRotates,
         UpstreamRefuses, Release, MarkUncertain, PersistResult, Stop
    <3>2. QED
      BY <3>1
  <2>2. ASSUME NEW c \in Calls, RecordFailure(c) PROVE Goal
    BY <1>1, <2>2 DEF RecordFailure, IInv, TypeOK, Channel
  <2>3. ASSUME NEW c \in Calls, Commit(c) PROVE Goal
    BY <1>1, <2>3, CommitsSuccessor
  <2>4. ASSUME EditKey \/ Regenerate PROVE Goal
    <3>1. chan'.token = last + 1 /\ last' = last + 1 /\ last \in Nat
      BY <1>1, <2>4, Numbers DEF EditKey, Regenerate, Issue, IInv
    <3>2. QED
      BY <3>1
  <2>5. ASSUME Tick \/ RecordIssue \/ UNCHANGED vars PROVE Goal
    BY <1>1, <2>5 DEF Tick, vars, RecordIssue, IInv, TypeOK, Channel
  <2> HIDE DEF Goal
  <2>6. Goal
    BY <1>1, <2>1, <2>2, <2>3, <2>4, <2>5 DEF Next
  <2>7. QED
    BY <2>6 DEF Goal
<1>2. QED
  BY <1>1, IInvHolds, PTL DEF Spec, SuccessorOnly

\* What a refresh records is a failure of the credential the channel has then, and
\* goes with it: only a writer that does not look at the key leaves another's.
THEOREM FailuresMarkOwn == Spec => []FailureMarksOwn
<1>1. Init => FailureMarksOwn
  BY DEF Init, FailureMarksOwn
<1>2. ASSUME IInv, FailureMarksOwn, [Next]_vars PROVE FailureMarksOwn'
  <2>1. ASSUME NEW c \in Calls, \/ Observe(c) \/ Claim(c) \/ MarkStarted(c)
                                \/ UpstreamRotates(c) \/ UpstreamRefuses(c) \/ Release(c)
                                \/ MarkUncertain(c) \/ PersistResult(c) \/ Stop(c)
        PROVE FailureMarksOwn'
    <3>1. UNCHANGED <<chan, stray>>
      BY <2>1 DEF Observe, Claim, ClaimCurrent, ClaimRefused, ClaimNew, ClaimInProgress,
         ClaimUncertain, ClaimTakeover, Claiming, MarkStarted, UpstreamRotates,
         UpstreamRefuses, Release, MarkUncertain, PersistResult, Stop, History
    <3>2. QED
      BY <1>2, <3>1 DEF FailureMarksOwn
  <2>2. ASSUME NEW c \in Calls, RecordFailure(c) PROVE FailureMarksOwn'
    BY <1>2, <2>2 DEF RecordFailure, FailureMarksOwn, IInv, TypeOK, Channel
  <2>3. ASSUME NEW c \in Calls, Commit(c) PROVE FailureMarksOwn'
    BY <1>2, <2>3 DEF Commit, FailureMarksOwn
  <2>4. ASSUME EditKey \/ Regenerate \/ RecordIssue PROVE FailureMarksOwn'
    <3>1. CASE EditKey
      BY <3>1 DEF EditKey, FailureMarksOwn
    <3>2. CASE Regenerate
      BY <3>2 DEF Regenerate, FailureMarksOwn
    <3>3. CASE RecordIssue
      <4>1. UNCHANGED chan.token
        BY <1>2, <3>3 DEF RecordIssue, IInv, TypeOK, Channel
      <4>2. QED
        BY <3>3, <4>1 DEF RecordIssue, FailureMarksOwn
    <3>4. QED
      BY <2>4, <3>1, <3>2, <3>3
  <2>5. ASSUME Tick \/ UNCHANGED vars PROVE FailureMarksOwn'
    BY <1>2, <2>5 DEF Tick, vars, History, FailureMarksOwn
  <2>6. QED
    BY <1>2, <2>1, <2>2, <2>3, <2>4, <2>5 DEF Next
<1>3. QED
  BY <1>1, <1>2, IInvHolds, PTL DEF Spec
=============================================================================
