------------------------- MODULE SubscriptionProofs -------------------------
(***************************************************************************)
(* Proofs about Subscription, for any plans, purchases and requests, any   *)
(* number of masters that run the maintenance at once, any batch, and any  *)
(* number of failures.                                                     *)
(*                                                                         *)
(* The invariant joins the types, the credits, that the rows not created   *)
(* yet are blank (Blank), that a list of maintenance is never of the       *)
(* future (OnTime), that a row knows its plan (Planned), and GroupFollows. *)
(* What a transaction has read (Held) may be old but was once in the       *)
(* table: its rows were created, within their total, and Saved shows that  *)
(* writing them back, however late, keeps the rest.                        *)
(* That some expired subscription decides about the group (LastExists)     *)
(* needs the last of a finite set; the strict inclusion of the sets of     *)
(* those that come after, which is well founded, stands in for induction.  *)
(* NeverOvercharged is the second invariant, with what a request owes at   *)
(* each of its stages (Charges): the units owed are counted, and a step of *)
(* one request changes the count by that request's units alone.            *)
(***************************************************************************)
EXTENDS Subscription, FiniteSetTheorems, WellFoundedInduction, TLAPS

Blank == \A i \in Ids : i > made => sub[i] = Unborn

OnTime == \A m \in Masters : maint[m].at <= now

Planned == \A i \in Ids : Exists(i) => sub[i].plan \in Plans

\* A purchase with a top-up record or a grant has an order.
Recorded == \A o \in Ids : order[o] = "none" => o \notin paid

\* The rows that a transaction has read.
Held == \A w \in Writers :
           /\ copy[w].at <= now
           /\ \A i \in Ids :
                 /\ Total > 0 => copy[w].rows[i].used <= Total
                 /\ IsRow(copy[w].rows[i]) => i <= made /\ copy[w].rows[i].plan \in Plans

\* The row that a master is about to reset.
Looked == \A m \in Masters :
             /\ maint[m].pc \in {"read", "write"} => maint[m].item \in Ids
             /\ maint[m].pc = "write" => /\ IsRow(copy[m].rows[maint[m].item])
                                         /\ copy[m].rows[maint[m].item].next > 0

\* A request that has paid knows from which subscription.
Aimed == \A q \in Requests : req[q].pc \in {"held", "refund", "mark"} => req[q].sub \in Ids

Parts == Blank /\ OnTime /\ Planned /\ Recorded /\ Held /\ Looked /\ Aimed

IInv == TypeOK /\ CreditedOnce /\ Parts /\ GroupFollows

-----------------------------------------------------------------------------
(* Arithmetic and the reset of a row.                                      *)

LEMMA Quotient ==
    ASSUME NEW a \in Int, NEW d \in Nat \ {0}
    PROVE  a \div d \in Int /\ (a \div d) * d <= a
OBVIOUS

LEMMA Product ==
    ASSUME NEW k \in Int, k > 0, NEW d \in Nat \ {0}
    PROVE  k * d \in Int /\ k * d >= d
OBVIOUS

LEMMA NextResetType ==
    ASSUME NEW resets, NEW base \in Nat, NEW end \in Nat
    PROVE  NextReset(resets, base, end) \in Nat
BY PlansAssumption DEF NextReset

\* A reset leaves the identity of a row alone, and when it lowers the usage at
\* least a period has passed since the last.  A row that was due is changed only to
\* start at zero.
LEMMA ResetFacts ==
    ASSUME NEW s \in Sub, NEW t \in Nat, NEW plans
    PROVE  /\ MaybeReset(s, t, plans) \in Sub
           /\ MaybeReset(s, t, plans).status = s.status /\ MaybeReset(s, t, plans).plan = s.plan
           /\ MaybeReset(s, t, plans).end = s.end
           /\ MaybeReset(s, t, plans).used <= s.used
           /\ MaybeReset(s, t, plans).used < s.used =>
                 MaybeReset(s, t, plans).last >= s.last + Period /\ MaybeReset(s, t, plans).last <= t
           /\ s.next > 0 /\ MaybeReset(s, t, plans) # s => MaybeReset(s, t, plans).used = 0
<1> DEFINE base == IF s.last > 0 THEN s.last ELSE s.start
           a == IF t < s.end THEN t - base ELSE s.end - base
           k == a \div Period
           next == NextReset(s.plan \in plans, base, s.end)
           reached == base + k * Period
<1>0. /\ s.used \in Nat /\ s.start \in Nat /\ s.end \in Nat /\ s.last \in Nat /\ s.next \in Nat
      /\ Period \in Nat \ {0}
  BY PlansAssumption DEF Sub
<1>1. base \in Nat /\ base >= s.last /\ a \in Int /\ a <= t - base
  BY <1>0
<1>2. k \in Int /\ k * Period <= a
  BY <1>0, <1>1, Quotient
<1>3. next \in Nat
  BY <1>0, <1>1, NextResetType
<1>4. MaybeReset(s, t, plans) =
        IF s.next > t \/ s.plan \notin plans THEN s
        ELSE IF k > 0 THEN [s EXCEPT !.used = 0, !.last = reached,
                                     !.next = NextReset(TRUE, reached, s.end)]
        ELSE IF s.next = 0 /\ next > 0 THEN [s EXCEPT !.last = base, !.next = next]
        ELSE s
  BY DEF MaybeReset
<1> HIDE DEF base, next
<1>5. CASE k > 0
  <2>1. k * Period \in Int /\ k * Period >= Period
    BY <1>0, <1>2, <1>5, Product
  <2> HIDE DEF k
  <2>2. reached \in Nat /\ reached >= s.last + Period /\ reached <= t
    BY <2>1, <1>0, <1>1, <1>2
  <2> HIDE DEF reached
  <2> DEFINE n == NextReset(TRUE, reached, s.end)
             r == [s EXCEPT !.used = 0, !.last = reached, !.next = n]
  <2>3. n \in Nat
    BY <2>2, <1>0, NextResetType
  <2>4. MaybeReset(s, t, plans) = s \/ MaybeReset(s, t, plans) = r
    BY <1>4, <1>5
  <2> HIDE DEF n
  <2>5. /\ r \in Sub /\ r.status = s.status /\ r.plan = s.plan /\ r.end = s.end
        /\ r.used = 0 /\ r.last = reached
    BY <2>2, <2>3, <1>0 DEF Sub
  <2> HIDE DEF r
  <2> QED BY <2>2, <2>4, <2>5, <1>0
<1>6. CASE ~(k > 0)
  <2> DEFINE r == [s EXCEPT !.last = base, !.next = next]
  <2>1. MaybeReset(s, t, plans) = s \/ (s.next = 0 /\ MaybeReset(s, t, plans) = r)
    BY <1>4, <1>6
  <2>2. /\ r \in Sub /\ r.status = s.status /\ r.plan = s.plan /\ r.end = s.end
        /\ r.used = s.used
    BY <1>1, <1>3, <1>0 DEF Sub
  <2> HIDE DEF r
  <2> QED BY <2>1, <2>2, <1>0
<1> QED BY <1>5, <1>6

-----------------------------------------------------------------------------
(* The last of a finite set of subscriptions.                              *)

LEMMA LastOfSet ==
    ASSUME TypeOK, NEW N \in SUBSET Ids, N # {}
    PROVE  \E i \in N : \A j \in N \ {i} : Before(sub, j, i)
<1> DEFINE After(i) == {j \in N : Before(sub, i, j)}
           R == StrictSubsetOrdering(N)
           F == {After(i) : i \in N}
<1>1. IsFiniteSet(N) /\ N \subseteq Int
  <2>1. Ids \subseteq Int /\ IsFiniteSet(Ids)
    BY PlansAssumption, FS_Interval DEF Ids
  <2> QED BY <2>1, FS_Subset
<1>2. IsWellFoundedOn(R, SUBSET N)
  BY <1>1, FS_StrictSubsetOrderingWellFounded, FS_FiniteSubsetsOfFinite
<1>3. F \subseteq SUBSET N /\ F # {}
  OBVIOUS
<1>4. PICK x \in F : \A y \in F : <<y, x>> \notin R
  <2> HIDE DEF F, R
  <2> QED BY <1>2, <1>3, WFMin
<1>5. PICK i \in N : x = After(i)
  BY <1>4
<1>6. \A j \in N : sub[j].end \in Int /\ j \in Int
  BY <1>1 DEF TypeOK, Sub
<1>7. ASSUME NEW j \in N, Before(sub, i, j) PROVE FALSE
  <2>1. After(j) \subseteq After(i)
    BY <1>6, <1>7 DEF Before
  <2>2. j \in After(i) /\ j \notin After(j)
    BY <1>6, <1>7 DEF Before
  <2>3. <<After(j), After(i)>> \in R
    BY <2>1, <2>2 DEF StrictSubsetOrdering
  <2> QED BY <2>3, <1>4, <1>5
<1>8. \A j \in N \ {i} : Before(sub, j, i)
  BY <1>6, <1>7 DEF Before
<1> QED BY <1>8

LEMMA LastExists ==
    ASSUME TypeOK, NEW ended, NEW x \in Ids, x \in ended, Up(x) # None
    PROVE  \E i \in Ids : LastExpired(i, ended)
<1> DEFINE N == {j \in Ids : (sub[j].status = "expired" \/ j \in ended)
                             /\ (Up(j) # None \/ Down(j) # None)}
<1>1. N \in SUBSET Ids /\ N # {}
  OBVIOUS
<1>2. PICK i \in N : \A j \in N \ {i} : Before(sub, j, i)
  <2> HIDE DEF N
  <2> QED BY <1>1, LastOfSet
<1> QED BY <1>2 DEF LastExpired

-----------------------------------------------------------------------------
(* The groups.                                                             *)

\* Where plans are explicit, the group that follows is not an upgrade.
LEMMA FollowedType ==
    ASSUME TypeOK, NEW i \in Ids, sub[i].plan \in Plans
    PROVE  /\ Followed(i) \in Groups
           /\ Explicit /\ (Up(i) # None \/ Down(i) # None) => Followed(i) \notin Upgrades
           /\ Up(i) = None /\ Down(i) = None => Followed(i) = group
<1>1. group \in Groups /\ sub[i].prev \in Groups \cup {None} /\ None \notin Groups
  BY PlansAssumption DEF TypeOK, Sub, Groups, Upgrades, Downgrades
<1>2. Down(i) # None => Down(i) \in Downgrades
  BY DEF Down, Downgrades
<1>3. Explicit => (Up(i) # None => Down(i) # None) /\ Upgrades \cap Downgrades = {}
  BY DEF Explicit, Up, Down
<1> QED BY <1>1, <1>2, <1>3 DEF Followed, Groups

-----------------------------------------------------------------------------
(* Steps that leave the subscriptions and the group alone.                 *)

LEMMA UpsetType ==
    ASSUME IInv, UNCHANGED upsets \/ Upset
    PROVE  upsets' \in 0..MaxUpsets
BY PlansAssumption DEF IInv, TypeOK, Upset

LEMMA Quietly ==
    ASSUME IInv, TypeOK', UNCHANGED <<made, sub, group, paid, overtaken, swallowed>>, now' >= now,
           \A o \in Ids : /\ order'[o] = "success" => order[o] = "success"
                          /\ order'[o] = "none" => order[o] = "none",
           OnTime', Held', Looked', Aimed'
    PROVE  IInv'
<1>1. CreditedOnce'
  BY DEF IInv, CreditedOnce
<1>2. Parts'
  BY DEF IInv, Parts, Blank, Planned, Recorded, Exists, IsRow, Unborn
<1>3. GroupFollows'
  <2>1. \A i \in Ids : sub[i].end \in Nat
    BY DEF IInv, TypeOK, Sub
  <2>2. now \in Nat /\ now' \in Nat
    BY PlansAssumption DEF IInv, TypeOK
  <2> QED BY <2>1, <2>2 DEF IInv, GroupFollows, Carries, Active, Up, Elevated
<1> QED BY <1>1, <1>2, <1>3 DEF IInv

\* No transaction reads or ends.
LEMMA Unread ==
    ASSUME IInv, UNCHANGED copy, made' \in Nat, made' >= made, now' \in Nat, now' >= now
    PROVE  Held'
<1>1. /\ now \in Nat /\ made \in Nat
      /\ \A w \in Writers : copy[w].at \in Nat /\ copy'[w] = copy[w]
  BY PlansAssumption DEF IInv, TypeOK, Copy
<1>2. Held /\ \A i \in Ids : i \in Int
  BY PlansAssumption DEF IInv, Parts, Ids
<1> QED BY <1>1, <1>2 DEF Held, IsRow

\* The transaction of w reads or ends, and c is its copy now.
LEMMA CopySet ==
    ASSUME IInv, NEW w \in Writers, NEW c \in Copy, copy' = [copy EXCEPT ![w] = c],
           UNCHANGED <<now, made>>, c.at <= now,
           \A i \in Ids : /\ Total > 0 => c.rows[i].used <= Total
                          /\ IsRow(c.rows[i]) => i <= made /\ c.rows[i].plan \in Plans
    PROVE  /\ copy' \in [Writers -> Copy] /\ Held' /\ copy'[w] = c
           /\ \A v \in Writers \ {w} : copy'[v] = copy[v]
<1>1. copy \in [Writers -> Copy] /\ Held
  BY DEF IInv, Parts, TypeOK
<1>2. /\ copy' \in [Writers -> Copy] /\ copy'[w] = c
      /\ \A v \in Writers \ {w} : copy'[v] = copy[v]
  BY <1>1
<1>3. Held'
  BY <1>1, <1>2 DEF Held, IsRow
<1> QED BY <1>2, <1>3

LEMMA ClosedType ==
    /\ Closed \in Copy /\ Closed.at = 0
    /\ \A i \in Ids : Closed.rows[i].used = 0 /\ ~IsRow(Closed.rows[i])
<1>1. Unborn \in Sub /\ Unborn.used = 0 /\ ~IsRow(Unborn)
  BY DEF Unborn, Sub, SubStatus, IsRow
<1> QED BY <1>1 DEF Closed, Copy

LEMMA CopyClosed ==
    ASSUME IInv, NEW w \in Writers, Closes(w), UNCHANGED <<now, made>>
    PROVE  /\ copy' \in [Writers -> Copy] /\ Held' /\ ~Open(w)'
           /\ \A v \in Writers \ {w} : copy'[v] = copy[v]
<1>1. now \in Nat /\ Total \in Nat
  BY PlansAssumption DEF IInv, TypeOK
<1>2. /\ Closed \in Copy /\ Closed.at <= now /\ copy' = [copy EXCEPT ![w] = Closed]
      /\ \A i \in Ids : /\ Total > 0 => Closed.rows[i].used <= Total
                        /\ ~IsRow(Closed.rows[i])
  BY <1>1, ClosedType DEF Closes
<1>3. /\ copy' \in [Writers -> Copy] /\ Held' /\ copy'[w] = Closed
      /\ \A v \in Writers \ {w} : copy'[v] = copy[v]
  BY <1>2, CopySet
<1> QED BY <1>3, ClosedType DEF Open

LEMMA CopyRead ==
    ASSUME IInv, NEW w \in Writers, NEW S \in SUBSET Ids, NEW t \in Nat, t <= now,
           NEW plans \in SUBSET Plans, Reads(w, S, t, plans), UNCHANGED <<now, made>>
    PROVE  /\ copy' \in [Writers -> Copy] /\ Held'
           /\ copy'[w].rows = [i \in Ids |-> IF i \in S THEN sub[i] ELSE Unborn]
           /\ \A v \in Writers \ {w} : copy'[v] = copy[v]
<1> DEFINE f == [i \in Ids |-> IF i \in S THEN sub[i] ELSE Unborn]
           c == [at |-> t, plans |-> plans, rows |-> f]
<1>1. /\ sub \in [Ids -> Sub] /\ made \in Nat /\ Total \in Nat /\ Ids \subseteq Int
      /\ \A i \in Ids : Total > 0 => sub[i].used <= Total
  BY PlansAssumption DEF IInv, TypeOK, Ids
<1>2. Unborn \in Sub /\ Unborn.used = 0 /\ ~IsRow(Unborn)
  BY DEF Unborn, Sub, SubStatus, IsRow
<1>3. \A i \in Ids : /\ Total > 0 => f[i].used <= Total
                     /\ IsRow(f[i]) => i <= made /\ f[i].plan \in Plans
  <2> TAKE i \in Ids
  <2>1. CASE i \in S
    <3>1. f[i] = sub[i]
      BY <2>1
    <3>2. IsRow(sub[i]) => i <= made /\ sub[i].plan \in Plans
      BY <1>1, <1>2 DEF IInv, Parts, Blank, Planned, Exists
    <3> HIDE DEF f
    <3> QED BY <1>1, <3>1, <3>2
  <2>2. CASE i \notin S
    <3>1. f[i] = Unborn
      BY <2>2
    <3> HIDE DEF f
    <3> QED BY <1>1, <1>2, <3>1
  <2> QED BY <2>1, <2>2
<1>4. f \in [Ids -> Sub]
  BY <1>1, <1>2
<1> HIDE DEF f
<1>5. c \in Copy /\ c.at = t /\ c.rows = f
  BY <1>4 DEF Copy
<1>6. copy' = [copy EXCEPT ![w] = c]
  BY DEF Reads, f
<1> HIDE DEF c
<1>7. /\ copy' \in [Writers -> Copy] /\ Held' /\ copy'[w] = c
      /\ \A v \in Writers \ {w} : copy'[v] = copy[v]
  BY <1>3, <1>5, <1>6, CopySet
<1> QED BY <1>5, <1>7 DEF f

\* Only the writer w does something.
LEMMA LookedStill ==
    ASSUME IInv, NEW w \in Writers, \A v \in Writers \ {w} : copy'[v] = copy[v],
           \A m \in Masters \ {w} : maint'[m] = maint[m],
           w \in Masters => /\ maint'[w].pc \in {"read", "write"} => maint'[w].item \in Ids
                            /\ maint'[w].pc = "write" =>
                                  /\ IsRow(copy'[w].rows[maint'[w].item])
                                  /\ copy'[w].rows[maint'[w].item].next > 0
    PROVE  Looked'
BY DEF IInv, Parts, Looked, Writers, IsRow

LEMMA AimedStill ==
    ASSUME IInv, NEW q \in Requests, \A p \in Requests \ {q} : req'[p] = req[p],
           req'[q].pc \in {"held", "refund", "mark"} => req'[q].sub \in Ids
    PROVE  Aimed'
BY DEF IInv, Parts, Aimed

LEMMA OrderQuiet ==
    ASSUME IInv, callback' \in [Ids -> SUBSET Nodes],
           order' \in [Ids -> {"none", "pending", "success", "expired"}],
           \A o \in Ids : /\ order'[o] = "success" => order[o] = "success"
                          /\ order'[o] = "none" => order[o] = "none",
           UNCHANGED <<now, paid, rows, users, periodic, req, maint, copy>>,
           UNCHANGED upsets \/ Upset
    PROVE  IInv'
<1>1. UNCHANGED <<now, paid, made, sub, overtaken, group, swallowed, periodic, req, maint, copy>>
  BY DEF rows, users
<1>2. TypeOK'
  BY <1>1, UpsetType DEF IInv, TypeOK
<1>3. now' \in Nat /\ now' >= now /\ made' \in Nat /\ made' >= made
  BY <1>1, PlansAssumption DEF IInv, TypeOK
<1>4. Held' /\ OnTime' /\ Looked' /\ Aimed'
  BY <1>1, <1>3, Unread DEF IInv, Parts, OnTime, Looked, Aimed, IsRow
<1> QED BY <1>1, <1>2, <1>3, <1>4, Quietly

LEMMA OrderSteps ==
    ASSUME IInv, NEW o \in Ids,
           \/ PlaceOrder(o)
           \/ \E n \in Nodes :
                 \/ ReadOrder(n, o)
                 \/ ExpireSubscriptionOrder(n, o)
                 \/ /\ Answers(n, o)
                    /\ UNCHANGED <<now, order, paid, rows, users, periodic, req, maint, copy, upsets>>
    PROVE  IInv'
<1>1. /\ order \in [Ids -> {"none", "pending", "success", "expired"}]
      /\ callback \in [Ids -> SUBSET Nodes]
  BY DEF IInv, TypeOK
<1>2. CASE PlaceOrder(o)
  BY <1>1, <1>2, OrderQuiet DEF PlaceOrder
<1>3. ASSUME NEW n \in Nodes, ReadOrder(n, o) PROVE IInv'
  <2>1. UNCHANGED upsets \/ Upset
    BY <1>3 DEF ReadOrder
  <2>2. callback' \in [Ids -> SUBSET Nodes]
    BY <1>1, <1>3 DEF ReadOrder
  <2> QED BY <1>1, <1>3, <2>1, <2>2, OrderQuiet DEF ReadOrder
<1>4. \A n \in Nodes : callback' = [callback EXCEPT ![o] = @ \ {n}] => callback' \in [Ids -> SUBSET Nodes]
  BY <1>1
<1>5. ASSUME NEW n \in Nodes, ExpireSubscriptionOrder(n, o) PROVE IInv'
  <2>1. order' = [order EXCEPT ![o] = "expired"]
    BY <1>5 DEF ExpireSubscriptionOrder
  <2> QED BY <1>1, <1>4, <1>5, <2>1, OrderQuiet DEF ExpireSubscriptionOrder, Answers
<1>6. ASSUME NEW n \in Nodes, Answers(n, o),
             UNCHANGED <<now, order, paid, rows, users, periodic, req, maint, copy, upsets>>
      PROVE  IInv'
  BY <1>1, <1>4, <1>6, OrderQuiet DEF Answers
<1> QED BY <1>2, <1>3, <1>5, <1>6

LEMMA DoneType ==
    ASSUME TypeOK, NEW q \in Requests, NEW n \in Nat
    PROVE  Done(q, n) \in Req
<1>1. req[q] \in Req
  BY DEF TypeOK
<1> QED BY <1>1 DEF Done, Req

LEMMA AgainType ==
    ASSUME TypeOK, NEW q \in Requests
    PROVE  /\ Again(q) \in Req /\ Again(q).sub = req[q].sub
<1>1. req[q] \in Req /\ req[q].owes \in Nat /\ req[q].tries \in 0..2
  BY DEF TypeOK, Req
<1>2. CASE req[q].tries = 2
  <2>1. Again(q) = Done(q, req[q].owes)
    BY <1>2 DEF Again
  <2>2. Done(q, req[q].owes).sub = req[q].sub
    BY DEF Done
  <2> QED BY <1>1, <2>1, <2>2, DoneType
<1>3. CASE req[q].tries # 2
  <2>1. req[q].tries + 1 \in 0..2
    BY <1>1, <1>3
  <2>2. Again(q) = [req[q] EXCEPT !.pc = "refund", !.tries = @ + 1]
    BY <1>3 DEF Again
  <2> QED BY <1>1, <2>1, <2>2 DEF Req
<1> QED BY <1>2, <1>3

\* Request q does something that writes no row.
LEMMA RequestQuiet ==
    ASSUME IInv, NEW q \in Requests, UNCHANGED <<now, orders, rows, users, periodic, maint>>,
           NEW r \in Req, req' = [req EXCEPT ![q] = r],
           r.pc \in {"held", "refund", "mark"} => r.sub \in Ids,
           UNCHANGED upsets \/ Upset,
           copy' \in [Writers -> Copy], Held', \A v \in Writers \ {q} : copy'[v] = copy[v]
    PROVE  IInv'
<1>1. UNCHANGED <<now, order, callback, paid, made, sub, overtaken, group, swallowed, periodic, maint>>
  BY DEF orders, rows, users
<1>2. /\ req' \in [Requests -> Req] /\ req'[q] = r
      /\ \A p \in Requests \ {q} : req'[p] = req[p]
  BY DEF IInv, TypeOK
<1>3. TypeOK'
  BY <1>1, <1>2, UpsetType DEF IInv, TypeOK
<1>4. now' >= now /\ OnTime'
  BY <1>1, PlansAssumption DEF IInv, TypeOK, Parts, OnTime
<1>5. q \in Writers /\ q \notin Masters
  BY RequestsAssumption DEF Writers
<1>6. Looked' /\ Aimed'
  BY <1>1, <1>2, <1>5, LookedStill, AimedStill
<1> QED BY <1>1, <1>3, <1>4, <1>6, Quietly

\* ... and neither reads any.
LEMMA RequestStands ==
    ASSUME IInv, NEW q \in Requests, UNCHANGED <<now, orders, rows, users, periodic, maint, copy>>,
           NEW r \in Req, req' = [req EXCEPT ![q] = r],
           r.pc \in {"held", "refund", "mark"} => r.sub \in Ids,
           UNCHANGED upsets \/ Upset
    PROVE  IInv'
<1>1. UNCHANGED <<now, made, copy>>
  BY DEF rows
<1>2. copy' \in [Writers -> Copy] /\ now' \in Nat /\ made' \in Nat /\ made' >= made /\ now' >= now
  BY <1>1, PlansAssumption DEF IInv, TypeOK
<1>3. Held'
  BY <1>1, <1>2, Unread
<1> QED BY <1>1, <1>2, <1>3, RequestQuiet

LEMMA RequestReads ==
    ASSUME IInv, NEW q \in Requests, Read(q)
    PROVE  IInv'
<1> DEFINE S == IF req[q].pc = "new" THEN Candidates ELSE {req[q].sub} \cap Ids
<1>1. /\ req \in [Requests -> Req] /\ now \in Nat /\ periodic \in SUBSET Plans
      /\ S \in SUBSET Ids /\ q \in Writers
  BY DEF IInv, TypeOK, Candidates, Writers
<1>2. /\ Reads(q, S, now, periodic) /\ UNCHANGED <<now, orders, rows, users, periodic, req, maint, upsets>>
  BY DEF Read
<1> HIDE DEF S
<1>3. /\ copy' \in [Writers -> Copy] /\ Held'
      /\ \A v \in Writers \ {q} : copy'[v] = copy[v]
  <2>1. now <= now /\ UNCHANGED <<now, made>> /\ Reads(q, S, now, periodic)
    BY <1>1, <1>2 DEF rows
  <2> QED BY <1>1, <2>1, CopyRead
<1>4. /\ req' = [req EXCEPT ![q] = req[q]] /\ req[q] \in Req
      /\ req[q].pc \in {"held", "refund", "mark"} => req[q].sub \in Ids
  BY <1>1, <1>2 DEF IInv, Parts, Aimed
<1> QED BY <1>2, <1>3, <1>4, RequestQuiet

LEMMA RequestEnds ==
    ASSUME IInv, NEW q \in Requests, Abort(q) \/ RefundMark(q)
    PROVE  IInv'
<1>1. /\ req[q] \in Req /\ req[q].owes \in Nat /\ TypeOK
      /\ req[q].pc \in {"held", "refund", "mark"} => req[q].sub \in Ids
  BY DEF IInv, TypeOK, Req, Parts, Aimed
<1>2. CASE Abort(q)
  <2> DEFINE r == [req[q] EXCEPT !.pc = "refund"]
  <2>1. r \in Req /\ r.sub \in Ids /\ req' = [req EXCEPT ![q] = r]
    BY <1>1, <1>2 DEF Abort, Req
  <2> HIDE DEF r
  <2> QED BY <1>2, <2>1, RequestStands DEF Abort
<1>3. CASE RefundMark(q)
  <2>1. Done(q, req[q].owes) \in Req /\ Done(q, req[q].owes).pc = "done"
    BY <1>1, DoneType DEF Done
  <2>2. CASE req' = [req EXCEPT ![q] = Done(q, req[q].owes)] /\ UNCHANGED upsets
    <3> HIDE DEF Done
    <3> QED BY <1>3, <2>1, <2>2, RequestStands DEF RefundMark
  <2>3. CASE Upset /\ req' = [req EXCEPT ![q] = Again(q)]
    <3>1. Again(q) \in Req /\ (Again(q).pc \in {"held", "refund", "mark"} => Again(q).sub \in Ids)
      <4>1. Again(q).sub = req[q].sub /\ Again(q) \in Req
        BY <1>1, AgainType
      <4>2. req[q].sub \in Ids
        BY <1>3 DEF IInv, Parts, Aimed, RefundMark
      <4> QED BY <4>1, <4>2
    <3> QED BY <1>3, <2>3, <3>1, RequestStands DEF RefundMark
  <2> QED BY <1>3, <2>2, <2>3 DEF RefundMark
<1> QED BY <1>2, <1>3

LEMMA RestingType ==
    Resting \in Maint /\ Resting.at = 0 /\ Resting.list = {} /\ Resting.count = 0
BY DEF Resting, Maint

\* Master m does something that writes no row.
LEMMA MasterQuiet ==
    ASSUME IInv, NEW m \in Masters, UNCHANGED <<now, orders, rows, users, periodic, req>>,
           NEW x \in Maint, x.at <= now, Goes(m, x), UNCHANGED upsets \/ Upset,
           copy' \in [Writers -> Copy], Held', \A v \in Writers \ {m} : copy'[v] = copy[v],
           x.pc \in {"read", "write"} => x.item \in Ids,
           x.pc = "write" => /\ IsRow(copy'[m].rows[x.item])
                             /\ copy'[m].rows[x.item].next > 0
    PROVE  IInv'
<1>1. UNCHANGED <<now, order, callback, paid, made, sub, overtaken, group, swallowed, periodic, req>>
  BY DEF orders, rows, users
<1>2. /\ maint' \in [Masters -> Maint] /\ maint'[m] = x
      /\ \A n \in Masters \ {m} : maint'[n] = maint[n]
  BY DEF IInv, TypeOK, Goes
<1>3. TypeOK'
  BY <1>1, <1>2, UpsetType DEF IInv, TypeOK
<1>4. now' >= now /\ OnTime'
  BY <1>1, <1>2, PlansAssumption DEF IInv, TypeOK, Parts, OnTime
<1>5. Looked' /\ Aimed'
  <2>1. m \in Writers
    BY DEF Writers
  <2>2. Looked'
    BY <1>2, <2>1, LookedStill
  <2> QED BY <1>1, <2>2 DEF IInv, Parts, Aimed
<1> QED BY <1>1, <1>3, <1>4, <1>5, Quietly

\* ... and neither reads any.
LEMMA MasterStands ==
    ASSUME IInv, NEW m \in Masters, UNCHANGED <<now, orders, rows, users, periodic, req, copy>>,
           NEW x \in Maint, x.at <= now, Goes(m, x), UNCHANGED upsets \/ Upset,
           x.pc \notin {"read", "write"}
    PROVE  IInv'
<1>1. UNCHANGED <<now, made, copy>>
  BY DEF rows
<1>2. copy' \in [Writers -> Copy] /\ now' \in Nat /\ made' \in Nat /\ made' >= made /\ now' >= now
  BY <1>1, PlansAssumption DEF IInv, TypeOK
<1>3. Held'
  BY <1>1, <1>2, Unread
<1> QED BY <1>1, <1>2, <1>3, MasterQuiet

LEMMA MasterRests ==
    ASSUME IInv, NEW m \in Masters, UNCHANGED <<now, orders, rows, users, periodic, req, copy>>,
           NEW pc \in {"scan", "list"}, Goes(m, [Resting EXCEPT !.pc = pc]),
           UNCHANGED upsets \/ Upset
    PROVE  IInv'
<1> DEFINE x == [Resting EXCEPT !.pc = pc]
<1>1. x \in Maint /\ x.at = 0 /\ x.pc = pc /\ Goes(m, x) /\ now \in Nat
  BY DEF Resting, Maint, IInv, TypeOK
<1> HIDE DEF x
<1> QED BY <1>1, MasterStands

LEMMA WorksType ==
    ASSUME IInv, NEW pc \in {"expire", "reset"}, NEW l \in SUBSET Ids
    PROVE  /\ Works(pc, l) \in Maint /\ Works(pc, l).at <= now /\ Works(pc, l).pc = pc
BY DEF IInv, TypeOK, Works, Maint

LEMMA MasterLists ==
    ASSUME IInv, NEW m \in Masters, ExpireScan(m) \/ ResetList(m) \/ ResetDone(m)
    PROVE  IInv'
<1>1. /\ UNCHANGED <<now, orders, rows, users, periodic, req, copy>>
      /\ UNCHANGED upsets \/ Upset
  BY DEF ExpireScan, ResetList, ResetDone
<1>2. \/ \E pc \in {"scan", "list"} : Goes(m, [Resting EXCEPT !.pc = pc])
      \/ \E pc \in {"expire", "reset"}, l \in SUBSET Ids : Goes(m, Works(pc, l))
  <2>1. Resting = [Resting EXCEPT !.pc = "scan"]
    BY DEF Resting
  <2>2. CASE ExpireScan(m)
    BY <2>1, <2>2 DEF ExpireScan
  <2>3. CASE ResetList(m)
    BY <2>1, <2>3 DEF ResetList
  <2>4. CASE ResetDone(m)
    BY <2>1, <2>4 DEF ResetDone
  <2> QED BY <2>2, <2>3, <2>4
<1>3. ASSUME NEW pc \in {"expire", "reset"}, NEW l \in SUBSET Ids, Goes(m, Works(pc, l)) PROVE IInv'
  <2> DEFINE x == Works(pc, l)
  <2>1. x \in Maint /\ x.at <= now /\ x.pc = pc /\ Goes(m, x)
    BY <1>3, WorksType
  <2> HIDE DEF x
  <2> QED BY <1>1, <2>1, MasterStands
<1> QED BY <1>1, <1>2, <1>3, MasterRests

LEMMA MaintType ==
    ASSUME IInv, NEW m \in Masters
    PROVE  /\ maint[m] \in Maint /\ maint[m].at \in Nat /\ maint[m].at <= now
           /\ maint[m].list \subseteq Ids /\ maint[m].count \in Nat
           /\ now \in Nat /\ m \in Writers
BY DEF IInv, TypeOK, Parts, OnTime, Maint, Writers

LEMMA ResetPlanStep ==
    ASSUME IInv, NEW m \in Masters, ResetPlan(m)
    PROVE  IInv'
<1> DEFINE x == maint[m]
<1>1. /\ x \in Maint /\ x.at \in Nat /\ x.at <= now /\ x.list \subseteq Ids /\ m \in Writers
      /\ x.pc = "reset" /\ periodic \in SUBSET Plans
  BY MaintType DEF IInv, TypeOK, ResetPlan
<1>2. PICK i \in x.list :
        \/ /\ Goes(m, [x EXCEPT !.pc = "read", !.list = @ \ {i}, !.item = i])
           /\ Reads(m, {}, x.at, periodic)
           /\ UNCHANGED upsets
        \/ Upset /\ Goes(m, [x EXCEPT !.list = @ \ {i}]) /\ UNCHANGED copy
  BY DEF ResetPlan
<1>3. UNCHANGED <<now, orders, rows, users, periodic, req>>
  BY DEF ResetPlan
<1>4. i \in Ids
  BY <1>1
<1> HIDE DEF x
<1>5. CASE /\ Goes(m, [x EXCEPT !.pc = "read", !.list = @ \ {i}, !.item = i])
           /\ Reads(m, {}, x.at, periodic)
           /\ UNCHANGED upsets
  <2> DEFINE y == [x EXCEPT !.pc = "read", !.list = @ \ {i}, !.item = i]
  <2>1. y \in Maint /\ y.at <= now /\ y.pc = "read" /\ y.item = i /\ Goes(m, y)
    BY <1>1, <1>4, <1>5 DEF Maint
  <2>2. /\ copy' \in [Writers -> Copy] /\ Held'
        /\ \A v \in Writers \ {m} : copy'[v] = copy[v]
    <3>1. {} \in SUBSET Ids /\ UNCHANGED <<now, made>> /\ Reads(m, {}, x.at, periodic)
      BY <1>3, <1>5 DEF rows
    <3> QED BY <1>1, <3>1, CopyRead
  <2> HIDE DEF y
  <2> QED BY <1>3, <1>4, <1>5, <2>1, <2>2, MasterQuiet
<1>6. CASE Upset /\ Goes(m, [x EXCEPT !.list = @ \ {i}]) /\ UNCHANGED copy
  <2> DEFINE y == [x EXCEPT !.list = @ \ {i}]
  <2>1. y \in Maint /\ y.at <= now /\ y.pc = "reset" /\ Goes(m, y)
    BY <1>1, <1>4, <1>6 DEF Maint
  <2> HIDE DEF y
  <2> QED BY <1>3, <1>6, <2>1, MasterStands
<1> QED BY <1>2, <1>5, <1>6

LEMMA ResetReadStep ==
    ASSUME IInv, NEW m \in Masters, ResetRead(m)
    PROVE  IInv'
<1> DEFINE x == maint[m]
           i == x.item
<1>1. /\ x \in Maint /\ x.at \in Nat /\ x.at <= now /\ m \in Writers
      /\ x.pc = "read" /\ i \in Ids /\ copy[m].plans \in SUBSET Plans
  <2>1. x \in Maint /\ x.at \in Nat /\ x.at <= now /\ m \in Writers
    BY MaintType
  <2>2. x.pc = "read" /\ i \in Ids
    BY DEF ResetRead, IInv, Parts, Looked
  <2>3. copy[m].plans \in SUBSET Plans
    BY <2>1 DEF IInv, TypeOK, Copy
  <2> QED BY <2>1, <2>2, <2>3
<1>2. UNCHANGED <<now, orders, rows, users, periodic, req>>
  BY DEF ResetRead
<1>3. CASE /\ Exists(i) /\ Due(i, x.at)
           /\ Goes(m, [x EXCEPT !.pc = "write"])
           /\ Reads(m, {i}, x.at, copy[m].plans)
           /\ UNCHANGED upsets
  <2> DEFINE y == [x EXCEPT !.pc = "write"]
  <2>1. y \in Maint /\ y.at <= now /\ y.pc = "write" /\ y.item = i /\ Goes(m, y)
    BY <1>1, <1>3 DEF Maint
  <2> HIDE DEF y, x, i
  <2>2. /\ copy' \in [Writers -> Copy] /\ Held'
        /\ copy'[m].rows = [j \in Ids |-> IF j \in {i} THEN sub[j] ELSE Unborn]
        /\ \A v \in Writers \ {m} : copy'[v] = copy[v]
    BY <1>1, <1>2, <1>3, CopyRead DEF rows
  <2>3. copy'[m].rows[i] = sub[i]
    BY <1>1, <2>2
  <2>4. IsRow(copy'[m].rows[i]) /\ copy'[m].rows[i].next > 0
    BY <1>3, <2>3 DEF Exists, Due
  <2> QED BY <1>1, <1>2, <1>3, <2>1, <2>2, <2>4, MasterQuiet
<1>4. CASE /\ UNCHANGED upsets \/ Upset
           /\ Goes(m, [x EXCEPT !.pc = "reset", !.item = 0])
           /\ Closes(m)
  <2> DEFINE y == [x EXCEPT !.pc = "reset", !.item = 0]
  <2>1. y \in Maint /\ y.at <= now /\ y.pc = "reset" /\ Goes(m, y)
    BY <1>1, <1>4 DEF Maint
  <2>2. copy' \in [Writers -> Copy] /\ Held' /\ \A v \in Writers \ {m} : copy'[v] = copy[v]
    BY <1>1, <1>2, <1>4, CopyClosed DEF rows
  <2> HIDE DEF y, x, i
  <2> QED BY <1>2, <1>4, <2>1, <2>2, MasterQuiet
<1>5. \/ /\ Exists(i) /\ Due(i, x.at)
         /\ Goes(m, [x EXCEPT !.pc = "write"])
         /\ Reads(m, {i}, x.at, copy[m].plans)
         /\ UNCHANGED upsets
      \/ /\ UNCHANGED upsets \/ Upset
         /\ Goes(m, [x EXCEPT !.pc = "reset", !.item = 0])
         /\ Closes(m)
  BY DEF ResetRead
<1> QED BY <1>3, <1>4, <1>5

LEMMA ClockStep ==
    ASSUME IInv, Tick \/ \E p \in Plans : EditPlan(p)
    PROVE  IInv'
<1>1. now \in Nat /\ now' \in 1..(MaxTime + 1) /\ now' >= now /\ made \in Nat
  BY PlansAssumption DEF IInv, TypeOK, Tick, EditPlan
<1>2. UNCHANGED <<order, callback, paid, made, sub, overtaken, group, swallowed, req, maint, copy>>
  BY DEF Tick, EditPlan, orders, rows, users
<1>3. periodic' \subseteq Plans /\ (UNCHANGED upsets \/ Upset)
  BY DEF IInv, TypeOK, Tick, EditPlan
<1>4. TypeOK'
  BY <1>1, <1>2, <1>3, UpsetType DEF IInv, TypeOK
<1>5. OnTime' /\ Looked' /\ Aimed'
  <2>1. \A m \in Masters : maint[m].at \in Nat
    BY DEF IInv, TypeOK, Maint
  <2> QED BY <1>1, <1>2, <2>1 DEF IInv, Parts, OnTime, Looked, Aimed, IsRow
<1>6. Held'
  BY <1>1, <1>2, Unread
<1> QED BY <1>1, <1>2, <1>4, <1>5, <1>6, Quietly

-----------------------------------------------------------------------------
(* Steps that charge, refund or reset.                                     *)

\* What w's transaction writes of S in s keeps the identity of the rows it read,
\* and oversells none.
Keeps(w, S, s) ==
    \A i \in S : /\ s[i] \in Sub /\ (Total > 0 => s[i].used <= Total)
                 /\ IsRow(copy[w].rows[i])
                 /\ s[i].status = copy[w].rows[i].status
                 /\ s[i].plan = copy[w].rows[i].plan
                 /\ s[i].end = copy[w].rows[i].end

\* Without a row overwritten that had changed, the rows are those of the table.
LEMMA Saved ==
    ASSUME IInv, NEW w \in Writers, NEW S \in SUBSET Ids, NEW s,
           Saves(w, S, s), Keeps(w, S, s),
           UNCHANGED <<now, orders, made, users, periodic, upsets>>,
           req' \in [Requests -> Req], maint' \in [Masters -> Maint], OnTime', Aimed',
           \A m \in Masters \ {w} : maint'[m] = maint[m],
           w \in Masters => maint'[w].pc \notin {"read", "write"}
    PROVE  IInv'
<1>1. /\ UNCHANGED <<now, order, callback, paid, made, group, swallowed, periodic, upsets>>
      /\ sub \in [Ids -> Sub] /\ copy \in [Writers -> Copy] /\ made \in Nat /\ Ids \subseteq Int
  BY PlansAssumption DEF IInv, TypeOK, orders, users, Ids
<1>2. /\ copy' \in [Writers -> Copy] /\ Held' /\ \A v \in Writers \ {w} : copy'[v] = copy[v]
  BY <1>1, CopyClosed DEF Saves
<1>3. \A i \in Ids : /\ i \in S => sub'[i] = s[i]
                     /\ i \notin S => sub'[i] = sub[i]
  BY DEF Saves
<1>4. \A i \in S : /\ i <= made /\ s[i] \in Sub /\ (Total > 0 => s[i].used <= Total)
                   /\ s[i].plan \in Plans
  BY DEF Keeps, IInv, Parts, Held
<1>5. TypeOK'
  <2>1. sub' \in [Ids -> Sub]
    <3>1. sub' = [i \in Ids |-> IF i \in S THEN s[i] ELSE sub[i]]
      BY DEF Saves
    <3> QED BY <1>1, <1>4, <3>1
  <2>2. \A i \in Ids : Total > 0 => sub'[i].used <= Total
    BY <1>3, <1>4 DEF IInv, TypeOK
  <2>3. overtaken' \subseteq Writers \X Ids
    BY DEF Saves, IInv, TypeOK
  <2> QED BY <1>1, <1>2, <2>1, <2>2, <2>3 DEF IInv, TypeOK
<1>6. CreditedOnce'
  BY <1>1 DEF IInv, CreditedOnce
<1>7. Blank' /\ Planned' /\ Recorded' /\ Looked'
  <2>1. Blank'
    <3> SUFFICES ASSUME NEW i \in Ids, i > made PROVE sub'[i] = Unborn
      BY <1>1 DEF Blank, Unborn
    <3>1. i \notin S
      BY <1>1, <1>4
    <3> QED BY <1>3, <3>1 DEF IInv, Parts, Blank
  <2>2. Planned'
    BY <1>3, <1>4 DEF IInv, Parts, Planned, Exists, IsRow
  <2>3. Recorded'
    BY <1>1 DEF IInv, Parts, Recorded
  <2>4. Looked'
    BY <1>2, LookedStill
  <2> QED BY <2>1, <2>2, <2>3, <2>4
<1>8. GroupFollows'
  <2> SUFFICES ASSUME overtaken' = {} PROVE GroupFollows'
    BY DEF GroupFollows
  <2>1. overtaken = {} /\ \A i \in S : copy[w].rows[i] = sub[i]
    <3>1. overtaken' = overtaken \cup {w} \X {i \in S : copy[w].rows[i] # sub[i]}
      BY DEF Saves
    <3>2. ASSUME NEW i \in S, copy[w].rows[i] # sub[i] PROVE FALSE
      <4> DEFINE Z == {j \in S : copy[w].rows[j] # sub[j]}
      <4>1. i \in Z /\ overtaken' = overtaken \cup {w} \X Z
        BY <3>1, <3>2
      <4> HIDE DEF Z
      <4>2. <<w, i>> \in {w} \X Z
        BY <4>1
      <4>3. {w} \X Z \subseteq overtaken'
        BY <4>1
      <4> QED BY <4>2, <4>3
    <3> QED BY <3>1, <3>2
  <2>2. \A i \in Ids : /\ sub'[i].status = sub[i].status /\ sub'[i].plan = sub[i].plan
                       /\ sub'[i].end = sub[i].end
    BY <1>3, <2>1 DEF Keeps
  <2>3. \A i \in Ids : (Carries(i)' <=> Carries(i)) /\ sub'[i].end = sub[i].end
    BY <2>2 DEF Carries, Active, Up
  <2>4. Explicit' <=> Explicit
    BY DEF Explicit, Upgrades, Downgrades
  <2> QED BY <1>1, <2>1, <2>3, <2>4 DEF IInv, GroupFollows, Elevated
<1> QED BY <1>2, <1>5, <1>6, <1>7, <1>8 DEF IInv, Parts

\* Request q charges or gives back.
LEMMA RequestSaves ==
    ASSUME IInv, NEW q \in Requests, NEW S \in SUBSET Ids, NEW s,
           Saves(q, S, s), Keeps(q, S, s),
           UNCHANGED <<now, orders, made, users, periodic, maint, upsets>>,
           NEW r \in Req, req' = [req EXCEPT ![q] = r], r.pc = "done" \/ r.sub \in Ids
    PROVE  IInv'
<1>1. /\ req' \in [Requests -> Req] /\ req'[q] = r
      /\ \A p \in Requests \ {q} : req'[p] = req[p]
  BY DEF IInv, TypeOK
<1>2. Aimed'
  BY <1>1, AimedStill
<1>3. maint' \in [Masters -> Maint] /\ OnTime'
  BY DEF IInv, TypeOK, Parts, OnTime
<1>4. q \in Writers /\ q \notin Masters
  BY RequestsAssumption DEF Writers
<1> QED BY <1>1, <1>2, <1>3, <1>4, Saved

\* A row that a transaction has read, after its reset.
LEMMA RenewedRow ==
    ASSUME IInv, NEW w \in Writers, NEW i \in Ids, NEW c, c = copy[w].rows[i],
           NEW r, r = MaybeReset(c, copy[w].at, copy[w].plans)
    PROVE  /\ c \in Sub /\ c.used \in Nat /\ r \in Sub /\ r.used \in Nat
           /\ r.status = c.status /\ r.plan = c.plan /\ r.end = c.end
           /\ r.used <= c.used /\ (Total > 0 => r.used <= Total)
           /\ r.used < c.used => r.last >= c.last + Period /\ r.last <= now
           /\ c.next > 0 /\ r # c => r.used = 0
<1>1. /\ copy[w] \in Copy /\ copy[w].at \in Nat /\ copy[w].at <= now /\ now \in Nat
      /\ Total \in Nat /\ (Total > 0 => c.used <= Total)
  BY PlansAssumption DEF IInv, TypeOK, Copy, Parts, Held
<1>2. c \in Sub /\ c.used \in Nat
  BY <1>1 DEF Copy, Sub
<1>3. /\ r \in Sub /\ r.status = c.status /\ r.plan = c.plan /\ r.end = c.end /\ r.used <= c.used
      /\ r.used < c.used => r.last >= c.last + Period /\ r.last <= copy[w].at
      /\ c.next > 0 /\ r # c => r.used = 0
  BY <1>1, <1>2, ResetFacts
<1>4. r.used \in Nat /\ r.last \in Nat
  BY <1>3 DEF Sub
<1>5. Total > 0 => r.used <= Total
  BY <1>1, <1>2, <1>3, <1>4
<1>6. r.used < c.used => r.last >= c.last + Period /\ r.last <= now
  BY <1>1, <1>3, <1>4
<1> QED BY <1>2, <1>3, <1>4, <1>5, <1>6

\* A pre-consumption charges subscription i by a and resets what it writes.
Charging(q, a, i, S, s) ==
    /\ Saves(q, S, s) /\ Keeps(q, S, s) /\ i \in S
    /\ \A j \in S : /\ s[j].last = Renewed(q, j).last
                    /\ s[j].used = Renewed(q, j).used + (IF j = i THEN a ELSE 0)
    /\ req' = [req EXCEPT ![q] = [@ EXCEPT !.pc = "held", !.sub = i, !.amount = a, !.owes = a]]

LEMMA PreConsumed ==
    ASSUME IInv, NEW q \in Requests, PreConsume(q)
    PROVE  \/ /\ Closes(q) /\ req' = [req EXCEPT ![q].pc = "done"]
              /\ UNCHANGED <<sub, overtaken>>
           \/ \E a \in Amounts, i \in Ids, S \in SUBSET Ids, s \in [Ids -> Sub] : Charging(q, a, i, S, s)
<1> DEFINE earlier(i) == {j \in Found(q) : Before(copy[q].rows, j, i)}
           T(i) == {i} \cup {j \in earlier(i) : Renewed(q, j) # copy[q].rows[j]}
           f(i, a) == [[j \in Ids |-> Renewed(q, j)] EXCEPT ![i].used = @ + a]
<1>1. PICK a \in Amounts :
        \/ \E i \in Found(q) :
              /\ Holds(q, i, a)
              /\ Saves(q, T(i), f(i, a))
              /\ req' = [req EXCEPT ![q] = [@ EXCEPT !.pc = "held", !.sub = i,
                                                     !.amount = a, !.owes = a]]
        \/ /\ Closes(q)
           /\ req' = [req EXCEPT ![q].pc = "done"]
           /\ UNCHANGED <<sub, overtaken>>
  BY DEF PreConsume
<1>2. q \in Writers /\ a \in Nat /\ Total \in Nat
  BY PlansAssumption DEF Writers
<1>3. ASSUME NEW i \in Found(q), Holds(q, i, a), Saves(q, T(i), f(i, a)),
             req' = [req EXCEPT ![q] = [@ EXCEPT !.pc = "held", !.sub = i,
                                                !.amount = a, !.owes = a]]
      PROVE  \E S \in SUBSET Ids, s \in [Ids -> Sub] : i \in Ids /\ Charging(q, a, i, S, s)
  <2> DEFINE S == T(i)
             s == f(i, a)
  <2>1. i \in S /\ S \subseteq Found(q) /\ Found(q) \subseteq Ids
    BY DEF Found
  <2>2. \A j \in Ids : /\ Renewed(q, j) \in Sub /\ Renewed(q, j).used \in Nat
                       /\ (Total > 0 => Renewed(q, j).used <= Total)
                       /\ Renewed(q, j).status = copy[q].rows[j].status
                       /\ Renewed(q, j).plan = copy[q].rows[j].plan
                       /\ Renewed(q, j).end = copy[q].rows[j].end
    BY <1>2, RenewedRow DEF Renewed
  <2>3. Total > 0 => Renewed(q, i).used + a <= Total
    <3>1. i \in Ids /\ (Total = 0 \/ Total - Renewed(q, i).used >= a)
      BY <1>3, <2>1 DEF Holds
    <3> QED BY <1>2, <2>2, <3>1
  <2>4. \A j \in Ids : s[j] = IF j = i THEN [Renewed(q, i) EXCEPT !.used = @ + a] ELSE Renewed(q, j)
    BY <2>1
  <2>5. s \in [Ids -> Sub]
    <3>1. [Renewed(q, i) EXCEPT !.used = @ + a] \in Sub
      BY <1>2, <2>1, <2>2 DEF Sub
    <3>2. s = [j \in Ids |-> s[j]]
      OBVIOUS
    <3> HIDE DEF s
    <3> QED BY <2>2, <2>4, <3>1, <3>2
  <2>6. Saves(q, S, s)
    BY <1>3
  <2> HIDE DEF S, s
  <2>7. \A j \in S : /\ s[j].status = Renewed(q, j).status /\ s[j].plan = Renewed(q, j).plan
                     /\ s[j].end = Renewed(q, j).end /\ s[j].last = Renewed(q, j).last
                     /\ s[j].used = Renewed(q, j).used + (IF j = i THEN a ELSE 0)
                     /\ s[j] \in Sub
    <3> TAKE j \in S
    <3>1. j \in Ids /\ Renewed(q, j) \in Sub /\ Renewed(q, j).used \in Nat
      BY <2>1, <2>2
    <3>2. CASE j = i
      <4>1. s[j] = [Renewed(q, j) EXCEPT !.used = @ + a]
        BY <2>4, <3>1, <3>2
      <4> QED BY <2>5, <3>1, <3>2, <4>1 DEF Sub
    <3>3. CASE j # i
      <4>1. s[j] = Renewed(q, j)
        BY <2>4, <3>1, <3>3
      <4> QED BY <3>1, <3>3, <4>1
    <3> QED BY <3>2, <3>3
  <2>8. Keeps(q, S, s)
    <3> SUFFICES ASSUME NEW j \in S
                 PROVE  /\ s[j] \in Sub /\ (Total > 0 => s[j].used <= Total)
                        /\ IsRow(copy[q].rows[j])
                        /\ s[j].status = copy[q].rows[j].status
                        /\ s[j].plan = copy[q].rows[j].plan
                        /\ s[j].end = copy[q].rows[j].end
      BY DEF Keeps
    <3>1. j \in Ids /\ IsRow(copy[q].rows[j])
      BY <2>1 DEF Found
    <3>2. Total > 0 => s[j].used <= Total
      BY <2>2, <2>3, <2>7, <3>1
    <3> QED BY <2>2, <2>7, <3>1, <3>2
  <2>9. Charging(q, a, i, S, s)
    BY <1>3, <2>1, <2>6, <2>7, <2>8 DEF Charging
  <2> QED BY <2>1, <2>5, <2>9
<1> HIDE DEF T, f
<1> QED BY <1>1, <1>3

LEMMA PreConsumeStep ==
    ASSUME IInv, NEW q \in Requests, PreConsume(q)
    PROVE  IInv'
<1>1. /\ req[q] \in Req /\ q \in Writers
      /\ UNCHANGED <<now, orders, made, users, periodic, maint, upsets>>
  BY DEF IInv, TypeOK, Writers, PreConsume
<1>2. CASE /\ Closes(q) /\ req' = [req EXCEPT ![q].pc = "done"]
           /\ UNCHANGED <<sub, overtaken>>
  <2> DEFINE r == [req[q] EXCEPT !.pc = "done"]
  <2>1. r \in Req /\ r.pc = "done" /\ req' = [req EXCEPT ![q] = r]
    BY <1>1, <1>2 DEF Req
  <2>2. UNCHANGED <<now, orders, rows, users, periodic, maint>>
    BY <1>1, <1>2 DEF rows
  <2>3. copy' \in [Writers -> Copy] /\ Held' /\ \A v \in Writers \ {q} : copy'[v] = copy[v]
    BY <1>1, <1>2, CopyClosed
  <2> HIDE DEF r
  <2> QED BY <1>1, <2>1, <2>2, <2>3, RequestQuiet
<1>3. ASSUME NEW a \in Amounts, NEW i \in Ids, NEW S \in SUBSET Ids, NEW s,
             Charging(q, a, i, S, s)
      PROVE  IInv'
  <2> DEFINE r == [req[q] EXCEPT !.pc = "held", !.sub = i, !.amount = a, !.owes = a]
  <2>1. a \in Nat
    BY PlansAssumption
  <2>2. r \in Req /\ r.sub \in Ids /\ req' = [req EXCEPT ![q] = r]
    BY <1>1, <1>3, <2>1 DEF Req, Charging
  <2> HIDE DEF r
  <2> QED BY <1>1, <1>3, <2>2, RequestSaves DEF Charging
<1> QED BY <1>2, <1>3, PreConsumed

\* What a settlement or refund writes.
Posting(q, was, is, s) ==
    LET k == req[q].sub
    IN  /\ k \in Ids /\ Saves(q, {k}, s) /\ Keeps(q, {k}, s)
        /\ s[k].used = NewUsed(copy[q].rows[k], was, is)

LEMMA Posted ==
    ASSUME IInv, NEW q \in Requests, req[q].pc \in {"held", "refund"},
           NEW was \in Nat, NEW is \in Nat, PostConsume(q, was, is)
    PROVE  \E s : Posting(q, was, is, s)
<1> DEFINE k == req[q].sub
           c == copy[q].rows[k]
           n == NewUsed(c, was, is)
           s == [copy[q].rows EXCEPT ![k].used = n]
<1>1. k \in Ids /\ q \in Writers
  BY DEF IInv, Parts, Aimed, Writers
<1>2. copy[q].rows \in [Ids -> Sub] /\ c \in Sub /\ c.used \in Nat
  BY <1>1 DEF IInv, TypeOK, Copy, Sub
<1>3. Saves(q, {k}, s) /\ IsRow(c) /\ (Total > 0 => n <= Total)
  BY DEF PostConsume, Own, Fits
<1> HIDE DEF k, c
<1>4. n \in Nat
  BY <1>2 DEF NewUsed
<1> HIDE DEF n
<1>5. s[k] = [c EXCEPT !.used = n]
  BY <1>1, <1>2 DEF c
<1> HIDE DEF s
<1>6. /\ s[k] \in Sub /\ s[k].used = n /\ s[k].status = c.status /\ s[k].plan = c.plan
      /\ s[k].end = c.end
  BY <1>2, <1>4, <1>5 DEF Sub
<1>7. Keeps(q, {k}, s)
  BY <1>3, <1>6 DEF Keeps, c
<1> QED BY <1>1, <1>3, <1>6, <1>7 DEF Posting, k, c, n

\* A transaction of request q that does not save.
LEMMA PostFailed ==
    ASSUME IInv, NEW q \in Requests, NEW was, NEW is, PostFails(q, was, is),
           UNCHANGED <<now, orders, made, users, periodic, maint>>,
           NEW r \in Req, req' = [req EXCEPT ![q] = r], r.sub \in Ids
    PROVE  IInv'
<1>1. q \in Writers /\ (UNCHANGED upsets \/ Upset)
  BY DEF Writers, PostFails
<1>2. UNCHANGED <<now, orders, rows, users, periodic, maint>>
  BY DEF rows, PostFails
<1>3. copy' \in [Writers -> Copy] /\ Held' /\ \A v \in Writers \ {q} : copy'[v] = copy[v]
  BY <1>1, CopyClosed DEF PostFails
<1> QED BY <1>1, <1>2, <1>3, RequestQuiet

LEMMA SettleStep ==
    ASSUME IInv, NEW q \in Requests, Settle(q)
    PROVE  IInv'
<1>1. /\ req[q] \in Req /\ req[q].amount \in Nat /\ req[q].owes \in Nat /\ TypeOK
      /\ req[q].pc = "held" /\ req[q].sub \in Ids /\ q \in Writers
      /\ UNCHANGED <<now, orders, made, users, periodic, maint>>
  BY DEF IInv, TypeOK, Req, Settle, Parts, Aimed, Writers
<1>2. PICK a \in Actuals :
        \/ /\ PostConsume(q, req[q].amount, a)
           /\ req' = [req EXCEPT ![q] = Done(q, a)]
           /\ UNCHANGED upsets
        \/ /\ PostFails(q, req[q].amount, a)
           /\ req' = [req EXCEPT ![q] = Done(q, req[q].owes)]
        \/ /\ req' = [req EXCEPT ![q] = Done(q, a)]
           /\ UNCHANGED <<sub, overtaken, copy, upsets>>
  BY DEF Settle
<1>3. \A n \in Nat : Done(q, n) \in Req /\ Done(q, n).pc = "done" /\ Done(q, n).sub \in Ids
  BY <1>1, DoneType DEF Done
<1>4. a \in Nat
  BY PlansAssumption
<1> HIDE DEF Done
<1>5. CASE /\ PostConsume(q, req[q].amount, a)
           /\ req' = [req EXCEPT ![q] = Done(q, a)]
           /\ UNCHANGED upsets
  <2>1. PICK s : Posting(q, req[q].amount, a, s)
    BY <1>1, <1>4, <1>5, Posted
  <2>2. {req[q].sub} \in SUBSET Ids /\ Saves(q, {req[q].sub}, s) /\ Keeps(q, {req[q].sub}, s)
    BY <2>1 DEF Posting
  <2> QED BY <1>1, <1>3, <1>4, <1>5, <2>2, RequestSaves
<1>6. CASE /\ PostFails(q, req[q].amount, a)
           /\ req' = [req EXCEPT ![q] = Done(q, req[q].owes)]
  BY <1>1, <1>3, <1>6, PostFailed
<1>7. CASE /\ req' = [req EXCEPT ![q] = Done(q, a)]
           /\ UNCHANGED <<sub, overtaken, copy, upsets>>
  <2>1. UNCHANGED <<now, orders, rows, users, periodic, maint, copy>>
    BY <1>1, <1>7 DEF rows
  <2> QED BY <1>3, <1>4, <1>7, <2>1, RequestStands
<1> QED BY <1>2, <1>5, <1>6, <1>7

LEMMA RefundStep ==
    ASSUME IInv, NEW q \in Requests, RefundDelta(q)
    PROVE  IInv'
<1>1. /\ req[q] \in Req /\ req[q].amount \in Nat /\ TypeOK
      /\ req[q].pc = "refund" /\ req[q].sub \in Ids /\ q \in Writers
      /\ UNCHANGED <<now, orders, made, users, periodic, maint>>
  BY DEF IInv, TypeOK, Req, RefundDelta, Parts, Aimed, Writers
<1>2. CASE /\ PostConsume(q, req[q].amount, 0)
           /\ req' = [req EXCEPT ![q] = [@ EXCEPT !.pc = "mark", !.owes = 0]]
           /\ UNCHANGED upsets
  <2> DEFINE r == [req[q] EXCEPT !.pc = "mark", !.owes = 0]
  <2>1. PICK s : Posting(q, req[q].amount, 0, s)
    BY <1>1, <1>2, Posted
  <2>2. {req[q].sub} \in SUBSET Ids /\ Saves(q, {req[q].sub}, s) /\ Keeps(q, {req[q].sub}, s)
    BY <2>1 DEF Posting
  <2>3. r \in Req /\ r.sub \in Ids /\ req' = [req EXCEPT ![q] = r]
    BY <1>1, <1>2 DEF Req
  <2> HIDE DEF r
  <2> QED BY <1>1, <1>2, <2>2, <2>3, RequestSaves
<1>3. CASE /\ PostFails(q, req[q].amount, 0)
           /\ req' = [req EXCEPT ![q] = Again(q)]
  <2>1. Again(q) \in Req /\ Again(q).sub \in Ids
    BY <1>1, AgainType
  <2> QED BY <1>1, <1>3, <2>1, PostFailed
<1> QED BY <1>2, <1>3 DEF RefundDelta

\* A master writes a row that was due only to start it at zero.
Starting(m, S, s) ==
    /\ Saves(m, S, s) /\ Keeps(m, S, s)
    /\ \A i \in S : /\ s[i].used = 0
                    /\ s[i] = MaybeReset(copy[m].rows[i], copy[m].at, copy[m].plans)

LEMMA ResetWrites ==
    ASSUME IInv, NEW m \in Masters, Reset(m)
    PROVE  \/ Upset /\ Closes(m) /\ Goes(m, Resting) /\ UNCHANGED <<sub, overtaken>>
           \/ /\ \E S \in SUBSET Ids : \E s : Starting(m, S, s)
              /\ Goes(m, [maint[m] EXCEPT !.pc = "reset", !.count = @ + 1, !.item = 0])
              /\ UNCHANGED upsets
<1> DEFINE x == maint[m]
           i == x.item
           c == copy[m].rows[i]
           r == MaybeReset(c, copy[m].at, copy[m].plans)
           S == IF r = c THEN {} ELSE {i}
           s == [copy[m].rows EXCEPT ![i] = r]
<1>1. m \in Writers /\ i \in Ids /\ IsRow(c) /\ c.next > 0
  BY DEF IInv, Parts, Looked, Writers, Reset
<1>2. \/ Upset /\ Closes(m) /\ Goes(m, Resting) /\ UNCHANGED <<sub, overtaken>>
      \/ /\ Saves(m, S, s)
         /\ Goes(m, [x EXCEPT !.pc = "reset", !.count = @ + 1, !.item = 0])
         /\ UNCHANGED upsets
  BY DEF Reset
<1>3. /\ r \in Sub /\ r.status = c.status /\ r.plan = c.plan /\ r.end = c.end
      /\ (Total > 0 => r.used <= Total) /\ (r # c => r.used = 0)
  BY <1>1, RenewedRow
<1>4. S \in SUBSET Ids /\ \A j \in S : j = i /\ r # c
  BY <1>1
<1>5. s[i] = r
  <2>1. copy[m].rows \in [Ids -> Sub]
    BY <1>1 DEF IInv, TypeOK, Copy
  <2> HIDE DEF r
  <2> QED BY <1>1, <2>1
<1>6. Saves(m, S, s) => Starting(m, S, s)
  <2> HIDE DEF S, s
  <2>1. \A j \in S : /\ s[j] \in Sub /\ (Total > 0 => s[j].used <= Total)
                     /\ IsRow(copy[m].rows[j])
                     /\ s[j].status = copy[m].rows[j].status
                     /\ s[j].plan = copy[m].rows[j].plan
                     /\ s[j].end = copy[m].rows[j].end
                     /\ s[j].used = 0
                     /\ s[j] = MaybeReset(copy[m].rows[j], copy[m].at, copy[m].plans)
    <3> TAKE j \in S
    <3>1. j = i /\ s[j] = r /\ copy[m].rows[j] = c /\ r # c
      BY <1>4, <1>5
    <3> QED BY <1>1, <1>3, <3>1
  <2> QED BY <2>1 DEF Starting, Keeps
<1> HIDE DEF S, s
<1> QED BY <1>2, <1>4, <1>6

LEMMA ResetStep ==
    ASSUME IInv, NEW m \in Masters, Reset(m)
    PROVE  IInv'
<1>1. /\ maint[m] \in Maint /\ maint[m].at \in Nat /\ maint[m].at <= now /\ maint[m].count \in Nat
      /\ now \in Nat /\ m \in Writers
      /\ UNCHANGED <<now, orders, made, users, periodic, req>>
  BY MaintType DEF Reset
<1>2. CASE Upset /\ Closes(m) /\ Goes(m, Resting) /\ UNCHANGED <<sub, overtaken>>
  <2>1. UNCHANGED <<now, orders, rows, users, periodic, req>>
    BY <1>1, <1>2 DEF rows
  <2>2. copy' \in [Writers -> Copy] /\ Held' /\ \A v \in Writers \ {m} : copy'[v] = copy[v]
    BY <1>1, <1>2, CopyClosed
  <2>3. Resting \in Maint /\ Resting.at <= now /\ Resting.pc = "scan"
    BY <1>1, RestingType DEF Resting
  <2> QED BY <1>2, <2>1, <2>2, <2>3, MasterQuiet
<1>3. ASSUME NEW S \in SUBSET Ids, NEW s, Starting(m, S, s), UNCHANGED upsets,
             Goes(m, [maint[m] EXCEPT !.pc = "reset", !.count = @ + 1, !.item = 0])
      PROVE  IInv'
  <2> DEFINE y == [maint[m] EXCEPT !.pc = "reset", !.count = @ + 1, !.item = 0]
  <2>1. y \in Maint /\ y.at <= now /\ y.pc = "reset" /\ Goes(m, y)
    <3>1. maint[m].count + 1 \in Nat
      BY <1>1
    <3>2. y \in Maint /\ y.at = maint[m].at /\ y.pc = "reset"
      BY <1>1, <3>1 DEF Maint
    <3> QED BY <1>1, <1>3, <3>2
  <2> HIDE DEF y
  <2>2. /\ maint' \in [Masters -> Maint] /\ maint'[m] = y
        /\ \A n \in Masters \ {m} : maint'[n] = maint[n]
    BY <2>1 DEF IInv, TypeOK, Goes
  <2>3. OnTime' /\ Aimed' /\ req' \in [Requests -> Req]
    BY <1>1, <2>1, <2>2 DEF IInv, TypeOK, Parts, OnTime, Aimed
  <2>4. Saves(m, S, s) /\ Keeps(m, S, s)
    BY <1>3 DEF Starting
  <2> QED BY <1>1, <1>3, <2>1, <2>2, <2>3, <2>4, Saved
<1> QED BY <1>2, <1>3, ResetWrites

-----------------------------------------------------------------------------
(* Purchases.                                                              *)

LEMMA CreateStep ==
    ASSUME IInv, NEW o \in Ids, Create(PlanOf[o]), o \in paid => ~Snapshot,
           order' = [order EXCEPT ![o] = "success"], paid' = paid \cup {o},
           callback' \in [Ids -> SUBSET Nodes]
    PROVE  IInv'
<1> DEFINE p == PlanOf[o]
<1>1. /\ order \in [Ids -> {"none", "pending", "success", "expired"}]
      /\ sub \in [Ids -> Sub] /\ group \in Groups /\ made \in Nat /\ now \in Nat
      /\ p \in Plans /\ Purchases \in Nat /\ Duration \in Nat /\ Total \in Nat
      /\ None \notin Groups
  <2>1. None \notin Groups
    BY PlansAssumption DEF Groups, Upgrades, Downgrades
  <2>2. p \in Plans /\ Purchases \in Nat /\ Duration \in Nat /\ Total \in Nat /\ MaxTime \in Nat
    BY PlansAssumption
  <2>3. TypeOK
    BY DEF IInv
  <2> HIDE DEF p
  <2>4. made \in Nat /\ now \in Nat
    BY <2>2, <2>3 DEF TypeOK
  <2> QED BY <2>1, <2>2, <2>3, <2>4 DEF TypeOK
<1>2. /\ made' = made + 1 /\ made + 1 \in Ids
      /\ UNCHANGED <<now, overtaken, swallowed, periodic, req, maint, copy, upsets>>
  BY <1>1 DEF Create, Ids
<1> PICK i \in Ids : i = made + 1
  BY <1>2
<1>3. IsFiniteSet(paid)
  <2>1. IsFiniteSet(Ids)
    BY <1>1, FS_Interval DEF Ids
  <2> QED BY <2>1, FS_Subset DEF IInv, TypeOK
<1>4. CreditedOnce'
  <2> SUFFICES ASSUME Snapshot
               PROVE  /\ made + 1 = Cardinality(paid')
                      /\ \A x \in Ids : order'[x] = "success" => x \in paid'
    BY <1>2 DEF CreditedOnce
  <2>1. o \notin paid /\ made = Cardinality(paid)
    BY DEF IInv, CreditedOnce
  <2>2. Cardinality(paid \cup {o}) = Cardinality(paid) + 1
    BY <1>3, <2>1, FS_AddElement
  <2>3. \A x \in Ids : order'[x] = "success" => x \in paid'
    BY <1>1 DEF IInv, CreditedOnce
  <2> QED BY <2>1, <2>2, <2>3
<1>5. sub[i] = Unborn
  BY <1>1 DEF IInv, Parts, Blank
<1>6. /\ sub'[i] \in Sub /\ sub'[i].status = "active" /\ sub'[i].plan = p /\ sub'[i].used = 0
      /\ \A j \in Ids \ {i} : sub'[j] = sub[j]
      /\ sub' \in [Ids -> Sub]
  <2> DEFINE next == NextReset(p \in periodic, now, now + Duration)
             moves == Upgrade[p] \notin {None, group}
             r == [status |-> "active", plan |-> p, used |-> 0, start |-> now,
                   end |-> now + Duration, last |-> IF next > 0 THEN now ELSE 0,
                   next |-> next, prev |-> IF moves THEN group ELSE None]
  <2>1. sub' = [sub EXCEPT ![i] = r]
    BY DEF Create
  <2>2. next \in Nat
    BY <1>1, NextResetType
  <2> HIDE DEF next, moves
  <2>3. r \in Sub /\ r.status = "active" /\ r.plan = p /\ r.used = 0
    BY <1>1, <2>2 DEF Sub, SubStatus
  <2> HIDE DEF r
  <2> QED BY <1>1, <1>2, <2>1, <2>3
<1>7. /\ group' = group \/ (group' = Upgrade[p] /\ Upgrade[p] \in Upgrades)
      /\ Upgrade[p] # None => group' = Upgrade[p] /\ Upgrade[p] \in Upgrades
  <2>1. group' = IF Upgrade[p] \notin {None, group} THEN Upgrade[p] ELSE group
    BY DEF Create
  <2>2. Upgrade[p] # None => Upgrade[p] \in Upgrades
    BY <1>1 DEF Upgrades
  <2> QED BY <2>1, <2>2
<1>8. TypeOK'
  <2>1. order' \in [Ids -> {"none", "pending", "success", "expired"}]
    BY <1>1
  <2>2. made' \in 0..Purchases
    BY <1>1, <1>2 DEF Ids
  <2>3. group' \in Groups
    BY <1>1, <1>7 DEF Groups
  <2>4. \A j \in Ids : Total > 0 => sub'[j].used <= Total
    BY <1>1, <1>6 DEF IInv, TypeOK
  <2> QED BY <1>2, <2>1, <2>2, <2>3, <2>4, <1>6 DEF IInv, TypeOK
<1>9. Parts'
  <2>1. Blank'
    BY <1>1, <1>2, <1>6 DEF IInv, Parts, Blank, Ids, Unborn
  <2>2. OnTime' /\ Looked' /\ Aimed'
    BY <1>2 DEF IInv, Parts, OnTime, Looked, Aimed, IsRow
  <2>3. Planned'
    BY <1>1, <1>6 DEF IInv, Parts, Planned, Exists
  <2>4. Recorded'
    BY <1>1 DEF IInv, Parts, Recorded
  <2>5. Held'
    BY <1>1, <1>2, Unread
  <2> QED BY <2>1, <2>2, <2>3, <2>4, <2>5 DEF Parts
<1>10. GroupFollows'
  <2>1. ~Carries(i)
    BY <1>5 DEF Carries, Active, Unborn
  <2>2. \A j \in Ids \ {i} : (Carries(j)' <=> Carries(j)) /\ sub'[j].end = sub[j].end
    BY <1>6 DEF Carries, Active, Up
  <2>3. Carries(i)' <=> Upgrade[p] # None
    BY <1>6 DEF Carries, Active, Up
  <2> HIDE DEF p
  <2>4. ASSUME Explicit, overtaken = {}, ~swallowed PROVE (\E j \in Ids : Carries(j)' /\ sub'[j].end > now') => Elevated'
    BY <2>1, <2>2, <2>3, <2>4, <1>2, <1>7 DEF IInv, GroupFollows, Elevated
  <2>5. ASSUME Explicit, overtaken = {}, ~swallowed PROVE Elevated' => \E j \in Ids : Carries(j)'
    <3>1. CASE Upgrade[p] # None
      BY <1>2, <2>3, <3>1
    <3>2. CASE Upgrade[p] = None
      <4>1. None \notin Upgrades
        BY DEF Upgrades
      <4>2. group' = group
        BY <1>7, <3>2, <4>1
      <4> QED BY <2>1, <2>2, <2>5, <4>2 DEF IInv, GroupFollows, Elevated
    <3> QED BY <3>1, <3>2
  <2>6. Explicit' <=> Explicit
    BY DEF Explicit, Upgrades, Downgrades
  <2> QED BY <1>2, <2>4, <2>5, <2>6 DEF GroupFollows
<1> QED BY <1>4, <1>8, <1>9, <1>10 DEF IInv

LEMMA PurchaseStep ==
    ASSUME IInv, NEW o \in Ids, Purchase(o)
    PROVE  IInv'
<1>1. callback \in [Ids -> SUBSET Nodes]
  BY DEF IInv, TypeOK
<1>2. ASSUME NEW n \in Nodes, CompleteSubscriptionOrder(n, o) PROVE IInv'
  <2>1. callback' \in [Ids -> SUBSET Nodes]
    BY <1>1, <1>2 DEF CompleteSubscriptionOrder, Answers
  <2>2. \/ /\ o \in paid => ~Snapshot
           /\ Create(PlanOf[o])
           /\ order' = [order EXCEPT ![o] = "success"]
           /\ paid' = paid \cup {o}
        \/ /\ Answers(n, o)
           /\ UNCHANGED <<now, order, paid, rows, users, periodic, req, maint, copy, upsets>>
    BY <1>2 DEF CompleteSubscriptionOrder
  <2> QED BY <2>1, <2>2, CreateStep, OrderSteps
<1>3. CASE Grant(o)
  <2>1. o \notin paid
    BY <1>3 DEF Grant, IInv, Parts, Recorded
  <2> QED BY <1>1, <1>3, <2>1, CreateStep DEF Grant
<1> QED BY <1>2, <1>3, OrderSteps DEF Purchase

-----------------------------------------------------------------------------
(* Subscriptions that end.                                                 *)

\* One or more subscriptions end, and the group may follow one of them.
LEMMA Ended ==
    ASSUME IInv, UNCHANGED <<now, orders, made, overtaken, periodic, req, copy>>,
           sub' \in [Ids -> Sub], maint' \in [Masters -> Maint], OnTime', Looked',
           UNCHANGED upsets \/ Upset,
           group' \in Groups, swallowed' \in BOOLEAN, swallowed => swallowed',
           \A i \in Ids : /\ sub'[i].used <= sub[i].used
                          /\ ~Exists(i) => sub'[i] = sub[i]
                          /\ Exists(i)' => Exists(i) /\ sub'[i].plan = sub[i].plan
                          /\ Carries(i)' => Carries(i) /\ sub'[i].end = sub[i].end,
           Explicit /\ ~swallowed' =>
              \/ /\ group' = group
                 /\ (\E i \in Ids : Carries(i)) => \E i \in Ids : Carries(i)'
              \/ /\ group' \notin Upgrades
                 /\ ~\E i \in Ids : Carries(i)' /\ sub[i].end > now
              \/ group' = group /\ group \notin Upgrades
    PROVE  IInv'
<1>1. UNCHANGED <<now, order, callback, paid, made, overtaken, periodic, req, copy>>
  BY DEF orders
<1>2. TypeOK'
  <2>1. \A i \in Ids : Total > 0 => sub'[i].used <= Total
    BY PlansAssumption DEF IInv, TypeOK, Sub
  <2> QED BY <1>1, <2>1, UpsetType DEF IInv, TypeOK
<1>3. CreditedOnce' /\ Blank' /\ Planned' /\ Recorded' /\ Aimed'
  <2>1. CreditedOnce' /\ Recorded' /\ Aimed'
    BY <1>1 DEF IInv, CreditedOnce, Parts, Recorded, Aimed
  <2>2. Blank'
    <3> SUFFICES ASSUME NEW i \in Ids, i > made PROVE sub'[i] = Unborn
      BY <1>1 DEF Blank, Unborn
    <3>1. ~Exists(i) /\ sub[i] = Unborn
      BY DEF IInv, Parts, Blank, Exists, IsRow, Unborn
    <3> QED BY <3>1
  <2>3. Planned'
    BY DEF IInv, Parts, Planned
  <2> QED BY <2>1, <2>2, <2>3
<1>4. Held'
  BY <1>1, Unread, PlansAssumption DEF IInv, TypeOK
<1>5. GroupFollows'
  <2>1. Explicit' <=> Explicit
    BY DEF Explicit, Upgrades, Downgrades
  <2>2. ASSUME Explicit, overtaken = {}, ~swallowed'
        PROVE  (\E i \in Ids : Carries(i)' /\ sub'[i].end > now') => Elevated'
    BY <1>1, <2>2 DEF IInv, GroupFollows, Elevated
  <2>3. ASSUME Explicit, overtaken = {}, ~swallowed' PROVE Elevated' => \E i \in Ids : Carries(i)'
    BY <2>3 DEF IInv, GroupFollows, Elevated
  <2> QED BY <1>1, <2>1, <2>2, <2>3 DEF GroupFollows
<1> QED BY <1>2, <1>3, <1>4, <1>5 DEF IInv, Parts

LEMMA TakenAway ==
    ASSUME IInv, NEW i \in Ids, AdminInvalidate(i) \/ AdminDelete(i)
    PROVE  IInv'
<1>1. /\ UNCHANGED <<now, orders, made, overtaken, periodic, req, maint, copy>>
      /\ Exists(i) /\ Downgraded(i)
  BY DEF AdminInvalidate, AdminDelete
<1>2. /\ sub \in [Ids -> Sub] /\ group \in Groups /\ now \in Nat
      /\ maint \in [Masters -> Maint] /\ OnTime' /\ Looked'
      /\ sub[i].plan \in Plans /\ TypeOK
  BY <1>1 DEF IInv, TypeOK, Parts, OnTime, Looked, Planned, IsRow
<1>3. /\ sub'[i] \in Sub /\ sub' \in [Ids -> Sub] /\ \A j \in Ids \ {i} : sub'[j] = sub[j]
      /\ sub'[i].status \in {"cancelled", "deleted"} /\ sub'[i].used <= sub[i].used
      /\ sub'[i].status # "deleted" => sub'[i].plan = sub[i].plan
  <2>1. CASE AdminInvalidate(i)
    <3> DEFINE r == [sub[i] EXCEPT !.status = "cancelled", !.end = now]
    <3>1. r \in Sub /\ r.status = "cancelled" /\ r.used = sub[i].used /\ r.plan = sub[i].plan
      BY <1>2 DEF Sub, SubStatus
    <3>2. sub' = [sub EXCEPT ![i] = r]
      BY <1>2, <2>1 DEF AdminInvalidate
    <3>3. sub[i].used \in Nat
      BY <1>2 DEF Sub
    <3> HIDE DEF r
    <3> QED BY <1>2, <3>1, <3>2, <3>3
  <2>2. CASE AdminDelete(i)
    <3> DEFINE r == [Unborn EXCEPT !.status = "deleted"]
    <3>1. r \in Sub /\ r.status = "deleted" /\ r.used = 0
      BY DEF Unborn, Sub, SubStatus
    <3>2. sub' = [sub EXCEPT ![i] = r]
      BY <2>2 DEF AdminDelete
    <3>3. sub[i].used \in Nat
      BY <1>2 DEF Sub
    <3> HIDE DEF r
    <3> QED BY <1>2, <3>1, <3>2, <3>3
  <2> QED BY <2>1, <2>2
<1>4. \A j \in Ids : /\ sub'[j].used <= sub[j].used
                     /\ ~Exists(j) => sub'[j] = sub[j]
                     /\ Exists(j)' => Exists(j) /\ sub'[j].plan = sub[j].plan
                     /\ Carries(j)' => Carries(j) /\ sub'[j].end = sub[j].end
  <2> TAKE j \in Ids
  <2>1. CASE j = i
    BY <1>1, <1>3, <2>1 DEF Exists, IsRow, Carries, Active
  <2>2. CASE j # i
    <3>1. sub'[j] = sub[j] /\ sub[j].used \in Nat
      BY <1>2, <1>3, <2>2 DEF Sub
    <3> QED BY <3>1 DEF Exists, IsRow, Carries, Active, Up
  <2> QED BY <2>1, <2>2
<1>5. \A j \in Ids \ {i} : Carries(j)' <=> Carries(j)
  BY <1>3 DEF Carries, Active, Up
<1>6. ~Carries(i)'
  BY <1>3 DEF Carries, Active
<1>7. /\ Upset /\ swallowed' \in BOOLEAN /\ (swallowed => swallowed')
      /\ \/ /\ ~swallowed'
            /\ group' = IF \E j \in Ids \ {i} : Carries(j) /\ sub[j].end > now
                        THEN group ELSE Followed(i)
         \/ swallowed' /\ group' \in {group, Followed(i)}
  <2>1. swallowed \in BOOLEAN
    BY DEF IInv, TypeOK
  <2>2. CASE swallowed' = TRUE
    BY <1>1, <2>2 DEF Downgraded
  <2>3. CASE swallowed' = FALSE
    BY <1>1, <2>1, <2>3 DEF Downgraded
  <2> QED BY <1>1, <2>1, <2>2, <2>3 DEF Downgraded
<1>8. group' \in Groups
  BY <1>2, <1>7, FollowedType
<1>9. ASSUME Explicit, ~swallowed'
      PROVE  \/ /\ group' = group
                /\ (\E j \in Ids : Carries(j)) => \E j \in Ids : Carries(j)'
             \/ /\ group' \notin Upgrades
                /\ ~\E j \in Ids : Carries(j)' /\ sub[j].end > now
             \/ group' = group /\ group \notin Upgrades
  <2>1. CASE \E j \in Ids \ {i} : Carries(j) /\ sub[j].end > now
    BY <1>5, <1>7, <1>9, <2>1
  <2>2. CASE ~\E j \in Ids \ {i} : Carries(j) /\ sub[j].end > now
    <3>1. group' = Followed(i)
      BY <1>7, <1>9, <2>2
    <3>2. CASE Up(i) = None /\ Down(i) = None
      BY <1>2, <1>5, <3>1, <3>2, FollowedType DEF Carries
    <3>3. CASE Up(i) # None \/ Down(i) # None
      BY <1>2, <1>5, <1>6, <1>9, <2>2, <3>1, <3>3, FollowedType
    <3> QED BY <3>2, <3>3
  <2> QED BY <2>1, <2>2
<1>10. maint' \in [Masters -> Maint]
  BY <1>1, <1>2
<1> QED BY <1>1, <1>2, <1>3, <1>4, <1>7, <1>8, <1>9, <1>10, Ended

LEMMA ExpireStep ==
    ASSUME IInv, NEW m \in Masters, Expire(m)
    PROVE  IInv'
<1> DEFINE t == maint[m].at
           ended == Over(t)
           next == IF Cardinality(ended) >= Batch THEN "scan" ELSE "list"
<1>1. /\ sub \in [Ids -> Sub] /\ group \in Groups /\ now \in Nat /\ t \in Nat /\ t <= now
      /\ maint \in [Masters -> Maint] /\ TypeOK /\ swallowed \in BOOLEAN
      /\ UNCHANGED <<now, orders, made, overtaken, periodic, req, copy>>
  BY DEF IInv, TypeOK, Parts, OnTime, Expire, Maint
<1>2. CASE Upset /\ Goes(m, Resting) /\ UNCHANGED <<sub, users>>
  <2>1. UNCHANGED <<now, orders, rows, users, periodic, req, copy>>
    BY <1>1, <1>2 DEF rows
  <2>2. Resting = [Resting EXCEPT !.pc = "scan"]
    BY DEF Resting
  <2> QED BY <1>2, <2>1, <2>2, MasterRests
<1>3. CASE /\ sub' = [i \in Ids |-> IF i \in ended THEN [sub[i] EXCEPT !.status = "expired"]
                                    ELSE sub[i]]
           /\ Regrouped(ended, t)
           /\ Goes(m, [Resting EXCEPT !.pc = next])
  <2>1. maint' \in [Masters -> Maint] /\ OnTime' /\ Looked'
    <3> DEFINE x == [Resting EXCEPT !.pc = next]
    <3>1. x \in Maint /\ x.at = 0 /\ x.pc \in {"scan", "list"} /\ Goes(m, x)
      BY <1>3 DEF Resting, Maint
    <3> HIDE DEF x
    <3>2. /\ maint' \in [Masters -> Maint] /\ maint'[m] = x
          /\ \A n \in Masters \ {m} : maint'[n] = maint[n]
      BY <1>1, <3>1 DEF Goes
    <3>3. m \in Writers /\ \A v \in Writers \ {m} : copy'[v] = copy[v]
      BY <1>1 DEF Writers
    <3>4. Looked'
      BY <3>1, <3>2, <3>3, LookedStill
    <3> QED BY <1>1, <3>1, <3>2, <3>4 DEF IInv, Parts, OnTime
  <2> HIDE DEF next
  <2>2. \A i \in Ids : i \in ended => Active(i) /\ sub[i].end <= t
    BY DEF Over
  <2>3. \A i \in Ids : /\ sub'[i] \in Sub /\ sub'[i].used = sub[i].used /\ sub[i].used \in Nat
                       /\ sub'[i].plan = sub[i].plan /\ sub'[i].end = sub[i].end
                       /\ sub'[i].status = IF i \in ended THEN "expired" ELSE sub[i].status
                       /\ i \notin ended => sub'[i] = sub[i]
    <3> TAKE i \in Ids
    <3>1. sub[i] \in Sub
      BY <1>1
    <3>2. CASE i \in ended
      <4>1. sub'[i] = [sub[i] EXCEPT !.status = "expired"]
        BY <1>3, <3>2
      <4> QED BY <3>1, <3>2, <4>1 DEF Sub, SubStatus
    <3>3. CASE i \notin ended
      <4>1. sub'[i] = sub[i]
        BY <1>3, <3>3
      <4> QED BY <3>1, <3>3, <4>1 DEF Sub
    <3> QED BY <3>2, <3>3
  <2>4. sub' \in [Ids -> Sub]
    <3>1. sub' = [i \in Ids |-> sub'[i]]
      BY <1>3
    <3> QED BY <2>3, <3>1
  <2>5. \A i \in Ids : /\ sub'[i].used <= sub[i].used
                       /\ ~Exists(i) => sub'[i] = sub[i]
                       /\ Exists(i)' => Exists(i) /\ sub'[i].plan = sub[i].plan
                       /\ Carries(i)' => Carries(i) /\ sub'[i].end = sub[i].end
    BY <2>2, <2>3 DEF Exists, IsRow, Active, Carries, Up
  <2>6. \A i \in Ids : Carries(i)' <=> Carries(i) /\ i \notin ended
    BY <2>2, <2>3 DEF Active, Carries, Up
  <2>7. \A i \in Ids : i \notin ended => ~(Active(i) /\ sub[i].end <= t)
    BY DEF Over
  <2>8. ASSUME NEW i \in Ids, LastExpired(i, ended)
        PROVE  /\ Followed(i) \in Groups
               /\ Explicit => Followed(i) \notin Upgrades
    <3>1. (Up(i) # None \/ Down(i) # None) /\ (sub[i].status = "expired" \/ i \in ended)
      BY <2>8 DEF LastExpired
    <3>2. sub[i].plan \in Plans
      BY <2>2, <3>1 DEF IInv, Parts, Planned, Exists, IsRow, Active
    <3> QED BY <1>1, <3>1, <3>2, FollowedType
  <2>9. ASSUME NEW i \in Ids, Decides(i, ended, t), group' = Followed(i), Explicit
        PROVE  group' \notin Upgrades /\ ~\E j \in Ids : Carries(j)' /\ sub[j].end > now
    <3>1. LastExpired(i, ended) /\ ~\E j \in Ids : Carries(j) /\ sub[j].end > t
      BY <2>9 DEF Decides
    <3>2. \A j \in Ids : sub[j].end \in Nat
      BY <1>1 DEF Sub
    <3> HIDE DEF t, ended
    <3>3. ~\E j \in Ids : Carries(j)' /\ sub[j].end > now
      BY <1>1, <2>6, <3>1, <3>2
    <3> QED BY <2>8, <2>9, <3>1, <3>3
  <2>10. ASSUME ~(\E i \in Ids : Decides(i, ended, t)), NEW x \in Ids, Carries(x)
         PROVE  \E j \in Ids : Carries(j)'
    <3>1. \A j \in Ids : sub[j].end \in Nat
      BY <1>1 DEF Sub
    <3>2. CASE \E j \in Ids : Carries(j) /\ sub[j].end > t
      BY <1>1, <2>2, <2>6, <3>1, <3>2
    <3>3. CASE ~\E j \in Ids : Carries(j) /\ sub[j].end > t
      <4>1. x \in ended /\ Up(x) # None
        BY <1>1, <2>7, <2>10, <3>1, <3>3 DEF Carries
      <4>2. \E i \in Ids : LastExpired(i, ended)
        BY <1>1, <4>1, LastExists
      <4> QED BY <2>10, <3>3, <4>2 DEF Decides
    <3> QED BY <3>2, <3>3
  <2>11. /\ UNCHANGED upsets \/ Upset
         /\ swallowed' \in BOOLEAN /\ (swallowed => swallowed')
         /\ group' \in Groups
         /\ ~swallowed' => \/ \E i \in Ids : Decides(i, ended, t) /\ group' = Followed(i)
                           \/ ~(\E i \in Ids : Decides(i, ended, t)) /\ UNCHANGED group
    <3>1. CASE /\ \/ \E i \in Ids : Decides(i, ended, t) /\ group' = Followed(i)
                  \/ ~(\E i \in Ids : Decides(i, ended, t)) /\ UNCHANGED group
               /\ UNCHANGED <<upsets, swallowed>>
      <4>1. group' \in Groups
        BY <1>1, <2>8, <3>1 DEF Decides
      <4> HIDE DEF ended, t
      <4> QED BY <1>1, <3>1, <4>1
    <3>2. CASE /\ Upset /\ swallowed' = TRUE
               /\ \/ \E i \in Ids : LastExpired(i, ended) /\ group' = Followed(i)
                  \/ UNCHANGED group
      BY <1>1, <2>8, <3>2
    <3> HIDE DEF ended, t
    <3> QED BY <1>3, <3>1, <3>2 DEF Regrouped
  <2>12. ASSUME Explicit, ~swallowed'
         PROVE  \/ /\ group' = group
                   /\ (\E j \in Ids : Carries(j)) => \E j \in Ids : Carries(j)'
                \/ /\ group' \notin Upgrades
                   /\ ~\E j \in Ids : Carries(j)' /\ sub[j].end > now
    <3> HIDE DEF ended, t
    <3> QED BY <2>9, <2>10, <2>11, <2>12
  <2> HIDE DEF ended, t
  <2> QED BY <1>1, <2>1, <2>4, <2>5, <2>11, <2>12, Ended
<1> HIDE DEF ended, next
<1> QED BY <1>2, <1>3 DEF Expire, ended, next

-----------------------------------------------------------------------------
(* The invariant.                                                          *)

LEMMA Initially == Init => IInv
<1> SUFFICES ASSUME Init PROVE IInv
  OBVIOUS
<1>1. Base \in Groups /\ None \notin Groups
  BY PlansAssumption DEF Groups, Upgrades, Downgrades
<1>2. Unborn \in Sub /\ Resting \in Maint
  BY RestingType DEF Unborn, Sub, SubStatus
<1>3. TypeOK
  <2>1. copy \in [Writers -> Copy]
    BY ClosedType DEF Init
  <2>2. req \in [Requests -> Req] /\ maint \in [Masters -> Maint]
    BY <1>2 DEF Init, Req
  <2>3. sub \in [Ids -> Sub] /\ \A i \in Ids : Total > 0 => sub[i].used <= Total
    BY <1>2, PlansAssumption DEF Init, Unborn
  <2>4. /\ now \in 1..(MaxTime + 1) /\ made \in 0..Purchases /\ upsets \in 0..MaxUpsets
        /\ swallowed \in BOOLEAN /\ overtaken = {} /\ paid \subseteq Ids
    <3>1. MaxTime \in Nat /\ Purchases \in Nat /\ MaxUpsets \in Nat
      BY PlansAssumption
    <3>2. now = 1 /\ made = 0 /\ upsets = 0 /\ swallowed = FALSE /\ overtaken = {} /\ paid = {}
      BY DEF Init
    <3>3. swallowed \in BOOLEAN
      BY <3>2
    <3> QED BY <3>1, <3>2, <3>3
  <2>5. /\ order \in [Ids -> {"none", "pending", "success", "expired"}]
        /\ callback \in [Ids -> SUBSET Nodes] /\ group \in Groups /\ periodic \subseteq Plans
    BY <1>1 DEF Init
  <2>6. overtaken \subseteq Writers \X Ids
    BY <2>4
  <2> QED BY <2>1, <2>2, <2>3, <2>4, <2>5, <2>6 DEF TypeOK
<1>4. CreditedOnce
  BY FS_EmptySet DEF Init, CreditedOnce
<1>5. Parts
  <2>1. Blank /\ OnTime /\ Planned /\ Recorded /\ Aimed
    BY <1>2, RestingType DEF Init, Blank, OnTime, Planned, Recorded, Aimed, Exists, IsRow, Unborn
  <2>2. Held
    <3>1. \A w \in Writers : copy[w] = Closed
      BY DEF Init
    <3>2. Total \in Nat
      BY PlansAssumption
    <3> HIDE DEF Closed
    <3> QED BY <3>1, <3>2, ClosedType DEF Held, Init
  <2>3. Looked
    BY DEF Init, Looked, Resting
  <2> QED BY <2>1, <2>2, <2>3 DEF Parts
<1>6. GroupFollows
  BY DEF Init, GroupFollows, Carries, Active, Unborn, Elevated, Explicit
<1> QED BY <1>3, <1>4, <1>5, <1>6 DEF IInv

LEMMA Stays == IInv /\ [Next]_vars => IInv'
<1> SUFFICES ASSUME IInv, [Next]_vars PROVE IInv'
  OBVIOUS
<1>1. CASE UNCHANGED vars
  <2>1. UNCHANGED <<now, order, callback, paid, made, sub, overtaken, group, swallowed, periodic,
                    req, maint, copy, upsets>>
    BY <1>1 DEF vars, orders, rows, users
  <2>2. now' >= now /\ TypeOK'
    BY <2>1, PlansAssumption DEF IInv, TypeOK
  <2>3. OnTime' /\ Held' /\ Looked' /\ Aimed'
    BY <2>1 DEF IInv, Parts, OnTime, Held, Looked, Aimed, IsRow
  <2> QED BY <2>1, <2>2, <2>3, Quietly
<1>2. CASE Tick \/ \E p \in Plans : EditPlan(p)
  BY <1>2, ClockStep
<1>3. ASSUME NEW i \in Ids, Purchase(i) \/ AdminInvalidate(i) \/ AdminDelete(i) PROVE IInv'
  BY <1>3, PurchaseStep, TakenAway
<1>4. ASSUME NEW q \in Requests, Request(q) PROVE IInv'
  BY <1>4, RequestReads, PreConsumeStep, SettleStep, RequestEnds, RefundStep DEF Request
<1>5. ASSUME NEW m \in Masters, Maintenance(m) PROVE IInv'
  BY <1>5, MasterLists, ExpireStep, ResetPlanStep, ResetReadStep, ResetStep DEF Maintenance
<1> QED BY <1>1, <1>2, <1>3, <1>4, <1>5 DEF Next

\* The strengthened invariant of every execution.
THEOREM Inductive == Spec => []IInv
BY Initially, Stays, PTL DEF Spec

\* The types, and that no subscription is ever used beyond its total, whatever
\* estimates, settlements, refunds and resets meet.
THEOREM TypeCorrect == Spec => []TypeOK
<1>1. IInv => TypeOK
  BY DEF IInv
<1> QED BY <1>1, Inductive, PTL

\* Where transactions read a snapshot a purchase is credited once, for any number
\* of nodes that take its callbacks, whatever overlaps and expires.
THEOREM PurchasesCreditedOnce == Spec => []CreditedOnce
<1>1. IInv => CreditedOnce
  BY DEF IInv
<1> QED BY <1>1, Inductive, PTL

\* Under explicit plans the group follows the subscriptions, for any number of
\* them and of masters that end them, as long as no changed row is overwritten
\* and no query fails unnoticed.
THEOREM GroupsFollow == Spec => []GroupFollows
<1>1. IInv => GroupFollows
  BY DEF IInv
<1> QED BY <1>1, Inductive, PTL

-----------------------------------------------------------------------------
(* What the requests owe.                                                  *)

\* The requests r have made of subscription i, and the units a set of them owes.
Of(r, i) == {x \in Requests : r[x].sub = i}

Units(r, S) == UNION {{q} \X (1..r[q].owes) : q \in S}

\* What a request owes follows from where it is.
Charges == \A q \in Requests :
              /\ req[q].pc = "new" => req[q].sub = 0
              /\ req[q].pc = "held" => req[q].owes = req[q].amount
              /\ req[q].pc = "refund" => req[q].owes \in {0, req[q].amount}
              /\ req[q].pc = "mark" => req[q].owes = 0

OInv == Charges /\ NeverOvercharged

LEMMA OwedUnits ==
    ASSUME NEW i
    PROVE  Owed(i) = Units(req, Of(req, i)) /\ Owed(i)' = Units(req', Of(req', i))
BY DEF Owed, Units, Of

LEMMA UnitsFinite ==
    ASSUME NEW r \in [Requests -> Req], NEW S \in SUBSET Requests
    PROVE  IsFiniteSet(Units(r, S)) /\ Cardinality(Units(r, S)) \in Nat
<1> DEFINE own(q) == {q} \X (1..r[q].owes)
<1>1. IsFiniteSet(S)
  BY RequestsAssumption, FS_Subset
<1>2. \A q \in S : IsFiniteSet(own(q))
  <2> TAKE q \in S
  <2>1. r[q].owes \in Nat
    BY DEF Req
  <2>2. IsFiniteSet(1..r[q].owes)
    BY <2>1, FS_Interval
  <2>3. IsFiniteSet({q})
    BY FS_Singleton
  <2> QED BY <2>2, <2>3, FS_Product
<1> HIDE DEF own
<1>3. IsFiniteSet({own(q) : q \in S})
  <2> DEFINE f == [q \in S |-> own(q)]
  <2>1. f \in Surjection(S, {own(q) : q \in S})
    BY DEF Surjection
  <2> QED BY <1>1, <2>1, FS_Surjection
<1>4. IsFiniteSet(UNION {own(q) : q \in S})
  BY <1>2, <1>3, FS_UNION
<1> QED BY <1>4, FS_CardinalityType DEF Units, own

\* A request more owes its units more.
LEMMA UnitsAdd ==
    ASSUME NEW r \in [Requests -> Req], NEW S \in SUBSET Requests, NEW q \in Requests \ S
    PROVE  Cardinality(Units(r, S \cup {q})) = Cardinality(Units(r, S)) + r[q].owes
<1> DEFINE own == {q} \X (1..r[q].owes)
<1>1. Units(r, S \cup {q}) = Units(r, S) \cup own
  BY DEF Units
<1>2. Units(r, S) \cap own = {}
  BY DEF Units
<1>3. r[q].owes \in Nat
  BY DEF Req
<1>4. IsFiniteSet(own) /\ Cardinality(own) = r[q].owes
  <2>1. IsFiniteSet(1..r[q].owes) /\ Cardinality(1..r[q].owes) = r[q].owes
    BY <1>3, FS_Interval
  <2>2. IsFiniteSet({q}) /\ Cardinality({q}) = 1
    BY FS_Singleton
  <2> QED BY <1>3, <2>1, <2>2, FS_Product
<1>5. IsFiniteSet(Units(r, S)) /\ Cardinality(Units(r, S)) \in Nat
  BY UnitsFinite
<1>6. Cardinality({}) = 0
  BY FS_EmptySet
<1> HIDE DEF own
<1>7. Cardinality(Units(r, S) \cup own)
        = Cardinality(Units(r, S)) + Cardinality(own) - Cardinality(Units(r, S) \cap own)
  BY <1>4, <1>5, FS_Union
<1>8. Cardinality(Units(r, S \cup {q})) = Cardinality(Units(r, S)) + Cardinality(own) - 0
  BY <1>1, <1>2, <1>6, <1>7
<1> QED BY <1>3, <1>4, <1>5, <1>8

\* One request changes: what is owed to i changes by what that request owes.
LEMMA OneRequest ==
    ASSUME NEW r \in [Requests -> Req], NEW s \in [Requests -> Req], NEW q \in Requests,
           \A x \in Requests \ {q} : s[x] = r[x], NEW i
    PROVE  \E n \in Nat :
              /\ Cardinality(Units(r, Of(r, i))) = n + (IF r[q].sub = i THEN r[q].owes ELSE 0)
              /\ Cardinality(Units(s, Of(s, i))) = n + (IF s[q].sub = i THEN s[q].owes ELSE 0)
<1> DEFINE S == Of(r, i) \ {q}
           n == Cardinality(Units(r, S))
<1>1. S \in SUBSET Requests /\ q \in Requests \ S
  BY DEF Of
<1>2. S = Of(s, i) \ {q} /\ Units(s, S) = Units(r, S)
  BY DEF Of, Units
<1>3. n \in Nat
  BY <1>1, UnitsFinite
<1>4. ASSUME NEW t \in {r, s}
      PROVE  Cardinality(Units(t, Of(t, i))) = n + (IF t[q].sub = i THEN t[q].owes ELSE 0)
  <2>1. t \in [Requests -> Req] /\ S = Of(t, i) \ {q} /\ Units(t, S) = Units(r, S)
    BY <1>2
  <2> HIDE DEF S
  <2>2. CASE t[q].sub = i
    <3>1. Of(t, i) = S \cup {q}
      BY <2>1, <2>2 DEF Of
    <3>2. Cardinality(Units(t, S \cup {q})) = Cardinality(Units(t, S)) + t[q].owes
      BY <1>1, <2>1, UnitsAdd
    <3> QED BY <2>1, <2>2, <3>1, <3>2
  <2>3. CASE t[q].sub # i
    <3>1. Of(t, i) = S
      BY <2>1, <2>3 DEF Of
    <3> QED BY <1>3, <2>1, <2>3, <3>1
  <2> QED BY <2>2, <2>3
<1> HIDE DEF n, S
<1> QED BY <1>3, <1>4

LEMMA Written ==
    ASSUME NEW w, NEW S, NEW s, Saves(w, S, s), NEW i \in Ids
    PROVE  /\ i \in S => sub'[i] = s[i]
           /\ i \notin S => sub'[i] = sub[i]
BY DEF Saves

\* What w writes and has not changed since it was read.
LEMMA Overwrites ==
    ASSUME NEW w, NEW S, NEW s, Saves(w, S, s), NEW i \in Ids
    PROVE  /\ overtaken \subseteq overtaken'
           /\ i \in S /\ <<w, i>> \notin overtaken' => copy[w].rows[i] = sub[i]
<1> DEFINE Z == {j \in S : copy[w].rows[j] # sub[j]}
<1>1. overtaken' = overtaken \cup {w} \X Z
  BY DEF Saves
<1>2. i \in S /\ copy[w].rows[i] # sub[i] => i \in Z
  OBVIOUS
<1> HIDE DEF Z
<1>3. i \in Z => <<w, i>> \in {w} \X Z
  OBVIOUS
<1>4. overtaken \subseteq overtaken' /\ {w} \X Z \subseteq overtaken'
  BY <1>1
<1> QED BY <1>1, <1>2, <1>3, <1>4

\* No request changes and no usage rises.
LEMMA NothingOwed ==
    ASSUME IInv, OInv, UNCHANGED req, overtaken \subseteq overtaken',
           \A i \in Ids : sub'[i].used \in Nat /\ sub'[i].used <= sub[i].used
    PROVE  OInv'
<1>1. Charges'
  BY DEF OInv, Charges
<1>2. ASSUME NEW i \in Ids, \A q \in Requests : <<q, i>> \notin overtaken'
      PROVE  sub'[i].used <= Cardinality(Owed(i)')
  <2>1. Owed(i)' = Owed(i) /\ req \in [Requests -> Req]
    BY DEF Owed, IInv, TypeOK
  <2>2. Cardinality(Owed(i)) \in Nat
    BY <2>1, OwedUnits, UnitsFinite DEF Of
  <2>3. sub[i].used \in Nat
    BY DEF IInv, TypeOK, Sub
  <2>4. sub[i].used <= Cardinality(Owed(i))
    BY <1>2 DEF OInv, NeverOvercharged
  <2> QED BY <2>1, <2>2, <2>3, <2>4
<1> QED BY <1>1, <1>2 DEF OInv, NeverOvercharged

\* Request q changes; where it overwrites nothing that has changed, the usage of
\* its subscription follows what it owes and that of the others does not rise.
LEMMA OwedByOne ==
    ASSUME IInv, OInv, IInv', Charges', NEW q \in Requests, NEW k \in Ids \cup {0},
           \A x \in Requests \ {q} : req'[x] = req[x],
           req[q].sub \in {0, k}, req'[q].sub = k, overtaken \subseteq overtaken',
           \A i \in Ids \ {k} : <<q, i>> \notin overtaken' => sub'[i].used <= sub[i].used,
           \A n \in Nat : (/\ k \in Ids /\ <<q, k>> \notin overtaken'
                           /\ sub[k].used <= n + (IF req[q].sub = k THEN req[q].owes ELSE 0))
                              => sub'[k].used <= n + req'[q].owes
    PROVE  OInv'
<1>1. req \in [Requests -> Req] /\ req' \in [Requests -> Req] /\ 0 \notin Ids
  BY PlansAssumption DEF IInv, TypeOK, Ids
<1>2. ASSUME NEW i \in Ids, \A x \in Requests : <<x, i>> \notin overtaken'
      PROVE  sub'[i].used <= Cardinality(Owed(i)')
  <2>1. PICK n \in Nat :
          /\ Cardinality(Owed(i)) = n + (IF req[q].sub = i THEN req[q].owes ELSE 0)
          /\ Cardinality(Owed(i)') = n + (IF req'[q].sub = i THEN req'[q].owes ELSE 0)
    BY <1>1, OneRequest, OwedUnits
  <2>2. sub[i].used <= Cardinality(Owed(i)) /\ <<q, i>> \notin overtaken'
    BY <1>2 DEF OInv, NeverOvercharged
  <2>3. CASE i = k
    BY <2>1, <2>2, <2>3
  <2>4. CASE i # k
    <3>1. sub[i].used \in Nat /\ sub'[i].used \in Nat
      BY DEF IInv, TypeOK, Sub
    <3> QED BY <1>1, <2>1, <2>2, <2>4, <3>1
  <2> QED BY <2>3, <2>4
<1> QED BY <1>2 DEF OInv, NeverOvercharged

\* A settlement lowers or raises the usage by what the request owes now and
\* owed before.
LEMMA PostedUsage ==
    ASSUME IInv, NEW q \in Requests, NEW was \in Nat, NEW is \in Nat, NEW s,
           Posting(q, was, is, s)
    PROVE  /\ req[q].sub \in Ids /\ overtaken \subseteq overtaken'
           /\ \A i \in Ids \ {req[q].sub} : sub'[i] = sub[i]
           /\ <<q, req[q].sub>> \notin overtaken' =>
                 \A n \in Nat : sub[req[q].sub].used <= n + was => sub'[req[q].sub].used <= n + is
<1> DEFINE k == req[q].sub
<1>1. \A i \in Ids : sub[i].used \in Nat
  BY DEF IInv, TypeOK, Sub
<1>2. /\ k \in Ids /\ Saves(q, {k}, s)
      /\ s[k].used = NewUsed(copy[q].rows[k], was, is)
  BY DEF Posting
<1> HIDE DEF k
<1>3. \A i \in Ids \ {k} : sub'[i] = sub[i]
  BY <1>2, Written
<1>4. ASSUME NEW n \in Nat, <<q, k>> \notin overtaken', sub[k].used <= n + was
      PROVE  sub'[k].used <= n + is
  <2>1. sub'[k].used = NewUsed(sub[k], was, is)
    BY <1>2, <1>4, Written, Overwrites
  <2>2. sub[k].used \in Nat
    BY <1>1, <1>2
  <2> QED BY <1>4, <2>1, <2>2 DEF NewUsed
<1>5. overtaken \subseteq overtaken'
  BY <1>2 DEF Saves
<1> QED BY <1>2, <1>3, <1>4, <1>5 DEF k

LEMMA PreConsumeOwes ==
    ASSUME IInv, OInv, IInv', NEW q \in Requests, PreConsume(q)
    PROVE  OInv'
<1>1. req \in [Requests -> Req] /\ q \in Writers /\ 0 \notin Ids
  BY PlansAssumption DEF IInv, TypeOK, Writers, Ids
<1>2. req[q] \in Req /\ req[q].pc = "new" /\ req[q].sub = 0
  BY <1>1 DEF PreConsume, OInv, Charges
<1>3. CASE /\ req' = [req EXCEPT ![q].pc = "done"]
           /\ UNCHANGED <<sub, overtaken>>
  <2>1. /\ req'[q].pc = "done" /\ req'[q].sub = 0 /\ req'[q].owes = req[q].owes
        /\ \A x \in Requests \ {q} : req'[x] = req[x]
    BY <1>1, <1>2, <1>3 DEF Req
  <2>2. Charges'
    BY <2>1 DEF OInv, Charges
  <2>3. \A i \in Ids \ {0} : sub'[i].used <= sub[i].used
    BY <1>3 DEF IInv, TypeOK, Sub
  <2> QED BY <1>1, <1>2, <1>3, <2>1, <2>2, <2>3, OwedByOne
<1>4. ASSUME NEW a \in Amounts, NEW k \in Ids, NEW S \in SUBSET Ids, NEW s,
             Charging(q, a, k, S, s)
      PROVE  OInv'
  <2>1. /\ a \in Nat /\ k \in S /\ Saves(q, S, s)
        /\ \A j \in S : s[j].used = Renewed(q, j).used + (IF j = k THEN a ELSE 0)
        /\ req' = [req EXCEPT ![q] = [@ EXCEPT !.pc = "held", !.sub = k, !.amount = a, !.owes = a]]
    BY <1>4, PlansAssumption DEF Charging
  <2>2. /\ req'[q].pc = "held" /\ req'[q].sub = k /\ req'[q].owes = a /\ req'[q].amount = a
        /\ \A x \in Requests \ {q} : req'[x] = req[x]
    BY <1>1, <1>2, <2>1 DEF Req
  <2>3. Charges'
    BY <2>2 DEF OInv, Charges
  <2>4. \A j \in Ids : /\ Renewed(q, j).used \in Nat /\ copy[q].rows[j].used \in Nat
                       /\ Renewed(q, j).used <= copy[q].rows[j].used /\ sub[j].used \in Nat
    BY <1>1, RenewedRow DEF Renewed, IInv, TypeOK, Sub
  <2>5. \A j \in Ids : <<q, j>> \notin overtaken' =>
                          sub'[j].used <= sub[j].used + (IF j = k THEN a ELSE 0)
    <3> SUFFICES ASSUME NEW j \in Ids, <<q, j>> \notin overtaken'
                 PROVE  sub'[j].used <= sub[j].used + (IF j = k THEN a ELSE 0)
      OBVIOUS
    <3>1. CASE j \in S
      <4>1. sub'[j] = s[j] /\ copy[q].rows[j] = sub[j]
        BY <2>1, <3>1, Written, Overwrites
      <4> QED BY <2>1, <2>4, <3>1, <4>1
    <3>2. CASE j \notin S
      <4>1. sub'[j] = sub[j] /\ j # k
        BY <2>1, <3>2, Written
      <4> QED BY <2>4, <4>1
    <3> QED BY <3>1, <3>2
  <2>6. overtaken \subseteq overtaken'
    BY <2>1, Overwrites
  <2>7. \A i \in Ids \ {k} : <<q, i>> \notin overtaken' => sub'[i].used <= sub[i].used
    BY <2>4, <2>5
  <2>8. \A n \in Nat : (/\ k \in Ids /\ <<q, k>> \notin overtaken'
                        /\ sub[k].used <= n + (IF req[q].sub = k THEN req[q].owes ELSE 0))
                           => sub'[k].used <= n + req'[q].owes
    <3> SUFFICES ASSUME NEW n \in Nat, <<q, k>> \notin overtaken', sub[k].used <= n + 0
                 PROVE  sub'[k].used <= n + a
      BY <1>1, <1>2, <2>2
    <3>1. sub'[k].used <= sub[k].used + a
      BY <2>5
    <3>2. sub'[k].used \in Nat
      BY DEF IInv, TypeOK, Sub
    <3> QED BY <2>1, <2>4, <3>1, <3>2
  <2> QED BY <1>1, <1>2, <2>2, <2>3, <2>6, <2>7, <2>8, OwedByOne
<1> QED BY <1>3, <1>4, PreConsumed

\* A step of q that leaves the subscriptions alone and owes no less.
LEMMA OwesStill ==
    ASSUME IInv, OInv, IInv', NEW q \in Requests, UNCHANGED <<sub, overtaken>>, NEW r \in Req,
           req' = [req EXCEPT ![q] = r], r.sub = req[q].sub, r.owes = req[q].owes,
           r.pc \in {"refund", "done"}, r.pc = "refund" => r.owes \in {0, r.amount}
    PROVE  OInv'
<1>1. req \in [Requests -> Req] /\ sub \in [Ids -> Sub] /\ req[q].sub \in Ids \cup {0}
  BY DEF IInv, TypeOK, Req
<1>2. req'[q] = r /\ \A x \in Requests \ {q} : req'[x] = req[x]
  BY <1>1
<1>3. Charges'
  BY <1>2 DEF OInv, Charges
<1>4. \A i \in Ids : sub'[i].used \in Nat /\ sub'[i].used <= sub[i].used
  BY <1>1 DEF Sub
<1>5. \A n \in Nat : (req[q].sub \in Ids /\ sub[req[q].sub].used <= n + req[q].owes)
                         => sub'[req[q].sub].used <= n + req'[q].owes
  BY <1>2
<1> QED BY <1>1, <1>2, <1>3, <1>4, <1>5, OwedByOne

\* Request q pays what it owes from now on instead of what it owed.
LEMMA PostOwes ==
    ASSUME IInv, OInv, IInv', NEW q \in Requests, req[q].pc \in {"held", "refund"},
           NEW was \in Nat, NEW is \in Nat, PostConsume(q, was, is), req[q].owes <= was,
           NEW r \in Req, req' = [req EXCEPT ![q] = r], r.sub = req[q].sub, r.owes = is,
           r.pc = "done" \/ (r.pc = "mark" /\ is = 0)
    PROVE  OInv'
<1> DEFINE k == req[q].sub
<1>1. PICK s : Posting(q, was, is, s)
  BY Posted
<1>2. /\ k \in Ids /\ overtaken \subseteq overtaken'
      /\ \A i \in Ids \ {k} : sub'[i] = sub[i]
      /\ <<q, k>> \notin overtaken' =>
            \A n \in Nat : sub[k].used <= n + was => sub'[k].used <= n + is
  BY <1>1, PostedUsage
<1>3. req \in [Requests -> Req] /\ req[q].owes \in Nat /\ \A i \in Ids : sub[i].used \in Nat
  BY DEF IInv, TypeOK, Req, Sub
<1>4. req'[q] = r /\ \A x \in Requests \ {q} : req'[x] = req[x]
  BY <1>3
<1>5. Charges'
  BY <1>4 DEF OInv, Charges
<1>6. k \in Ids \cup {0} /\ req[q].sub = k /\ req'[q].sub = k
  BY <1>2, <1>4
<1> HIDE DEF k
<1>7. \A n \in Nat : (/\ k \in Ids /\ <<q, k>> \notin overtaken'
                      /\ sub[k].used <= n + (IF req[q].sub = k THEN req[q].owes ELSE 0))
                         => sub'[k].used <= n + req'[q].owes
  <2> SUFFICES ASSUME NEW n \in Nat, <<q, k>> \notin overtaken', sub[k].used <= n + req[q].owes
               PROVE  sub'[k].used <= n + is
    BY <1>4, <1>6
  <2>1. sub[k].used <= n + was
    BY <1>2, <1>3
  <2> QED BY <1>2, <2>1
<1>8. \A i \in Ids \ {k} : sub'[i].used <= sub[i].used
  BY <1>2, <1>3
<1> QED BY <1>2, <1>4, <1>5, <1>6, <1>7, <1>8, OwedByOne

LEMMA SettleOwes ==
    ASSUME IInv, OInv, IInv', NEW q \in Requests, Settle(q)
    PROVE  OInv'
<1>1. /\ req[q] \in Req /\ req[q].owes \in Nat /\ req[q].amount \in Nat /\ TypeOK
      /\ req[q].pc = "held" /\ req[q].owes = req[q].amount
  BY DEF IInv, TypeOK, Req, Settle, OInv, Charges
<1>2. PICK a \in Actuals :
        \/ /\ PostConsume(q, req[q].amount, a)
           /\ req' = [req EXCEPT ![q] = Done(q, a)]
        \/ /\ PostFails(q, req[q].amount, a)
           /\ req' = [req EXCEPT ![q] = Done(q, req[q].owes)]
        \/ /\ a = req[q].amount
           /\ req' = [req EXCEPT ![q] = Done(q, a)]
           /\ UNCHANGED <<sub, overtaken>>
  BY DEF Settle
<1>3. \A n \in Nat : /\ Done(q, n) \in Req /\ Done(q, n).pc = "done" /\ Done(q, n).owes = n
                     /\ Done(q, n).sub = req[q].sub
  BY <1>1, DoneType DEF Done
<1>4. a \in Nat
  BY PlansAssumption
<1> HIDE DEF Done
<1>5. CASE /\ PostConsume(q, req[q].amount, a)
           /\ req' = [req EXCEPT ![q] = Done(q, a)]
  <2>1. /\ Done(q, a) \in Req /\ Done(q, a).pc = "done" /\ Done(q, a).owes = a
        /\ Done(q, a).sub = req[q].sub /\ req[q].owes <= req[q].amount
    BY <1>1, <1>3, <1>4
  <2> QED BY <1>1, <1>4, <1>5, <2>1, PostOwes
<1>6. CASE /\ PostFails(q, req[q].amount, a)
           /\ req' = [req EXCEPT ![q] = Done(q, req[q].owes)]
  BY <1>1, <1>3, <1>6, OwesStill DEF PostFails
<1>7. CASE /\ a = req[q].amount
           /\ req' = [req EXCEPT ![q] = Done(q, a)]
           /\ UNCHANGED <<sub, overtaken>>
  BY <1>1, <1>3, <1>4, <1>7, OwesStill
<1> QED BY <1>2, <1>5, <1>6, <1>7

LEMMA AgainOwes ==
    ASSUME IInv, OInv, IInv', NEW q \in Requests, req[q].pc \in {"refund", "mark"},
           UNCHANGED <<sub, overtaken>>, req' = [req EXCEPT ![q] = Again(q)]
    PROVE  OInv'
<1>1. req \in [Requests -> Req] /\ req[q] \in Req /\ TypeOK
  BY DEF IInv, TypeOK
<1>2. Again(q) \in Req
  BY <1>1, AgainType
<1>3. /\ Again(q).sub = req[q].sub /\ Again(q).owes = req[q].owes
      /\ \/ Again(q).pc = "done"
         \/ Again(q).pc = "refund" /\ Again(q).amount = req[q].amount
  BY <1>1 DEF Again, Done, Req
<1>4. req[q].owes \in {0, req[q].amount}
  BY DEF OInv, Charges
<1> HIDE DEF Again
<1> QED BY <1>2, <1>3, <1>4, OwesStill

LEMMA RefundOwes ==
    ASSUME IInv, OInv, IInv', NEW q \in Requests, RefundDelta(q)
    PROVE  OInv'
<1>1. /\ req[q] \in Req /\ req[q].owes \in Nat /\ req[q].amount \in Nat
      /\ req[q].pc = "refund" /\ req[q].owes \in {0, req[q].amount}
  BY DEF IInv, TypeOK, Req, RefundDelta, OInv, Charges
<1>2. CASE PostFails(q, req[q].amount, 0) /\ req' = [req EXCEPT ![q] = Again(q)]
  BY <1>1, <1>2, AgainOwes DEF PostFails
<1>3. CASE /\ PostConsume(q, req[q].amount, 0)
           /\ req' = [req EXCEPT ![q] = [@ EXCEPT !.pc = "mark", !.owes = 0]]
  <2> DEFINE r == [req[q] EXCEPT !.pc = "mark", !.owes = 0]
  <2>1. r \in Req /\ r.sub = req[q].sub /\ r.owes = 0 /\ r.pc = "mark" /\ req' = [req EXCEPT ![q] = r]
    BY <1>1, <1>3 DEF Req
  <2>2. req[q].owes <= req[q].amount /\ 0 \in Nat
    BY <1>1
  <2> HIDE DEF r
  <2> QED BY <1>1, <1>3, <2>1, <2>2, PostOwes
<1> QED BY <1>2, <1>3 DEF RefundDelta

LEMMA EndingOwes ==
    ASSUME IInv, OInv, IInv', NEW q \in Requests, Abort(q) \/ RefundMark(q)
    PROVE  OInv'
<1>1. req \in [Requests -> Req] /\ req[q] \in Req /\ req[q].owes \in Nat /\ TypeOK
  BY DEF IInv, TypeOK, Req
<1>2. CASE Abort(q)
  <2> DEFINE r == [req[q] EXCEPT !.pc = "refund"]
  <2>1. /\ r \in Req /\ r.sub = req[q].sub /\ r.owes = req[q].owes /\ r.amount = req[q].amount
        /\ r.pc = "refund"
    BY <1>1 DEF Req
  <2>2. /\ req[q].owes = req[q].amount /\ req' = [req EXCEPT ![q] = r]
        /\ UNCHANGED <<sub, overtaken>>
    BY <1>1, <1>2 DEF Abort, OInv, Charges, rows
  <2> HIDE DEF r
  <2> QED BY <2>1, <2>2, OwesStill
<1>3. CASE RefundMark(q)
  <2>1. req[q].pc = "mark" /\ req[q].owes = 0 /\ UNCHANGED <<sub, overtaken>>
    BY <1>3 DEF RefundMark, OInv, Charges, rows
  <2>2. CASE req' = [req EXCEPT ![q] = Again(q)]
    BY <2>1, <2>2, AgainOwes
  <2>3. CASE req' = [req EXCEPT ![q] = Done(q, req[q].owes)]
    <3>1. Done(q, req[q].owes) \in Req
      BY <1>1, DoneType
    <3>2. /\ Done(q, req[q].owes).sub = req[q].sub /\ Done(q, req[q].owes).owes = req[q].owes
          /\ Done(q, req[q].owes).pc = "done"
      BY DEF Done
    <3> HIDE DEF Done
    <3> QED BY <2>1, <2>3, <3>1, <3>2, OwesStill
  <2> QED BY <1>3, <2>2, <2>3 DEF RefundMark
<1> QED BY <1>2, <1>3

\* What a master writes raises no usage.
LEMMA ResetLowers ==
    ASSUME IInv, NEW m \in Masters, Reset(m), NEW i \in Ids
    PROVE  sub'[i].used <= sub[i].used
<1>1. sub[i].used \in Nat
  BY DEF IInv, TypeOK, Sub
<1>2. ASSUME NEW S \in SUBSET Ids, NEW s, Starting(m, S, s)
      PROVE  sub'[i].used <= sub[i].used
  <2>1. (i \in S => sub'[i] = s[i]) /\ (i \notin S => sub'[i] = sub[i])
    BY <1>2, Written DEF Starting
  <2>2. i \in S => sub'[i].used = 0
    BY <1>2, <2>1 DEF Starting
  <2> QED BY <1>1, <2>1, <2>2
<1>3. CASE UNCHANGED sub
  BY <1>1, <1>3
<1>4. UNCHANGED sub \/ \E S \in SUBSET Ids : \E s : Starting(m, S, s)
  BY ResetWrites
<1> QED BY <1>2, <1>3, <1>4

\* What is done to the rows outside requests raises no usage.
LEMMA NoChargeElsewhere ==
    ASSUME IInv, Next, ~\E q \in Requests : Request(q)
    PROVE  /\ UNCHANGED req /\ overtaken \subseteq overtaken'
           /\ \A i \in Ids : sub'[i].used <= sub[i].used
<1>1. /\ sub \in [Ids -> Sub] /\ made \in Nat /\ Blank
      /\ \A i \in Ids : sub[i] \in Sub /\ sub[i].used \in Nat
  BY DEF IInv, TypeOK, Sub, Parts
<1>2. CASE Tick \/ \E p \in Plans : EditPlan(p)
  BY <1>1, <1>2 DEF Tick, EditPlan, rows
<1>3. ASSUME NEW o \in Ids, Purchase(o)
      PROVE  /\ UNCHANGED <<req, overtaken>> /\ \A i \in Ids : sub'[i].used <= sub[i].used
  <2>1. CASE Create(PlanOf[o])
    <3>1. \A i \in Ids : sub'[i] = sub[i] \/ sub'[i].used = 0
      BY <1>1, <2>1 DEF Create
    <3> QED BY <1>1, <2>1, <3>1 DEF Create
  <2>2. CASE UNCHANGED <<rows, req>>
    BY <1>1, <2>2 DEF rows
  <2> QED BY <1>3, <2>1, <2>2 DEF Purchase, PlaceOrder, Grant, ReadOrder, CompleteSubscriptionOrder,
                                  ExpireSubscriptionOrder
<1>4. ASSUME NEW j \in Ids, AdminInvalidate(j) \/ AdminDelete(j)
      PROVE  UNCHANGED <<req, overtaken>> /\ \A i \in Ids : sub'[i].used <= sub[i].used
  <2>1. UNCHANGED <<req, overtaken>>
    BY <1>4 DEF AdminInvalidate, AdminDelete
  <2>2. \A i \in Ids : sub'[i].used \in {0, sub[i].used}
    BY <1>1, <1>4 DEF AdminInvalidate, AdminDelete, Unborn, Sub
  <2> QED BY <1>1, <2>1, <2>2
<1>5. ASSUME NEW m \in Masters, Maintenance(m)
      PROVE  /\ UNCHANGED req /\ overtaken \subseteq overtaken'
             /\ \A i \in Ids : sub'[i].used <= sub[i].used
  <2>1. CASE UNCHANGED <<rows, req>>
    BY <1>1, <2>1 DEF rows
  <2>2. CASE Expire(m)
    <3> DEFINE ended == Over(maint[m].at)
    <3>1. UNCHANGED <<req, overtaken>>
      BY <2>2 DEF Expire
    <3>2. \/ sub' = [k \in Ids |-> IF k \in ended THEN [sub[k] EXCEPT !.status = "expired"]
                                   ELSE sub[k]]
          \/ UNCHANGED sub
      BY <2>2 DEF Expire
    <3> HIDE DEF ended
    <3>3. \A i \in Ids : sub'[i] = [sub[i] EXCEPT !.status = "expired"] \/ sub'[i] = sub[i]
      BY <3>2
    <3>4. \A i \in Ids : sub'[i].used = sub[i].used
      BY <1>1, <3>3 DEF Sub
    <3> QED BY <1>1, <3>1, <3>4
  <2>3. CASE Reset(m)
    <3>1. UNCHANGED req /\ \A i \in Ids : sub'[i].used <= sub[i].used
      BY <2>3, ResetLowers DEF Reset
    <3>2. overtaken \subseteq overtaken'
      BY <2>3, ResetWrites DEF Starting, Saves
    <3> QED BY <3>1, <3>2
  <2> QED BY <1>5, <2>1, <2>2, <2>3 DEF Maintenance, ExpireScan, ResetList, ResetPlan, ResetRead, ResetDone
<1> QED BY <1>2, <1>3, <1>4, <1>5 DEF Next

LEMMA OwedStays == IInv /\ OInv /\ IInv' /\ [Next]_vars => OInv'
<1> SUFFICES ASSUME IInv, OInv, IInv', [Next]_vars PROVE OInv'
  OBVIOUS
<1>1. \A i \in Ids : sub[i].used \in Nat /\ sub'[i].used \in Nat
  BY DEF IInv, TypeOK, Sub
<1>2. CASE UNCHANGED vars \/ \E q \in Requests : Read(q)
  <2>1. UNCHANGED <<req, sub, overtaken>>
    BY <1>2 DEF vars, rows, Read
  <2> QED BY <1>1, <2>1, NothingOwed
<1>3. ASSUME NEW q \in Requests, Request(q), ~Read(q) PROVE OInv'
  BY <1>3, PreConsumeOwes, SettleOwes, EndingOwes, RefundOwes DEF Request
<1>4. CASE Next /\ ~\E q \in Requests : Request(q)
  <2>1. /\ UNCHANGED req /\ overtaken \subseteq overtaken'
        /\ \A i \in Ids : sub'[i].used <= sub[i].used
    BY <1>4, NoChargeElsewhere
  <2> QED BY <1>1, <2>1, NothingOwed
<1> QED BY <1>2, <1>3, <1>4

LEMMA NothingOwedYet == Init => OInv
<1> SUFFICES ASSUME Init PROVE OInv
  OBVIOUS
<1>1. Charges
  BY DEF Init, Charges
<1>2. ASSUME NEW i \in Ids PROVE sub[i].used <= Cardinality(Owed(i))
  <2>1. req \in [Requests -> Req] /\ sub[i].used = 0
    BY Initially DEF Init, IInv, TypeOK, Unborn
  <2>2. Cardinality(Owed(i)) \in Nat
    BY <2>1, OwedUnits, UnitsFinite DEF Of
  <2> QED BY <2>1, <2>2
<1> QED BY <1>1, <1>2 DEF OInv, NeverOvercharged

\* No subscription shows more usage than its requests owe, for any number of
\* requests that overwrite no row that has changed, whatever they estimate and
\* cost, however often a refund is tried again, and whatever masters overwrite.
THEOREM NobodyOvercharged == Spec => []NeverOvercharged
<1>1. Spec => []OInv
  BY NothingOwedYet, OwedStays, Inductive, PTL DEF Spec
<1>2. OInv => NeverOvercharged
  BY DEF OInv
<1> QED BY <1>1, <1>2, PTL

-----------------------------------------------------------------------------
(* Resets.                                                                 *)

\* A new period is behind the usage of i that went down.
NewPeriod(i) == sub'[i].last >= sub[i].last + Period /\ sub'[i].last <= now

OwnRequest(i) == \E q \in Requests : req[q].sub = i /\ req'[q] # req[q]

OldCopy(i) == \E w \in Writers : Outdated(w, i)

\* A row in which a transaction forgives usage was reset, or had changed.
LEMMA Forgiven ==
    ASSUME IInv, NEW w \in Writers, NEW S \in SUBSET Ids, NEW s, Saves(w, S, s),
           UNCHANGED <<now, made>>,
           NEW i \in Ids, sub'[i].used < sub[i].used,
           NEW r, r = MaybeReset(copy[w].rows[i], copy[w].at, copy[w].plans),
           i \in S => s[i].last = r.last /\ \E a \in Nat : s[i].used = r.used + a
    PROVE  NewPeriod(i) \/ OldCopy(i)
<1>1. sub[i].used \in Nat
  BY DEF IInv, TypeOK, Sub
<1>2. i \in S /\ sub'[i] = s[i]
  <2>1. (i \in S => sub'[i] = s[i]) /\ (i \notin S => sub'[i] = sub[i])
    BY Written
  <2> QED BY <1>1, <2>1
<1>3. CASE copy[w].rows[i] # sub[i]
  <2>1. Open(w) /\ Closes(w)
    BY DEF Saves
  <2>2. ~Open(w)'
    BY <2>1, CopyClosed
  <2> QED BY <1>3, <2>1, <2>2 DEF OldCopy, Outdated
<1>4. CASE copy[w].rows[i] = sub[i]
  <2>1. /\ r.used \in Nat
        /\ r.used < sub[i].used => r.last >= sub[i].last + Period /\ r.last <= now
    BY <1>4, RenewedRow
  <2>2. PICK a \in Nat : s[i].used = r.used + a
    BY <1>2
  <2>3. r.used < sub[i].used
    BY <1>1, <1>2, <2>1, <2>2
  <2> QED BY <1>2, <2>1, <2>3 DEF NewPeriod
<1> QED BY <1>3, <1>4

LEMMA LoweredOnce ==
    ASSUME IInv, Next, NEW i \in Ids,
           sub'[i].used < sub[i].used, sub'[i].status # "deleted"
    PROVE  OwnRequest(i) \/ NewPeriod(i) \/ OldCopy(i)
<1>1. /\ sub \in [Ids -> Sub] /\ sub[i] \in Sub /\ sub[i].used \in Nat
      /\ req \in [Requests -> Req] /\ ~UNCHANGED sub
  <2>1. sub \in [Ids -> Sub] /\ req \in [Requests -> Req]
    BY DEF IInv, TypeOK
  <2>2. sub[i] \in Sub /\ sub[i].used \in Nat
    BY <2>1 DEF Sub
  <2> QED BY <2>1, <2>2
<1>2. CASE Tick \/ \E p \in Plans : EditPlan(p)
  BY <1>1, <1>2 DEF Tick, EditPlan, rows
<1>3. ASSUME NEW o \in Ids, Purchase(o) PROVE FALSE
  <2>1. Create(PlanOf[o])
    BY <1>1, <1>3 DEF Purchase, PlaceOrder, Grant, ReadOrder, CompleteSubscriptionOrder,
                      ExpireSubscriptionOrder, rows
  <2>2. CASE i # made + 1
    <3>1. sub'[i] = sub[i]
      BY <1>1, <2>1, <2>2 DEF Create
    <3> QED BY <1>1, <3>1
  <2>3. CASE i = made + 1
    <3>1. made \in Nat /\ Blank
      BY DEF IInv, TypeOK, Parts
    <3>2. sub[i].used = 0
      BY <2>3, <3>1 DEF Blank, Unborn
    <3>3. sub'[i].used = 0
      BY <1>1, <2>1, <2>3 DEF Create
    <3> QED BY <3>2, <3>3
  <2> QED BY <2>2, <2>3
<1>4. ASSUME NEW j \in Ids, AdminInvalidate(j) PROVE FALSE
  <2>1. sub'[i].used = sub[i].used
    BY <1>1, <1>4 DEF AdminInvalidate, Sub
  <2> QED BY <1>1, <2>1
<1>5. ASSUME NEW j \in Ids, AdminDelete(j) PROVE FALSE
  <2>1. CASE i = j
    BY <1>1, <1>5, <2>1 DEF AdminDelete, Unborn
  <2>2. CASE i # j
    <3>1. sub'[i] = sub[i]
      BY <1>1, <1>5, <2>2 DEF AdminDelete
    <3> QED BY <1>1, <3>1
  <2> QED BY <2>1, <2>2
<1>6. ASSUME NEW q \in Requests, PreConsume(q) PROVE NewPeriod(i) \/ OldCopy(i)
  <2>1. q \in Writers /\ UNCHANGED <<now, made>>
    BY <1>6 DEF Writers, PreConsume
  <2>2. PICK a \in Amounts, k \in Ids, S \in SUBSET Ids, s \in [Ids -> Sub] : Charging(q, a, k, S, s)
    BY <1>1, <1>6, PreConsumed
  <2>3. i \in S => /\ s[i].last = Renewed(q, i).last
                   /\ \E n \in Nat : s[i].used = Renewed(q, i).used + n
    <3>1. a \in Nat
      BY PlansAssumption
    <3> QED BY <2>2, <3>1 DEF Charging
  <2>4. Saves(q, S, s)
    BY <2>2 DEF Charging
  <2> QED BY <2>1, <2>3, <2>4, Forgiven DEF Renewed
<1>7. ASSUME NEW q \in Requests, Settle(q) \/ RefundDelta(q) PROVE OwnRequest(i)
  <2>1. req[q] \in Req /\ req[q].pc \in {"held", "refund"} /\ req[q].amount \in Nat
    BY <1>1, <1>7 DEF Req, Settle, RefundDelta
  <2>2. PICK a \in Nat : PostConsume(q, req[q].amount, a)
    BY <1>1, <1>7, PlansAssumption DEF Settle, RefundDelta, PostFails
  <2>3. PICK s : Posting(q, req[q].amount, a, s)
    BY <2>1, <2>2, Posted
  <2>4. \A j \in Ids \ {req[q].sub} : sub'[j] = sub[j]
    BY <2>1, <2>3, PostedUsage
  <2>5. req[q].sub = i
    BY <1>1, <2>4
  <2>6. req'[q].pc # req[q].pc
    <3>1. CASE Settle(q)
      <4>1. req[q].pc = "held" /\ \E n : req' = [req EXCEPT ![q] = Done(q, n)]
        BY <3>1 DEF Settle
      <4> QED BY <1>1, <4>1 DEF Done
    <3>2. CASE RefundDelta(q)
      <4>1. /\ req[q].pc = "refund"
            /\ req' = [req EXCEPT ![q] = [@ EXCEPT !.pc = "mark", !.owes = 0]]
        BY <1>1, <3>2 DEF RefundDelta, PostFails
      <4> QED BY <1>1, <2>1, <4>1 DEF Req
    <3> QED BY <1>7, <3>1, <3>2
  <2> QED BY <2>5, <2>6 DEF OwnRequest
<1>8. ASSUME NEW q \in Requests, Read(q) \/ Abort(q) \/ RefundMark(q) PROVE FALSE
  BY <1>1, <1>8 DEF Read, Abort, RefundMark, rows
<1>9. ASSUME NEW m \in Masters, Maintenance(m) PROVE NewPeriod(i) \/ OldCopy(i)
  <2>1. CASE UNCHANGED rows
    BY <1>1, <2>1 DEF rows
  <2>2. CASE Expire(m)
    <3> DEFINE ended == Over(maint[m].at)
    <3>1. sub' = [k \in Ids |-> IF k \in ended THEN [sub[k] EXCEPT !.status = "expired"]
                                ELSE sub[k]]
      BY <1>1, <2>2 DEF Expire
    <3> HIDE DEF ended
    <3>2. sub'[i] = [sub[i] EXCEPT !.status = "expired"] \/ sub'[i] = sub[i]
      BY <3>1
    <3>3. sub'[i].used = sub[i].used
      BY <1>1, <3>2 DEF Sub
    <3> QED BY <1>1, <3>3
  <2>3. CASE Reset(m)
    <3>1. m \in Writers /\ UNCHANGED <<now, made>>
      BY <2>3 DEF Writers, Reset
    <3>2. PICK S \in SUBSET Ids : \E s : Starting(m, S, s)
      BY <1>1, <2>3, ResetWrites
    <3>3. PICK s : Starting(m, S, s)
      BY <3>2
    <3>4. i \in S => /\ s[i].last = MaybeReset(copy[m].rows[i], copy[m].at, copy[m].plans).last
                     /\ \E n \in Nat :
                           s[i].used = MaybeReset(copy[m].rows[i], copy[m].at, copy[m].plans).used + n
      <4> SUFFICES ASSUME i \in S
                   PROVE  \E n \in Nat : s[i].used = s[i].used + n
        BY <3>3 DEF Starting
      <4>1. s[i].used = 0
        BY <3>3 DEF Starting
      <4> QED BY <4>1
    <3>5. Saves(m, S, s)
      BY <3>3 DEF Starting
    <3> QED BY <3>1, <3>4, <3>5, Forgiven
  <2> QED BY <1>9, <2>1, <2>2, <2>3 DEF Maintenance, ExpireScan, ResetList, ResetPlan, ResetRead, ResetDone
<1> QED BY <1>2, <1>3, <1>4, <1>5, <1>6, <1>7, <1>8, <1>9 DEF Next, Request

\* Usage is forgiven at most once a period, whichever requests and masters notice
\* that it is over, unless a transaction overwrites what another has written.
THEOREM ResetOncePerPeriod == Spec => OncePerPeriod
<1>1. IInv /\ [Next]_vars =>
        [\A i \in Ids : sub'[i].used < sub[i].used /\ sub'[i].status # "deleted" =>
            \/ \E q \in Requests : req[q].sub = i /\ req'[q] # req[q]
            \/ sub'[i].last >= sub[i].last + Period /\ sub'[i].last <= now
            \/ \E w \in Writers : Outdated(w, i)]_vars
  BY LoweredOnce DEF OwnRequest, NewPeriod, OldCopy
<1> QED BY <1>1, Inductive, PTL DEF Spec, OncePerPeriod

=============================================================================
