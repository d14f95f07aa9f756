--------------------------- MODULE PaymentsProofs ---------------------------
(***************************************************************************)
(* Proofs about Payments for every number of requests, orders, users and   *)
(* plans: an order buys one subscription, paid time adds up and is kept as *)
(* in the ledger of PaidTime, and a revocation takes a plan away.          *)
(***************************************************************************)
EXTENDS Payments, TLAPS, SequenceTheorems

\* A request that has locked its order, and one that has locked its user.
HoldsOrder(p) == At(p, "lockUser") \/ At(p, "lockCurrent") \/ At(p, "approve")
HoldsUser(p) == At(p, "lockCurrent") \/ At(p, "approve")

\* What a request stands for: the rows it names exist, and an approval under
\* way works on a pending order for that order's user and plan.
Sound(p) ==
  /\ At(p, "place") \/ At(p, "nameGrant") => req[p].user \in User /\ req[p].plan \in Plan
  /\ At(p, "revoke") \/ At(p, "nameFree") => req[p].user \in User
  /\ At(p, "lockOrder") => req[p].ord \in Order /\ order[req[p].ord].status # "none"
  /\ HoldsOrder(p) =>
       /\ req[p].ord \in Order
       /\ order[req[p].ord].status = "pending"
       /\ order[req[p].ord].user = req[p].user
       /\ order[req[p].ord].plan = req[p].plan
  /\ At(p, "approve") /\ req[p].current # 0 =>
       req[p].current \in DOMAIN subs /\ subs[req[p].current].expiresAt \in Nat

\* A locked order, and a locked user, have one holder.
Apart(p, q) ==
  /\ HoldsOrder(p) /\ HoldsOrder(q) => req[p].ord # req[q].ord
  /\ HoldsUser(p) /\ HoldsUser(q) => req[p].user # req[q].user

\* A purchase of this user and plan that nobody revoked.
Purchase(i, u, pl) ==
  /\ i \in DOMAIN subs /\ i \notin revoked /\ subs[i].origin # Grant
  /\ subs[i].user = u /\ subs[i].plan = pl

\* The approval starts where every earlier purchase has ended.
StartsLast(p) ==
  At(p, "approve") =>
    \A i : Purchase(i, req[p].user, req[p].plan) => subs[i].expiresAt <= StartsAt(p)

OrdersAreNamed ==
  \A o \in Order : order[o].status # "none" =>
    order[o].user \in User /\ order[o].plan \in Plan

PurchasesAreDated ==
  \A i \in DOMAIN subs : subs[i].origin # Grant => subs[i].expiresAt \in Nat

PayInv ==
  /\ TypeOK
  /\ \A p \in Proc : Sound(p) /\ StartsLast(p)
  /\ \A p, q \in Proc : p # q => Apart(p, q)
  /\ OrdersAreNamed
  /\ PurchasesAreDated
  /\ OrdersBuyOneSubscription
  /\ PaidTimeAddsUp

-----------------------------------------------------------------------------
\* The answered request is a request.
LEMMA IdleIsARequest == Idle \in Request
  BY PaymentConstants DEF Idle, Request

\* Replacing one request by a request keeps the type of the requests.
LEMMA FinishType ==
  ASSUME TypeOK, NEW p \in Proc, Finish(p)
  PROVE  req' \in [Proc -> Request] /\ req'[p] = Idle
         /\ \A q \in Proc : q # p => req'[q] = req[q]
  BY IdleIsARequest DEF Finish, TypeOK

\* An element of a sequence of subscriptions, and one appended to it.
LEMMA SubscriptionsAre ==
  ASSUME TypeOK
  PROVE  /\ DOMAIN subs = 1 .. Len(subs) /\ Len(subs) \in Nat
         /\ \A i \in DOMAIN subs : subs[i] \in Subscription /\ i \in Nat
  BY DEF TypeOK

\* The initial tables and requests are well typed and sound.
LEMMA InitPayInv == Init => PayInv
  <1> SUFFICES ASSUME Init PROVE PayInv
    OBVIOUS
  <1>1. TypeOK
    BY IdleIsARequest, PaymentConstants DEF Init, TypeOK, Unplaced, OrderRow
  <1>2. \A p \in Proc : req[p].pc = "idle"
    BY DEF Init, Idle
  <1>3. DOMAIN subs = {} /\ \A o \in Order : order[o].status = "none"
    BY DEF Init, Unplaced
  <1> QED
    BY <1>1, <1>2, <1>3
    DEF PayInv, Sound, StartsLast, Apart, HoldsOrder, HoldsUser, At,
        OrdersAreNamed, PurchasesAreDated, OrdersBuyOneSubscription,
        PaidTimeAddsUp

\* The values a request carries.
LEMMA RequestFacts ==
  ASSUME TypeOK, NEW p \in Proc
  PROVE  /\ req[p].pc \in {"idle", "place", "lockOrder", "lockUser", "lockCurrent",
                           "approve", "nameGrant", "revoke", "nameFree"}
         /\ req[p].ord \in Order \cup {NoOrder}
         /\ req[p].user \in User \cup {NoUser} /\ req[p].plan \in Plan \cup {Free}
         /\ req[p].amount \in Price \cup {NoPrice}
         /\ req[p].now \in Nat /\ req[p].current \in Nat
         /\ req[p].todo \in SUBSET Nat /\ req[p] \in Request
  BY DEF TypeOK, Request

-----------------------------------------------------------------------------
\* A step of one request that touches neither orders nor subscriptions keeps
\* the invariant when that request stays sound and apart from the others.
LEMMA RequestStepKeepsInv ==
  ASSUME PayInv, NEW p \in Proc, TypeOK',
         UNCHANGED <<order, subs, revoked>>,
         \A q \in Proc : q # p => req'[q] = req[q],
         Sound(p)', StartsLast(p)',
         \A q \in Proc : q # p => Apart(p, q)'
  PROVE  PayInv'
  <1>1. \A q \in Proc : Sound(q)' /\ StartsLast(q)'
    BY DEF PayInv, Sound, StartsLast, HoldsOrder, At, Purchase, StartsAt
  <1>2. \A a, b \in Proc : a # b => Apart(a, b)'
    <2> SUFFICES ASSUME NEW a \in Proc, NEW b \in Proc, a # b
                 PROVE  Apart(a, b)'
      OBVIOUS
    <2>1. CASE a = p
      BY <2>1
    <2>2. CASE b = p
      BY <2>2 DEF Apart
    <2>3. CASE a # p /\ b # p
      BY <2>3 DEF PayInv, Apart, HoldsOrder, HoldsUser, At
    <2> QED
      BY <2>1, <2>2, <2>3
  <1>3. OrdersAreNamed' /\ PurchasesAreDated' /\ OrdersBuyOneSubscription'
        /\ PaidTimeAddsUp'
    BY DEF PayInv, OrdersAreNamed, PurchasesAreDated, OrdersBuyOneSubscription,
           PaidTimeAddsUp
  <1> QED
    BY <1>1, <1>2, <1>3 DEF PayInv

\* A request that is answered or rolled back, with nothing or only the name
\* of the user's plan changed, keeps the invariant.
LEMMA AnswerKeepsInv ==
  ASSUME PayInv, NEW p \in Proc, Finish(p),
         UNCHANGED <<clock, offer, settings, order, subs, revoked>>,
         planName' \in [User -> Plan \cup {Free}]
  PROVE  PayInv'
  <1>1. /\ req' \in [Proc -> Request] /\ req'[p] = Idle
        /\ \A q \in Proc : q # p => req'[q] = req[q]
    BY FinishType DEF PayInv
  <1>2. TypeOK'
    BY <1>1 DEF PayInv, TypeOK
  <1>3. req'[p].pc = "idle"
    BY <1>1 DEF Idle
  <1>4. Sound(p)' /\ StartsLast(p)' /\ \A q \in Proc : q # p => Apart(p, q)'
    BY <1>3 DEF Sound, StartsLast, Apart, HoldsOrder, HoldsUser, At
  <1> QED
    BY <1>1, <1>2, <1>4, RequestStepKeepsInv

\* A request that starts holds no row.
LEMMA StartKeepsInv ==
  ASSUME PayInv, NEW p \in Proc, NEW r \in Request,
         req' = [req EXCEPT ![p] = r],
         UNCHANGED <<clock, offer, settings, order, subs, planName, revoked>>,
         \/ r.pc = "place" /\ r.user \in User /\ r.plan \in Plan
         \/ r.pc = "lockOrder" /\ r.ord \in Order /\ order[r.ord].status # "none"
         \/ r.pc = "revoke" /\ r.user \in User
  PROVE  PayInv'
  <1>1. TypeOK' /\ req'[p] = r /\ \A q \in Proc : q # p => req'[q] = req[q]
    BY DEF PayInv, TypeOK
  <1>2. Sound(p)' /\ StartsLast(p)' /\ \A q \in Proc : q # p => Apart(p, q)'
    BY <1>1 DEF Sound, StartsLast, Apart, HoldsOrder, HoldsUser, At
  <1> QED
    BY <1>1, <1>2, RequestStepKeepsInv

\* Reading the plan, asking for an approval and taking a revocation's
\* snapshot keep the invariant.
LEMMA BeginnersKeepInv ==
  ASSUME PayInv, NEW p \in Proc,
         \/ \E u \in User, pl \in Plan : BeginOrder(p, u, pl)
         \/ \E o \in Order : BeginApproval(p, o)
         \/ \E u \in User : BeginRevoke(p, u)
  PROVE  PayInv'
  <1>1. ASSUME NEW u \in User, NEW pl \in Plan, BeginOrder(p, u, pl)
        PROVE  PayInv'
    <2> DEFINE r == [Idle EXCEPT !.pc = "place", !.user = u, !.plan = pl,
                                 !.amount = offer[pl]]
    <2>1. r \in Request
      BY PaymentConstants DEF Idle, Request, PayInv, TypeOK
    <2>2. r.pc = "place" /\ r.user = u /\ r.plan = pl
      BY DEF Idle
    <2>3. req' = [req EXCEPT ![p] = r]
      BY <1>1 DEF BeginOrder
    <2> HIDE DEF r
    <2> QED
      BY <1>1, <2>1, <2>2, <2>3, StartKeepsInv DEF BeginOrder
  <1>2. ASSUME NEW o \in Order, BeginApproval(p, o)
        PROVE  PayInv'
    <2> DEFINE r == [Idle EXCEPT !.pc = "lockOrder", !.ord = o]
    <2>1. r \in Request
      BY PaymentConstants DEF Idle, Request
    <2>2. r.pc = "lockOrder" /\ r.ord = o
      BY DEF Idle
    <2>3. req' = [req EXCEPT ![p] = r]
      BY <1>2 DEF BeginApproval
    <2> HIDE DEF r
    <2> QED
      BY <1>2, <2>1, <2>2, <2>3, StartKeepsInv DEF BeginApproval
  <1>3. ASSUME NEW u \in User, BeginRevoke(p, u)
        PROVE  PayInv'
    <2> DEFINE r == [Idle EXCEPT !.pc = "revoke", !.user = u, !.now = clock,
                                 !.todo = SubsOf(u)]
    <2>1. SubsOf(u) \in SUBSET Nat /\ clock \in Nat
      BY SubscriptionsAre DEF SubsOf, PayInv, TypeOK
    <2>2. r \in Request
      BY <2>1, PaymentConstants DEF Idle, Request
    <2>3. r.pc = "revoke" /\ r.user = u
      BY DEF Idle
    <2>4. req' = [req EXCEPT ![p] = r]
      BY <1>3 DEF BeginRevoke
    <2> HIDE DEF r
    <2> QED
      BY <1>3, <2>2, <2>3, <2>4, StartKeepsInv DEF BeginRevoke
  <1> QED
    BY <1>1, <1>2, <1>3

\* Taking the locks of an approval keeps the invariant.
LEMMA LockOrderKeepsInv ==
  ASSUME PayInv, NEW p \in Proc, LockOrder(p)
  PROVE  PayInv'
  <1> DEFINE o == req[p].ord
  <1>1. o \in Order /\ order[o].status # "none" /\ order[o] \in OrderRow
    BY DEF LockOrder, PayInv, Sound, TypeOK
  <1>2. CASE order[o].status = "paid"
    BY <1>2, AnswerKeepsInv DEF LockOrder, PayInv, TypeOK
  <1>3. CASE order[o].status # "paid"
    <2>1. order[o].status = "pending"
      BY <1>1, <1>3 DEF OrderRow
    <2>2. order[o].user \in User /\ order[o].plan \in Plan /\ clock \in Nat
      BY <1>1 DEF PayInv, OrdersAreNamed, TypeOK
    <2>3. /\ req' \in [Proc -> Request]
          /\ \A q \in Proc : q # p => req'[q] = req[q]
          /\ req'[p].pc = "lockUser" /\ req'[p].ord = o
          /\ req'[p].user = order[o].user /\ req'[p].plan = order[o].plan
      <3> DEFINE u == order[o].user
                 pl == order[o].plan
      <3>1. req' = [req EXCEPT ![p].pc = "lockUser", ![p].now = clock,
                               ![p].user = u, ![p].plan = pl]
        BY <1>3 DEF LockOrder
      <3>2. u \in User /\ pl \in Plan
        BY <2>2
      <3> HIDE DEF u, pl
      <3>3. req \in [Proc -> Request] /\ clock \in Nat
        BY DEF PayInv, TypeOK
      <3>4. req' \in [Proc -> Request] /\ \A q \in Proc : q # p => req'[q] = req[q]
        <4>1. req'[p] = [req[p] EXCEPT !.pc = "lockUser", !.now = clock,
                                       !.user = u, !.plan = pl]
          BY <3>1, <3>3
        <4>2. req'[p] \in Request
          BY <3>2, <3>3, <4>1 DEF Request
        <4> QED
          BY <3>1, <3>3, <4>2
      <3>5. /\ req'[p].pc = "lockUser" /\ req'[p].ord = o
            /\ req'[p].user = u /\ req'[p].plan = pl
        BY <3>1, <3>3 DEF Request
      <3> QED
        BY <3>4, <3>5 DEF u, pl
    <2>4. TypeOK'
      BY <2>3 DEF LockOrder, PayInv, TypeOK
    <2>5. Sound(p)' /\ StartsLast(p)'
      BY <1>1, <2>1, <2>3
      DEF LockOrder, Sound, StartsLast, HoldsOrder, At
    <2>6. \A q \in Proc : q # p => Apart(p, q)'
      BY <2>3 DEF LockOrder, OrderLocked, Apart, HoldsOrder, HoldsUser, At
    <2> QED
      BY <2>3, <2>4, <2>5, <2>6, RequestStepKeepsInv DEF LockOrder
  <1> QED
    BY <1>2, <1>3

\* The same for the user's row.
LEMMA LockUserKeepsInv ==
  ASSUME PayInv, NEW p \in Proc, LockUser(p)
  PROVE  PayInv'
  <1>1. /\ req' \in [Proc -> Request]
        /\ \A q \in Proc : q # p => req'[q] = req[q]
        /\ req'[p].pc = "lockCurrent" /\ req'[p].ord = req[p].ord
        /\ req'[p].user = req[p].user /\ req'[p].plan = req[p].plan
    <2>1. req \in [Proc -> Request] /\ req' = [req EXCEPT ![p].pc = "lockCurrent"]
      BY DEF LockUser, Continue, PayInv, TypeOK
    <2> QED
      BY <2>1 DEF Request
  <1>2. TypeOK'
    BY <1>1 DEF LockUser, PayInv, TypeOK
  <1>3. Sound(p)' /\ StartsLast(p)'
    BY <1>1 DEF LockUser, PayInv, Sound, StartsLast, HoldsOrder, At
  <1>4. \A q \in Proc : q # p => Apart(p, q)'
    BY <1>1 DEF LockUser, UserLocked, PayInv, Apart, HoldsOrder, HoldsUser, At
  <1> QED
    BY <1>1, <1>2, <1>3, <1>4, RequestStepKeepsInv DEF LockUser

\* The subscription that is found is the one to start after.
LEMMA LockCurrentKeepsInv ==
  ASSUME PayInv, NEW p \in Proc, LockCurrent(p)
  PROVE  PayInv'
  <1>1. PICK i \in {0} \cup Current(p) :
          /\ i = 0 <=> Current(p) = {}
          /\ \A j \in Current(p) : subs[j].expiresAt <= subs[i].expiresAt
          /\ req' = [req EXCEPT ![p].pc = "approve", ![p].current = i]
    BY DEF LockCurrent
  <1>2. /\ Current(p) \subseteq DOMAIN subs /\ DOMAIN subs \subseteq Nat
        /\ 0 \notin DOMAIN subs /\ i \in Nat
        /\ i # 0 => i \in Current(p)
    BY <1>1, SubscriptionsAre DEF PayInv, Current, SubsOf
  <1>3. /\ req' \in [Proc -> Request]
        /\ \A q \in Proc : q # p => req'[q] = req[q]
        /\ req'[p].pc = "approve" /\ req'[p].ord = req[p].ord
        /\ req'[p].user = req[p].user /\ req'[p].plan = req[p].plan
        /\ req'[p].current = i /\ req'[p].now = req[p].now
    <2>1. req \in [Proc -> Request]
      BY DEF PayInv, TypeOK
    <2>2. req' \in [Proc -> Request] /\ \A q \in Proc : q # p => req'[q] = req[q]
      <3>1. req'[p] = [req[p] EXCEPT !.pc = "approve", !.current = i]
        BY <1>1, <2>1
      <3>2. req'[p] \in Request
        BY <1>2, <2>1, <3>1 DEF Request
      <3> QED
        BY <1>1, <2>1, <3>2
    <2> QED
      BY <1>1, <2>1, <2>2 DEF Request
  <1>4. TypeOK' /\ UNCHANGED <<order, subs, revoked>>
    BY <1>3 DEF LockCurrent, PayInv, TypeOK
  <1>5. \A j \in Current(p) : subs[j].expiresAt \in Nat
    BY <1>2, RequestFacts, SubscriptionsAre
    DEF PayInv, Current, Subscription, Undated
  <1>6. Sound(p)'
    BY <1>2, <1>3, <1>4, <1>5
    DEF LockCurrent, PayInv, Sound, HoldsOrder, At
  <1>7. StartsLast(p)'
    <2> SUFFICES ASSUME NEW k, Purchase(k, req[p].user, req[p].plan)
                 PROVE  subs[k].expiresAt <= StartsAt(p)'
      BY <1>3, <1>4 DEF StartsLast, Purchase
    <2>1. k \in DOMAIN subs /\ subs[k].expiresAt \in Nat /\ req[p].now \in Nat
      BY RequestFacts DEF Purchase, PayInv, PurchasesAreDated
    <2>2. CASE k \in Current(p)
      BY <1>1, <1>2, <1>3, <1>4, <2>2 DEF StartsAt
    <2>3. CASE k \notin Current(p)
      <3>1. subs[k].expiresAt <= req[p].now
        BY <2>1, <2>3 DEF Purchase, Current, SubsOf
      <3>2. CASE i = 0
        BY <1>3, <3>1, <3>2 DEF StartsAt
      <3>3. CASE i # 0
        <4>1. subs[i].expiresAt > req[p].now /\ subs[i].expiresAt \in Nat
          BY <1>2, <1>5, <3>3 DEF Current
        <4> QED
          BY <1>3, <1>4, <2>1, <3>1, <3>3, <4>1 DEF StartsAt
      <3> QED
        BY <3>2, <3>3
    <2> QED
      BY <2>2, <2>3
  <1>8. \A q \in Proc : q # p => Apart(p, q)'
    BY <1>3 DEF LockCurrent, PayInv, Apart, HoldsOrder, HoldsUser, At
  <1> QED
    BY <1>3, <1>4, <1>6, <1>7, <1>8, RequestStepKeepsInv

-----------------------------------------------------------------------------
\* A new order is pending and has no subscription.
LEMMA PlaceOrderKeepsInv ==
  ASSUME PayInv, NEW p \in Proc, PlaceOrder(p)
  PROVE  PayInv'
  <1> DEFINE row == [status |-> "pending", user |-> req[p].user, plan |-> req[p].plan,
                     amount |-> req[p].amount, account |-> settings,
                     expiresAt |-> clock + Validity]
  <1>1. PICK o \in Order : order[o].status = "none" /\ order' = [order EXCEPT ![o] = row]
    BY DEF PlaceOrder
  <1>2. req[p].user \in User /\ req[p].plan \in Plan
    BY DEF PlaceOrder, PayInv, Sound
  <1>3. row \in OrderRow
    <2>1. clock + Validity \in Nat /\ settings \in Account \cup {NoAccount}
      BY PaymentConstants DEF PayInv, TypeOK
    <2>2. req[p].amount \in Price \cup {NoPrice}
      BY RequestFacts DEF PayInv
    <2> QED
      BY <1>2, <2>1, <2>2 DEF OrderRow
  <1>4. row.status = "pending" /\ row.user = req[p].user /\ row.plan = req[p].plan
    OBVIOUS
  <1> HIDE DEF row
  <1>5. /\ order' \in [Order -> OrderRow] /\ order'[o] = row
        /\ \A x \in Order : x # o => order'[x] = order[x]
    BY <1>1, <1>3 DEF PayInv, TypeOK
  <1>6. /\ req' \in [Proc -> Request] /\ req'[p] = Idle
        /\ \A q \in Proc : q # p => req'[q] = req[q]
    BY FinishType DEF PlaceOrder, PayInv
  <1>7. req'[p].pc = "idle"
    BY <1>6 DEF Idle
  <1>8. TypeOK'
    BY <1>5, <1>6 DEF PlaceOrder, PayInv, TypeOK
  <1>9. \A q \in Proc : Sound(q)' /\ StartsLast(q)'
    <2> TAKE q \in Proc
    <2>1. CASE q = p
      BY <1>7, <2>1 DEF Sound, StartsLast, HoldsOrder, At
    <2>2. CASE q # p
      <3>1. Sound(q)'
        BY <1>1, <1>5, <1>6, <2>2 DEF PlaceOrder, PayInv, Sound, HoldsOrder, At
      <3>2. StartsLast(q)'
        BY <1>6, <2>2 DEF PlaceOrder, PayInv, StartsLast, At, Purchase, StartsAt
      <3> QED
        BY <3>1, <3>2
    <2> QED
      BY <2>1, <2>2
  <1>10. \A a, b \in Proc : a # b => Apart(a, b)'
    BY <1>6, <1>7 DEF PayInv, Apart, HoldsOrder, HoldsUser, At
  <1>11. OrdersAreNamed' /\ PurchasesAreDated'
    BY <1>2, <1>4, <1>5 DEF PlaceOrder, PayInv, OrdersAreNamed, PurchasesAreDated
  <1>12. OrdersBuyOneSubscription' /\ PaidTimeAddsUp'
    BY <1>1, <1>4, <1>5
    DEF PlaceOrder, PayInv, OrdersBuyOneSubscription, PaidTimeAddsUp
  <1> QED
    BY <1>8, <1>9, <1>10, <1>11, <1>12 DEF PayInv

\* What appending a subscription does to the table.
LEMMA AppendedSubscription ==
  ASSUME TypeOK, NEW s \in Subscription, subs' = Append(subs, s)
  PROVE  /\ subs' \in Seq(Subscription)
         /\ DOMAIN subs' = DOMAIN subs \cup {Len(subs) + 1}
         /\ subs'[Len(subs) + 1] = s /\ Len(subs) + 1 \notin DOMAIN subs
         /\ \A i \in DOMAIN subs : subs'[i] = subs[i] /\ i < Len(subs) + 1
  BY DEF TypeOK

\* An approval creates the one subscription of its order, after every earlier
\* purchase; the approvals under way are of other orders and other users.
LEMMA ApproveKeepsInv ==
  ASSUME PayInv, NEW p \in Proc, Approve(p)
  PROVE  PayInv'
  <1> DEFINE o == req[p].ord
             n == Len(subs) + 1
             s == [user |-> req[p].user, plan |-> req[p].plan, startedAt |-> StartsAt(p),
                   expiresAt |-> StartsAt(p) + Duration, origin |-> o]
  <1>1. /\ o \in Order /\ order[o].status = "pending"
        /\ order[o].user = req[p].user /\ order[o].plan = req[p].plan
        /\ req[p].user \in User /\ req[p].plan \in Plan /\ order[o] \in OrderRow
    BY DEF Approve, PayInv, Sound, HoldsOrder, OrdersAreNamed, TypeOK
  <1>2. StartsAt(p) \in Nat
    BY RequestFacts DEF Approve, PayInv, Sound, StartsAt
  <1>3. s \in Subscription
    BY <1>1, <1>2, PaymentConstants DEF Subscription
  <1>4. /\ s.user = req[p].user /\ s.plan = req[p].plan /\ s.startedAt = StartsAt(p)
        /\ s.expiresAt \in Nat /\ s.origin = o
    BY <1>2, PaymentConstants
  <1>5. subs' = Append(subs, s)
    BY DEF Approve
  <1>6. UNCHANGED <<clock, offer, settings, revoked>>
    BY DEF Approve
  <1> HIDE DEF s
  <1>7. /\ subs' \in Seq(Subscription) /\ DOMAIN subs' = DOMAIN subs \cup {n}
        /\ subs'[n] = s /\ n \notin DOMAIN subs
        /\ \A i \in DOMAIN subs : subs'[i] = subs[i] /\ i < n
    BY <1>3, <1>5, AppendedSubscription DEF PayInv
  <1>8. /\ req' \in [Proc -> Request] /\ req'[p] = Idle
        /\ \A q \in Proc : q # p => req'[q] = req[q]
    BY FinishType DEF Approve, PayInv
  <1>9. req'[p].pc = "idle"
    BY <1>8 DEF Idle
  <1>10. /\ order' \in [Order -> OrderRow]
         /\ order'[o].status = "paid" /\ order'[o].user = req[p].user
         /\ order'[o].plan = req[p].plan
         /\ \A x \in Order : x # o => order'[x] = order[x]
    <2>1. order' = [order EXCEPT ![o].status = "paid"] /\ order \in [Order -> OrderRow]
      BY DEF Approve, PayInv, TypeOK
    <2>2. order'[o] = [order[o] EXCEPT !.status = "paid"]
      BY <1>1, <2>1
    <2>3. order'[o] \in OrderRow
      BY <1>1, <2>2 DEF OrderRow
    <2>4. order'[o].status = "paid" /\ order'[o].user = order[o].user
          /\ order'[o].plan = order[o].plan
      BY <1>1, <2>2 DEF OrderRow
    <2> QED
      BY <1>1, <2>1, <2>3, <2>4
  <1>11. planName' \in [User -> Plan \cup {Free}]
    <2>1. planName' = [planName EXCEPT ![req[p].user] = req[p].plan]
          /\ planName \in [User -> Plan \cup {Free}]
      BY DEF Approve, PayInv, TypeOK
    <2> QED
      BY <1>1, <2>1
  <1>12. TypeOK'
    BY <1>6, <1>7, <1>8, <1>10, <1>11 DEF PayInv, TypeOK
  <1> HIDE DEF n
  <1>13. \A q \in Proc : Sound(q)' /\ StartsLast(q)'
    <2> TAKE q \in Proc
    <2>1. CASE q = p
      BY <1>9, <2>1 DEF Sound, StartsLast, HoldsOrder, At
    <2>2. CASE q # p
      <3>1. Apart(p, q) /\ HoldsOrder(p) /\ HoldsUser(p) /\ Sound(q) /\ StartsLast(q)
        BY <2>2 DEF PayInv, Approve, HoldsOrder, HoldsUser
      <3>2. HoldsOrder(q) => req[q].ord # o
        BY <3>1 DEF Apart
      <3>3. At(q, "approve") => req[q].user # req[p].user
        BY <3>1 DEF Apart, HoldsUser
      <3>4. req'[q] = req[q]
        BY <1>8, <2>2
      <3>5. Sound(q)'
        BY <1>7, <1>10, <3>1, <3>2, <3>4 DEF Sound, HoldsOrder, At
      <3>6. At(q, "approve") => StartsAt(q)' = StartsAt(q)
        BY <1>7, <3>1, <3>4 DEF StartsAt, Sound
      <3>7. \A i : At(q, "approve") /\ Purchase(i, req[q].user, req[q].plan)' =>
                     i \in DOMAIN subs /\ Purchase(i, req[q].user, req[q].plan)
        BY <1>4, <1>6, <1>7, <3>3, <3>4 DEF Purchase
      <3>8. StartsLast(q)'
        BY <1>7, <3>1, <3>4, <3>6, <3>7 DEF StartsLast, At
      <3> QED
        BY <3>5, <3>8
    <2> QED
      BY <2>1, <2>2
  <1>14. \A a, b \in Proc : a # b => Apart(a, b)'
    BY <1>8, <1>9 DEF PayInv, Apart, HoldsOrder, HoldsUser, At
  <1>15. OrdersAreNamed' /\ PurchasesAreDated'
    BY <1>1, <1>4, <1>7, <1>10 DEF PayInv, OrdersAreNamed, PurchasesAreDated
  <1>16. OrdersBuyOneSubscription'
    <2> SUFFICES ASSUME NEW x \in Order
                 PROVE
          /\ order'[x].status = "paid" =>
               \E i \in DOMAIN subs' :
                 /\ subs'[i].user = order'[x].user /\ subs'[i].plan = order'[x].plan
                 /\ \A j \in DOMAIN subs' : subs'[j].origin = x <=> j = i
          /\ order'[x].status # "paid" => \A i \in DOMAIN subs' : subs'[i].origin # x
      BY DEF OrdersBuyOneSubscription
    <2>1. CASE x = o
      <3>1. \A i \in DOMAIN subs : subs[i].origin # o
        BY <1>1 DEF PayInv, OrdersBuyOneSubscription
      <3> QED
        BY <1>4, <1>7, <1>10, <2>1, <3>1
    <2>2. CASE x # o
      <3>1. order'[x] = order[x]
        BY <1>10, <2>2
      <3>2. \A j \in DOMAIN subs' : subs'[j].origin = x =>
              j \in DOMAIN subs /\ subs[j].origin = x
        BY <1>4, <1>7, <2>2
      <3>3. CASE order[x].status = "paid"
        <4>1. PICK i \in DOMAIN subs :
                /\ subs[i].user = order[x].user /\ subs[i].plan = order[x].plan
                /\ \A j \in DOMAIN subs : subs[j].origin = x <=> j = i
          BY <3>3 DEF PayInv, OrdersBuyOneSubscription
        <4> QED
          BY <1>7, <3>1, <3>2, <3>3, <4>1
      <3>4. CASE order[x].status # "paid"
        BY <3>1, <3>2, <3>4 DEF PayInv, OrdersBuyOneSubscription
      <3> QED
        BY <3>3, <3>4
    <2> QED
      BY <2>1, <2>2
  <1>17. n \in Nat /\ DOMAIN subs \subseteq Nat
    BY SubscriptionsAre DEF PayInv, n
  <1>18. PaidTimeAddsUp'
    <2> SUFFICES ASSUME NEW i \in DOMAIN subs', NEW j \in DOMAIN subs',
                        i < j, {i, j} \cap revoked = {},
                        subs'[i].origin # Grant, subs'[j].origin # Grant,
                        subs'[i].user = subs'[j].user, subs'[i].plan = subs'[j].plan
                 PROVE  subs'[i].expiresAt <= subs'[j].startedAt
      BY <1>6 DEF PaidTimeAddsUp
    <2>1. i \in DOMAIN subs
      BY <1>7, <1>17
    <2>2. CASE j = n
      <3>1. Purchase(i, req[p].user, req[p].plan)
        BY <1>4, <1>7, <2>1, <2>2 DEF Purchase
      <3>2. subs[i].expiresAt <= StartsAt(p)
        BY <3>1 DEF Approve, PayInv, StartsLast
      <3> QED
        BY <1>4, <1>7, <2>1, <2>2, <3>2
    <2>3. CASE j # n
      <3>1. j \in DOMAIN subs /\ subs'[j] = subs[j] /\ subs'[i] = subs[i]
        BY <1>7, <2>1, <2>3
      <3> QED
        BY <2>1, <3>1 DEF PayInv, PaidTimeAddsUp
    <2> QED
      BY <2>2, <2>3
  <1> QED
    BY <1>12, <1>13, <1>14, <1>15, <1>16, <1>18 DEF PayInv

\* A granted subscription belongs to no order and is nobody's purchase.
LEMMA GrantKeepsInv ==
  ASSUME PayInv, NEW p \in Proc, NEW u \in User, NEW pl \in Plan,
         NEW end \in {Undated, clock + Duration}, GrantPlan(p, u, pl, end)
  PROVE  PayInv'
  <1> DEFINE n == Len(subs) + 1
             s == [user |-> u, plan |-> pl, startedAt |-> clock,
                   expiresAt |-> end, origin |-> Grant]
             r == [Idle EXCEPT !.pc = "nameGrant", !.user = u, !.plan = pl]
  <1>1. s \in Subscription /\ s.origin = Grant
    BY PaymentConstants DEF Subscription, PayInv, TypeOK
  <1>2. subs' = Append(subs, s) /\ req' = [req EXCEPT ![p] = r]
        /\ UNCHANGED <<clock, offer, settings, order, planName, revoked>>
    BY DEF GrantPlan
  <1>3. r \in Request /\ r.pc = "nameGrant" /\ r.user = u /\ r.plan = pl
    BY PaymentConstants DEF Idle, Request
  <1> HIDE DEF s, r
  <1>4. /\ subs' \in Seq(Subscription) /\ DOMAIN subs' = DOMAIN subs \cup {n}
        /\ subs'[n] = s /\ n \notin DOMAIN subs
        /\ \A i \in DOMAIN subs : subs'[i] = subs[i] /\ i < n
    BY <1>1, <1>2, AppendedSubscription DEF PayInv
  <1> HIDE DEF n
  <1>5. /\ req' \in [Proc -> Request] /\ req'[p] = r
        /\ \A q \in Proc : q # p => req'[q] = req[q]
    BY <1>2, <1>3 DEF PayInv, TypeOK
  <1>6. TypeOK'
    BY <1>2, <1>4, <1>5 DEF PayInv, TypeOK
  <1>7. \A q \in Proc : Sound(q)' /\ StartsLast(q)'
    <2> TAKE q \in Proc
    <2>1. CASE q = p
      BY <1>3, <1>5, <2>1 DEF Sound, StartsLast, HoldsOrder, At
    <2>2. CASE q # p
      <3>1. req'[q] = req[q] /\ Sound(q) /\ StartsLast(q)
        BY <1>5, <2>2 DEF PayInv
      <3>2. Sound(q)'
        BY <1>2, <1>4, <3>1 DEF Sound, HoldsOrder, At
      <3>3. At(q, "approve") => StartsAt(q)' = StartsAt(q)
        BY <1>4, <3>1 DEF StartsAt, Sound
      <3>4. \A i : Purchase(i, req[q].user, req[q].plan)' =>
                     i \in DOMAIN subs /\ Purchase(i, req[q].user, req[q].plan)
        BY <1>1, <1>2, <1>4, <3>1 DEF Purchase
      <3> QED
        BY <1>4, <3>1, <3>2, <3>3, <3>4 DEF StartsLast, At
    <2> QED
      BY <2>1, <2>2
  <1>8. \A a, b \in Proc : a # b => Apart(a, b)'
    BY <1>3, <1>5 DEF PayInv, Apart, HoldsOrder, HoldsUser, At
  <1>9. OrdersAreNamed' /\ PurchasesAreDated'
    BY <1>1, <1>2, <1>4 DEF PayInv, OrdersAreNamed, PurchasesAreDated
  <1>10. OrdersBuyOneSubscription'
    <2>1. \A x \in Order, j \in DOMAIN subs' : subs'[j].origin = x =>
            j \in DOMAIN subs /\ subs[j].origin = x
      BY <1>1, <1>4, PaymentConstants
    <2> QED
      BY <1>2, <1>4, <2>1 DEF PayInv, OrdersBuyOneSubscription
  <1>11. PaidTimeAddsUp'
    BY <1>1, <1>2, <1>4 DEF PayInv, PaidTimeAddsUp
  <1> QED
    BY <1>6, <1>7, <1>8, <1>9, <1>10, <1>11 DEF PayInv

\* A revocation ends the subscriptions it names, and none that an approval
\* has locked to start after.
LEMMA RevokeKeepsInv ==
  ASSUME PayInv, NEW p \in Proc, RevokeSubscriptions(p)
  PROVE  PayInv'
  <1> DEFINE todo == req[p].todo
  <1>1. /\ DOMAIN subs = 1 .. Len(subs) /\ Len(subs) \in Nat
        /\ \A i \in DOMAIN subs : subs[i] \in Subscription
        /\ req[p].now \in Nat /\ todo \in SUBSET Nat /\ req[p].user \in User
    BY SubscriptionsAre, RequestFacts DEF PayInv, Sound, RevokeSubscriptions
  <1>2. /\ DOMAIN subs' = DOMAIN subs
        /\ \A i \in DOMAIN subs :
             subs'[i] = IF i \in todo THEN [subs[i] EXCEPT !.expiresAt = req[p].now]
                        ELSE subs[i]
    BY DEF RevokeSubscriptions
  <1>3. \A i \in DOMAIN subs :
          /\ subs'[i] \in Subscription
          /\ subs'[i].user = subs[i].user /\ subs'[i].plan = subs[i].plan
          /\ subs'[i].origin = subs[i].origin /\ subs'[i].startedAt = subs[i].startedAt
          /\ subs'[i].expiresAt \in {subs[i].expiresAt, req[p].now}
          /\ i \notin todo => subs'[i] = subs[i]
    BY <1>1, <1>2 DEF Subscription
  <1>4. subs' \in Seq(Subscription)
    <2>1. subs' = [i \in 1 .. Len(subs) |-> subs'[i]]
      BY <1>1 DEF RevokeSubscriptions
    <2> QED
      BY <1>1, <1>3, <2>1
  <1>5. /\ revoked' = revoked \cup todo
        /\ UNCHANGED <<clock, offer, settings, order, planName>>
        /\ \A q \in Proc : At(q, "approve") => req[q].current \notin todo
    BY DEF RevokeSubscriptions, SubLocked
  <1>6. /\ req' \in [Proc -> Request]
        /\ \A q \in Proc : q # p => req'[q] = req[q]
        /\ req'[p].pc = "nameFree" /\ req'[p].user = req[p].user
    <2>1. req \in [Proc -> Request] /\ req' = [req EXCEPT ![p].pc = "nameFree"]
      BY DEF RevokeSubscriptions, Continue, PayInv, TypeOK
    <2> QED
      BY <2>1 DEF Request
  <1>7. TypeOK'
    BY <1>1, <1>4, <1>5, <1>6 DEF PayInv, TypeOK
  <1> HIDE DEF todo
  <1>8. \A q \in Proc : Sound(q)' /\ StartsLast(q)'
    <2> TAKE q \in Proc
    <2>1. CASE q = p
      BY <1>1, <1>6, <2>1 DEF Sound, StartsLast, HoldsOrder, At
    <2>2. CASE q # p
      <3>1. req'[q] = req[q] /\ Sound(q) /\ StartsLast(q)
        BY <1>6, <2>2 DEF PayInv
      <3>2. At(q, "approve") /\ req[q].current # 0 =>
              subs'[req[q].current] = subs[req[q].current]
        BY <1>3, <1>5, <3>1 DEF Sound
      <3>3. Sound(q)'
        BY <1>2, <1>5, <3>1, <3>2 DEF Sound, HoldsOrder, At
      <3>4. At(q, "approve") => StartsAt(q)' = StartsAt(q)
        BY <3>1, <3>2 DEF StartsAt
      <3>5. \A i : Purchase(i, req[q].user, req[q].plan)' =>
                     Purchase(i, req[q].user, req[q].plan) /\ subs'[i] = subs[i]
        BY <1>2, <1>3, <1>5, <3>1 DEF Purchase
      <3> QED
        BY <3>1, <3>3, <3>4, <3>5 DEF StartsLast, At
    <2> QED
      BY <2>1, <2>2
  <1>9. \A a, b \in Proc : a # b => Apart(a, b)'
    BY <1>6 DEF PayInv, Apart, HoldsOrder, HoldsUser, At
  <1>10. OrdersAreNamed' /\ PurchasesAreDated'
    BY <1>1, <1>2, <1>3, <1>5 DEF PayInv, OrdersAreNamed, PurchasesAreDated
  <1>11. OrdersBuyOneSubscription'
    BY <1>2, <1>3, <1>5 DEF PayInv, OrdersBuyOneSubscription
  <1>12. PaidTimeAddsUp'
    BY <1>2, <1>3, <1>5 DEF PayInv, PaidTimeAddsUp
  <1> QED
    BY <1>7, <1>8, <1>9, <1>10, <1>11, <1>12 DEF PayInv

-----------------------------------------------------------------------------
\* The clock, the settings and the prices are no part of the invariant but
\* its types.
LEMMA SurroundingsKeepInv ==
  ASSUME PayInv, TypeOK', UNCHANGED <<order, subs, req, revoked>>
  PROVE  PayInv'
  BY DEF PayInv, Sound, StartsLast, Apart, HoldsOrder, HoldsUser, At, Purchase,
         StartsAt, OrdersAreNamed, PurchasesAreDated, OrdersBuyOneSubscription,
         PaidTimeAddsUp

\* The invariant is inductive.
LEMMA NextPayInv == PayInv /\ [Next]_vars => PayInv'
  <1> SUFFICES ASSUME PayInv, [Next]_vars PROVE PayInv'
    OBVIOUS
  <1>1. CASE Tick
    <2>1. TypeOK'
      BY <1>1 DEF Tick, PayInv, TypeOK
    <2> QED
      BY <1>1, <2>1, SurroundingsKeepInv DEF Tick
  <1>2. ASSUME NEW a \in Account, UpdatePaymentSettings(a)
        PROVE  PayInv'
    <2>1. TypeOK'
      BY <1>2 DEF UpdatePaymentSettings, PayInv, TypeOK
    <2> QED
      BY <1>2, <2>1, SurroundingsKeepInv DEF UpdatePaymentSettings
  <1>3. ASSUME NEW pl \in Plan, NEW price \in Price \cup {NoPrice}, UpdatePlan(pl, price)
        PROVE  PayInv'
    <2>1. TypeOK'
      BY <1>3 DEF UpdatePlan, PayInv, TypeOK
    <2> QED
      BY <1>3, <2>1, SurroundingsKeepInv DEF UpdatePlan
  <1>4. ASSUME NEW p \in Proc, Step(p)
        PROVE  PayInv'
    <2>1. CASE \/ \E u \in User, pl \in Plan : BeginOrder(p, u, pl)
               \/ \E o \in Order : BeginApproval(p, o)
               \/ \E u \in User : BeginRevoke(p, u)
      BY <2>1, BeginnersKeepInv
    <2>2. CASE PlaceOrder(p)
      BY <2>2, PlaceOrderKeepsInv
    <2>3. CASE RefuseOrder(p) \/ Fail(p)
      BY <2>3, AnswerKeepsInv DEF RefuseOrder, Fail, PayInv, TypeOK
    <2>4. CASE LockOrder(p)
      BY <2>4, LockOrderKeepsInv
    <2>5. CASE LockUser(p)
      BY <2>5, LockUserKeepsInv
    <2>6. CASE LockCurrent(p)
      BY <2>6, LockCurrentKeepsInv
    <2>7. CASE Approve(p)
      BY <2>7, ApproveKeepsInv
    <2>8. CASE \E u \in User, pl \in Plan, end \in {Undated, clock + Duration} :
                 GrantPlan(p, u, pl, end)
      BY <2>8, GrantKeepsInv
    <2>9. CASE NameGrantedPlan(p)
      <3>1. req[p].plan \in Plan \cup {Free}
        BY RequestFacts DEF PayInv
      <3>2. planName' \in [User -> Plan \cup {Free}]
        BY <2>9, <3>1 DEF NameGrantedPlan, PayInv, TypeOK
      <3> QED
        BY <2>9, <3>2, AnswerKeepsInv DEF NameGrantedPlan
    <2>10. CASE RevokeSubscriptions(p)
      BY <2>10, RevokeKeepsInv
    <2>11. CASE ResetPlanName(p)
      <3>1. planName' \in [User -> Plan \cup {Free}]
        BY <2>11 DEF ResetPlanName, PayInv, TypeOK
      <3> QED
        BY <2>11, <3>1, AnswerKeepsInv DEF ResetPlanName
    <2> QED
      BY <1>4, <2>1, <2>2, <2>3, <2>4, <2>5, <2>6, <2>7, <2>8, <2>9, <2>10, <2>11
      DEF Step
  <1>5. CASE UNCHANGED vars
    <2>1. TypeOK'
      BY <1>5 DEF vars, PayInv, TypeOK
    <2> QED
      BY <1>5, <2>1, SurroundingsKeepInv DEF vars
  <1> QED
    BY <1>1, <1>2, <1>3, <1>4, <1>5 DEF Next

\* The invariant holds in every state of every behaviour.
LEMMA PayInvAlways == Spec => []PayInv
  BY InitPayInv, NextPayInv, PTL DEF Spec

\* Every variable keeps its type: no table of the payment code
\* (payments.service.ts:61-405, plans.service.ts:707-738) holds a row outside
\* its columns' values.
THEOREM PaymentsTypeCorrect == Spec => []TypeOK
  <1>1. PayInv => TypeOK
    BY DEF PayInv
  <1> QED
    BY <1>1, PayInvAlways, PTL

\* For any number of administrators approving any orders at once, with
\* failures anywhere, an order buys one subscription
\* (payments.service.ts:309-405).
THEOREM OrdersBuyOne == Spec => []OrdersBuyOneSubscription
  <1>1. PayInv => OrdersBuyOneSubscription
    BY DEF PayInv
  <1> QED
    BY <1>1, PayInvAlways, PTL

\* Paid time adds up whatever is approved, granted and revoked meanwhile
\* (payments.service.ts:366-389).
THEOREM PaidTimeAlwaysAddsUp == Spec => []PaidTimeAddsUp
  <1>1. PayInv => PaidTimeAddsUp
    BY DEF PayInv
  <1> QED
    BY <1>1, PayInvAlways, PTL

-----------------------------------------------------------------------------
(***************************************************************************)
(* Revocations.  What was revoked is over; a revocation under way deals    *)
(* with its own user's subscriptions; and a user who is named after a plan *)
(* has a subscription that nobody revoked, or one given by hand, or a      *)
(* revocation is about to take the name away.                              *)
(***************************************************************************)
Deals(p) ==
  /\ At(p, "revoke") =>
       /\ req[p].now <= clock
       /\ \A i \in req[p].todo : i \in DOMAIN subs /\ subs[i].user = req[p].user
  /\ At(p, "nameGrant") => \E i \in SubsOf(req[p].user) : subs[i].origin = Grant

RevokedAreOver ==
  \A i \in revoked :
    i \in DOMAIN subs /\ subs[i].expiresAt # Undated /\ subs[i].expiresAt <= clock

Unrevoked(u) == \E i \in SubsOf(u) : i \notin revoked \/ subs[i].origin = Grant
Renaming(u) == \E p \in Proc : At(p, "nameFree") /\ req[p].user = u

NamedForAReason ==
  \A u \in User : planName[u] # Free => Unrevoked(u) \/ Renaming(u)

RevokeInv ==
  PayInv /\ RevokedAreOver /\ NamedForAReason /\ \A p \in Proc : Deals(p)

\* Subscriptions stay, their user and their origin too.
SubsStay ==
  \A i \in DOMAIN subs :
    /\ i \in DOMAIN subs'
    /\ subs'[i].user = subs[i].user /\ subs'[i].origin = subs[i].origin

\* A step of one request that revokes nothing keeps the invariant when it deals
\* with its own user and gives a reason for every new name.
LEMMA StepKeepsRevokeInv ==
  ASSUME RevokeInv, PayInv', NEW p \in Proc, SubsStay,
         UNCHANGED <<clock, revoked>>, \A i \in revoked : subs'[i] = subs[i],
         \A q \in Proc : q # p => req'[q] = req[q],
         Deals(p)',
         \A u \in User : planName'[u] # planName[u] /\ planName'[u] # Free => Unrevoked(u)',
         At(p, "nameFree") => planName'[req[p].user] = Free
  PROVE  RevokeInv'
  <1>1. RevokedAreOver'
    BY DEF RevokeInv, RevokedAreOver, SubsStay
  <1>2. \A u \in User : Unrevoked(u) => Unrevoked(u)'
    BY DEF Unrevoked, SubsOf, SubsStay
  <1>3. ASSUME NEW q \in Proc, q # p
        PROVE  Deals(q)'
    <2>1. req'[q] = req[q] /\ Deals(q)
      BY <1>3 DEF RevokeInv
    <2>2. At(q, "revoke")' => \A i \in req[q].todo : i \in DOMAIN subs' /\ subs'[i].user = req[q].user
      BY <2>1 DEF Deals, SubsStay, At
    <2>3. At(q, "nameGrant")' => \E i \in SubsOf(req[q].user) :
            i \in DOMAIN subs' /\ subs'[i].user = req[q].user /\ subs'[i].origin = Grant
      BY <2>1 DEF Deals, SubsStay, SubsOf, At
    <2> QED
      BY <2>1, <2>2, <2>3 DEF Deals, SubsOf, At
  <1>4. ASSUME NEW u \in User, planName'[u] # Free
        PROVE  Unrevoked(u)' \/ Renaming(u)'
    <2>1. CASE planName'[u] = planName[u]
      <3>1. Unrevoked(u) \/ Renaming(u)
        BY <1>4, <2>1 DEF RevokeInv, NamedForAReason
      <3>2. Renaming(u) => Renaming(u)'
        BY <1>4 DEF Renaming, At
      <3> QED
        BY <1>2, <3>1, <3>2
    <2> QED
      BY <1>4, <2>1
  <1> QED
    BY <1>1, <1>3, <1>4 DEF RevokeInv, NamedForAReason

\* Most requests touch neither subscriptions nor names.
LEMMA OrdersKeepRevokeInv ==
  ASSUME RevokeInv, PayInv', "halfway" \notin Ops, NEW p \in Proc,
         \/ \E u \in User, pl \in Plan : BeginOrder(p, u, pl)
         \/ PlaceOrder(p) \/ RefuseOrder(p)
         \/ \E o \in Order : BeginApproval(p, o)
         \/ LockOrder(p) \/ LockUser(p) \/ LockCurrent(p)
         \/ \E u \in User : BeginRevoke(p, u)
         \/ Fail(p)
  PROVE  RevokeInv'
  <1>1. /\ TypeOK /\ UNCHANGED <<clock, subs, planName, revoked>>
        /\ ~At(p, "nameFree")
    BY DEF BeginOrder, PlaceOrder, RefuseOrder, BeginApproval, LockOrder, LockUser,
           LockCurrent, BeginRevoke, Fail, RevokeInv, PayInv, At
  <1>2. /\ \A q \in Proc : q # p => req'[q] = req[q]
        /\ \/ req'[p].pc \notin {"revoke", "nameGrant"}
           \/ \E u \in User : /\ req'[p].pc = "revoke" /\ req'[p].user = u
                              /\ req'[p].now = clock /\ req'[p].todo = SubsOf(u)
    <2>1. CASE Finish(p)
      BY <1>1, <2>1, FinishType DEF Idle
    <2>2. CASE LockOrder(p) /\ ~Finish(p)
      <3>1. req' = [req EXCEPT ![p].pc = "lockUser", ![p].now = clock,
                               ![p].user = order[req[p].ord].user,
                               ![p].plan = order[req[p].ord].plan]
        BY <2>2 DEF LockOrder
      <3> QED
        BY <1>1, <3>1 DEF TypeOK, Request
    <2>3. CASE LockUser(p) \/ LockCurrent(p)
      BY <1>1, <2>3 DEF LockUser, LockCurrent, Continue, TypeOK, Request
    <2>4. CASE (\E u \in User, pl \in Plan : BeginOrder(p, u, pl))
               \/ (\E o \in Order : BeginApproval(p, o))
      <3>1. CASE \E u \in User, pl \in Plan : BeginOrder(p, u, pl)
        <4>1. PICK u \in User, pl \in Plan : BeginOrder(p, u, pl)
          BY <3>1
        <4>2. req' = [req EXCEPT ![p] = [Idle EXCEPT !.pc = "place", !.user = u,
                                           !.plan = pl, !.amount = offer[pl]]]
          BY <4>1 DEF BeginOrder
        <4> QED
          BY <1>1, <4>2 DEF Idle, TypeOK
      <3>2. CASE \E o \in Order : BeginApproval(p, o)
        <4>1. PICK o \in Order : BeginApproval(p, o)
          BY <3>2
        <4>2. req' = [req EXCEPT ![p] = [Idle EXCEPT !.pc = "lockOrder", !.ord = o]]
          BY <4>1 DEF BeginApproval
        <4> QED
          BY <1>1, <4>2 DEF Idle, TypeOK
      <3> QED
        BY <2>4, <3>1, <3>2
    <2>5. CASE \E u \in User : BeginRevoke(p, u)
      <3>1. PICK u \in User : BeginRevoke(p, u)
        BY <2>5
      <3>2. req' = [req EXCEPT ![p] = [Idle EXCEPT !.pc = "revoke", !.user = u,
                                         !.now = clock, !.todo = SubsOf(u)]]
        BY <3>1 DEF BeginRevoke
      <3> QED
        BY <1>1, <3>2 DEF Idle, TypeOK
    <2> QED
      BY <2>1, <2>2, <2>3, <2>4, <2>5 DEF PlaceOrder, RefuseOrder, Fail
  <1>3. Deals(p)'
    <2>1. clock \in Nat
      BY <1>1 DEF TypeOK
    <2> QED
      BY <1>1, <1>2, <2>1 DEF Deals, SubsOf, At
  <1> QED
    BY <1>1, <1>2, <1>3, StepKeepsRevokeInv DEF SubsStay

\* Appending adds one element at the end.
LEMMA Appending ==
  ASSUME NEW S, NEW q \in Seq(S), NEW e, NEW r, r = Append(q, e)
  PROVE  /\ DOMAIN r = DOMAIN q \cup {Len(q) + 1} /\ Len(q) + 1 \notin DOMAIN q
         /\ r[Len(q) + 1] = e /\ \A i \in DOMAIN q : r[i] = q[i]
  <1> DEFINE T == S \cup {e}
  <1>1. q \in Seq(T) /\ e \in T
    OBVIOUS
  <1> HIDE DEF T
  <1> QED
    BY <1>1

\* An approved order's subscription is one that nobody has revoked, and a
\* granted one is given by hand.
LEMMA NewSubscriptionKeepsRevokeInv ==
  ASSUME RevokeInv, PayInv', NEW p \in Proc,
         \/ Approve(p)
         \/ \E u \in User, pl \in Plan, end \in {Undated, clock + Duration} :
              GrantPlan(p, u, pl, end)
  PROVE  RevokeInv'
  <1>0. TypeOK
    BY DEF RevokeInv, PayInv
  <1> DEFINE n == Len(subs) + 1
  <1>1. PICK s :
          /\ subs' = Append(subs, s)
          /\ \/ Approve(p) /\ s.user = req[p].user /\ s.origin = req[p].ord
             \/ \E u \in User, pl \in Plan, end \in {Undated, clock + Duration} :
                  GrantPlan(p, u, pl, end) /\ s.user = u /\ s.origin = Grant
    <2>1. CASE Approve(p)
      <3>1. PICK s : /\ subs' = Append(subs, s)
                     /\ s = [user |-> req[p].user, plan |-> req[p].plan,
                             startedAt |-> StartsAt(p),
                             expiresAt |-> StartsAt(p) + Duration, origin |-> req[p].ord]
        BY <2>1 DEF Approve
      <3>2. s.user = req[p].user /\ s.origin = req[p].ord
        BY <3>1
      <3> QED
        BY <2>1, <3>1, <3>2
    <2>2. ASSUME NEW u \in User, NEW pl \in Plan, NEW end \in {Undated, clock + Duration},
                 GrantPlan(p, u, pl, end)
          PROVE  \E s : /\ subs' = Append(subs, s)
                        /\ s.user = u /\ s.origin = Grant
      <3>1. PICK s : /\ subs' = Append(subs, s)
                     /\ s = [user |-> u, plan |-> pl, startedAt |-> clock,
                             expiresAt |-> end, origin |-> Grant]
        BY <2>2 DEF GrantPlan
      <3>2. s.user = u /\ s.origin = Grant
        BY <3>1
      <3> QED
        BY <3>1, <3>2
    <2> QED
      BY <2>1, <2>2
  <1>2. UNCHANGED <<clock, revoked>> /\ ~At(p, "nameFree")
    BY DEF Approve, GrantPlan, At
  <1>3. /\ DOMAIN subs' = DOMAIN subs \cup {n} /\ subs'[n] = s /\ n \notin DOMAIN subs
        /\ \A i \in DOMAIN subs : subs'[i] = subs[i]
    <2>1. subs \in Seq(Subscription)
      BY <1>0 DEF TypeOK
    <2>2. subs' = Append(subs, s)
      BY <1>1
    <2> QED
      BY <2>1, <2>2, Appending
  <1> HIDE DEF n
  <1>4. n \notin revoked /\ \A i \in revoked : i \in DOMAIN subs
    BY <1>3 DEF RevokeInv, RevokedAreOver
  <1>5. SubsStay
    BY <1>3 DEF SubsStay
  <1>6. CASE Approve(p) /\ s.user = req[p].user /\ s.origin = req[p].ord
    <2>1. /\ \A q \in Proc : q # p => req'[q] = req[q]
          /\ req'[p].pc = "idle"
      BY <1>0, <1>6, FinishType DEF Approve, Idle
    <2>2. Deals(p)'
      BY <2>1 DEF Deals, At
    <2>3. \A u \in User : planName'[u] # planName[u] => u = req[p].user
      BY <1>0, <1>6 DEF Approve, TypeOK
    <2>4. \A u \in User : u = req[p].user => Unrevoked(u)'
      BY <1>2, <1>3, <1>4, <1>6 DEF Unrevoked, SubsOf
    <2> QED
      BY <1>2, <1>3, <1>4, <1>5, <2>1, <2>2, <2>3, <2>4, StepKeepsRevokeInv
  <1>7. ASSUME NEW u \in User, NEW pl \in Plan, NEW end \in {Undated, clock + Duration},
               GrantPlan(p, u, pl, end), s.user = u, s.origin = Grant
        PROVE  RevokeInv'
    <2>0. /\ planName' = planName
          /\ req' = [req EXCEPT ![p] = [Idle EXCEPT !.pc = "nameGrant", !.user = u,
                                          !.plan = pl]]
      BY <1>7 DEF GrantPlan
    <2>1. /\ \A q \in Proc : q # p => req'[q] = req[q]
          /\ req'[p].pc = "nameGrant" /\ req'[p].user = u
      BY <1>0, <2>0 DEF Idle, TypeOK
    <2>2. Deals(p)'
      BY <1>3, <1>7, <2>1 DEF Deals, SubsOf, At
    <2> QED
      BY <1>2, <1>3, <1>4, <1>5, <2>0, <2>1, <2>2, StepKeepsRevokeInv
  <1> QED
    BY <1>1, <1>6, <1>7

\* Whoever is named after a granted plan has a subscription given by hand.
LEMMA NamingKeepsRevokeInv ==
  ASSUME RevokeInv, PayInv', NEW p \in Proc, NameGrantedPlan(p) \/ ResetPlanName(p)
  PROVE  RevokeInv'
  <1>1. /\ TypeOK /\ Finish(p) /\ UNCHANGED <<clock, subs, revoked>> /\ Deals(p)
        /\ req[p].user \in User
    BY DEF NameGrantedPlan, ResetPlanName, RevokeInv, PayInv, Sound
  <1>2. req'[p].pc = "idle" /\ \A q \in Proc : q # p => req'[q] = req[q]
    BY <1>1, FinishType DEF Idle
  <1>3. Deals(p)' /\ SubsStay
    BY <1>1, <1>2 DEF Deals, SubsStay, At
  <1>4. CASE NameGrantedPlan(p)
    <2>1. \A u \in User : planName'[u] # planName[u] => u = req[p].user
      BY <1>1, <1>4 DEF NameGrantedPlan, TypeOK
    <2>2. \A u \in User : u = req[p].user => Unrevoked(u)'
      BY <1>1, <1>4 DEF NameGrantedPlan, Deals, Unrevoked, SubsOf
    <2>3. ~At(p, "nameFree")
      BY <1>4 DEF NameGrantedPlan, At
    <2> QED
      BY <1>1, <1>2, <1>3, <2>1, <2>2, <2>3, StepKeepsRevokeInv
  <1>5. CASE ResetPlanName(p)
    <2>1. \A u \in User : planName'[u] = IF u = req[p].user THEN Free ELSE planName[u]
      BY <1>1, <1>5 DEF ResetPlanName, TypeOK
    <2> QED
      BY <1>1, <1>2, <1>3, <2>1, StepKeepsRevokeInv
  <1> QED
    BY <1>4, <1>5

\* A revocation's UPDATE ends what it names, and goes on to take the name.
LEMMA RevokingKeepsRevokeInv ==
  ASSUME RevokeInv, PayInv', NEW p \in Proc, RevokeSubscriptions(p)
  PROVE  RevokeInv'
  <1>0. /\ TypeOK /\ Deals(p) /\ At(p, "revoke") /\ req[p].now \in Nat /\ clock \in Nat
        /\ req[p].now <= clock
        /\ \A i \in req[p].todo : i \in DOMAIN subs /\ subs[i].user = req[p].user
    BY RequestFacts DEF RevokeSubscriptions, RevokeInv, PayInv, Deals, TypeOK
  <1>1. /\ DOMAIN subs' = DOMAIN subs
        /\ \A i \in DOMAIN subs :
             subs'[i] = IF i \in req[p].todo THEN [subs[i] EXCEPT !.expiresAt = req[p].now]
                        ELSE subs[i]
        /\ revoked' = revoked \cup req[p].todo
        /\ UNCHANGED <<clock, planName>>
    BY DEF RevokeSubscriptions
  <1>2. \A i \in DOMAIN subs :
          /\ subs'[i].user = subs[i].user /\ subs'[i].origin = subs[i].origin
          /\ i \in req[p].todo => subs'[i].expiresAt = req[p].now
          /\ i \notin req[p].todo => subs'[i] = subs[i]
    BY <1>0, <1>1, SubscriptionsAre DEF Subscription
  <1>3. /\ req'[p].pc = "nameFree" /\ req'[p].user = req[p].user
        /\ \A q \in Proc : q # p => req'[q] = req[q]
    BY <1>0 DEF RevokeSubscriptions, Continue, TypeOK, Request
  <1>4. RevokedAreOver'
    <2>1. ASSUME NEW i \in revoked'
          PROVE  /\ i \in DOMAIN subs' /\ subs'[i].expiresAt # Undated
                 /\ subs'[i].expiresAt <= clock
      <3>1. CASE i \in req[p].todo
        BY <1>0, <1>1, <1>2, <3>1 DEF Undated
      <3>2. CASE i \notin req[p].todo
        BY <1>1, <1>2, <2>1, <3>2 DEF RevokeInv, RevokedAreOver
      <3> QED
        BY <3>1, <3>2
    <2> QED
      BY <1>1, <2>1 DEF RevokedAreOver
  <1>5. \A q \in Proc : Deals(q)'
    <2>1. ASSUME NEW q \in Proc, q # p
          PROVE  Deals(q)'
      <3>1. req'[q] = req[q] /\ Deals(q)
        BY <1>3, <2>1 DEF RevokeInv
      <3> QED
        BY <1>1, <1>2, <3>1 DEF Deals, SubsOf, At
    <2>2. Deals(p)'
      BY <1>3 DEF Deals, At
    <2> QED
      BY <2>1, <2>2
  <1>6. ASSUME NEW u \in User, planName'[u] # Free
        PROVE  Unrevoked(u)' \/ Renaming(u)'
    <2>1. CASE u = req[p].user
      BY <1>3, <2>1 DEF Renaming, At
    <2>2. CASE u # req[p].user
      <3>1. Unrevoked(u) \/ Renaming(u)
        BY <1>1, <1>6 DEF RevokeInv, NamedForAReason
      <3>2. Unrevoked(u) => Unrevoked(u)'
        BY <1>0, <1>1, <1>2, <2>2 DEF Unrevoked, SubsOf
      <3>3. Renaming(u) => Renaming(u)'
        BY <1>0, <1>3 DEF Renaming, At
      <3> QED
        BY <3>1, <3>2, <3>3
    <2> QED
      BY <2>1, <2>2
  <1> QED
    BY <1>4, <1>5, <1>6 DEF RevokeInv, NamedForAReason

\* The invariant is inductive, as long as no revocation fails halfway.
LEMMA NextRevokeInv ==
  ASSUME "halfway" \notin Ops
  PROVE  RevokeInv /\ [Next]_vars => RevokeInv'
  <1> SUFFICES ASSUME RevokeInv, [Next]_vars
               PROVE  RevokeInv'
    OBVIOUS
  <1>1. PayInv' /\ TypeOK /\ TypeOK'
    BY NextPayInv DEF RevokeInv, PayInv
  <1>2. ASSUME clock' \in Nat, clock <= clock', UNCHANGED <<subs, planName, req, revoked>>
        PROVE  RevokeInv'
    <2>1. clock \in Nat /\ \A i \in DOMAIN subs : subs[i].expiresAt \in Int
      BY <1>1, SubscriptionsAre DEF TypeOK, Subscription, Undated
    <2>2. RevokedAreOver'
      BY <1>2, <2>1 DEF RevokeInv, RevokedAreOver
    <2>3. \A p \in Proc : Deals(p)'
      BY <1>1, <1>2, <2>1, RequestFacts DEF RevokeInv, Deals, SubsOf, At
    <2>4. NamedForAReason'
      BY <1>2 DEF RevokeInv, NamedForAReason, Unrevoked, Renaming, SubsOf, At
    <2> QED
      BY <1>1, <2>2, <2>3, <2>4 DEF RevokeInv
  <1>3. CASE \/ Tick
             \/ \E a \in Account : UpdatePaymentSettings(a)
             \/ \E pl \in Plan, price \in Price \cup {NoPrice} : UpdatePlan(pl, price)
             \/ UNCHANGED vars
    <2>1. clock' \in Nat /\ clock <= clock' /\ UNCHANGED <<subs, planName, req, revoked>>
      BY <1>1, <1>3 DEF Tick, UpdatePaymentSettings, UpdatePlan, vars, TypeOK
    <2> QED
      BY <1>2, <2>1
  <1>4. ASSUME NEW p \in Proc, Step(p)
        PROVE  RevokeInv'
    BY <1>1, <1>4, OrdersKeepRevokeInv, NewSubscriptionKeepsRevokeInv,
       NamingKeepsRevokeInv, RevokingKeepsRevokeInv DEF Step
  <1> QED
    BY <1>3, <1>4 DEF Next

\* A revocation that is not cut in half takes the plan away, whatever is
\* approved, granted and revoked meanwhile (plans.service.ts:720-738).
THEOREM RevokedUsersAreAlwaysFree ==
  ASSUME "halfway" \notin Ops
  PROVE  Spec => []RevokedUsersAreFree
  <1>1. Init => RevokeInv
    <2> SUFFICES ASSUME Init
                 PROVE  RevokeInv
      OBVIOUS
    <2>1. PayInv /\ revoked = {} /\ \A p \in Proc : req[p].pc = "idle"
      BY InitPayInv DEF Init, Idle
    <2>2. \A u \in User : planName[u] = Free
      BY DEF Init
    <2> QED
      BY <2>1, <2>2 DEF RevokeInv, RevokedAreOver, NamedForAReason, Deals, At
  <1>2. RevokeInv /\ [Next]_vars => RevokeInv'
    BY NextRevokeInv
  <1>3. RevokeInv => RevokedUsersAreFree
    <2>1. SUFFICES ASSUME RevokeInv, \A p \in Proc : At(p, "idle"), NEW u \in User,
                          SubsOf(u) \subseteq {i \in revoked : subs[i].origin # Grant}
                   PROVE  EffectivePlans(u) = {Free}
      BY DEF RevokedUsersAreFree
    <2>2. \A i \in SubsOf(u) : ~Active(i)
      <3>1. clock \in Nat /\ \A i \in SubsOf(u) : subs[i].expiresAt \in Int
        BY <2>1, SubscriptionsAre
        DEF RevokeInv, PayInv, TypeOK, Subscription, SubsOf, Undated
      <3> QED
        BY <2>1, <3>1 DEF RevokeInv, RevokedAreOver, Active
    <2>3. planName[u] = Free
      BY <2>1 DEF RevokeInv, NamedForAReason, Unrevoked, Renaming, At
    <2> QED
      BY <2>2, <2>3 DEF EffectivePlans
  <1> QED
    BY <1>1, <1>2, <1>3, PTL DEF Spec

-----------------------------------------------------------------------------
(***************************************************************************)
(* The ledger of paid time.  A purchase lasts Duration days unless it was  *)
(* revoked; an order nobody has placed has no terms; a revocation under    *)
(* way names its own user's subscriptions.                                 *)
(***************************************************************************)
PurchasesLast ==
  \A i \in DOMAIN subs \ revoked :
    subs[i].origin # Grant => subs[i].expiresAt = subs[i].startedAt + Duration

UnplacedAreEmpty == \A o \in Order : order[o].status = "none" => order[o] = Unplaced

OwnSubs(p) ==
  At(p, "revoke") =>
    \A i \in req[p].todo : i \in DOMAIN subs /\ subs[i].user = req[p].user

LedgerInv ==
  /\ PayInv /\ PurchasesLast /\ UnplacedAreEmpty
  /\ revoked \subseteq DOMAIN subs
  /\ \A p \in Proc : OwnSubs(p)

\* A revocation under way names the subscriptions it found when it began.
LEMMA RevokersBegin ==
  ASSUME TypeOK, [Next]_vars, NEW p \in Proc, At(p, "revoke")'
  PROVE  \/ req'[p] = req[p]
         \/ req'[p].todo = SubsOf(req'[p].user) /\ subs' = subs
  <1>1. req \in [Proc -> Request]
    BY DEF TypeOK
  <1>2. CASE Tick \/ (\E a \in Account : UpdatePaymentSettings(a))
             \/ (\E pl \in Plan, price \in Price \cup {NoPrice} : UpdatePlan(pl, price))
             \/ UNCHANGED vars
    BY <1>2 DEF Tick, UpdatePaymentSettings, UpdatePlan, vars
  <1>3. ASSUME NEW q \in Proc, Step(q)
        PROVE  \/ req'[p] = req[p]
               \/ req'[p].todo = SubsOf(req'[p].user) /\ subs' = subs
    <2>1. ASSUME NEW r, req' = [req EXCEPT ![q] = r], r.pc # "revoke"
          PROVE  req'[p] = req[p]
      BY <1>1, <2>1 DEF At
    <2>2. ASSUME NEW r \in Request, req' = [req EXCEPT ![q] = r], r.pc = "revoke",
                 r.todo = SubsOf(r.user), subs' = subs
          PROVE  req'[p] = req[p] \/ (req'[p].todo = SubsOf(req'[p].user) /\ subs' = subs)
      BY <1>1, <2>2
    <2>3. ASSUME Finish(q)
          PROVE  req'[p] = req[p]
      <3>1. Idle.pc # "revoke"
        BY DEF Idle
      <3> QED
        BY <2>1, <2>3, <3>1 DEF Finish
    <2>4. ASSUME NEW label, Continue(q, label), label # "revoke"
          PROVE  req'[p] = req[p]
      <3>1. req' = [req EXCEPT ![q].pc = label]
        BY <2>4 DEF Continue
      <3> QED
        BY <1>1, <2>4, <3>1 DEF At, Request
    <2>5. ASSUME NEW u \in User, NEW pl \in Plan, BeginOrder(q, u, pl)
          PROVE  req'[p] = req[p]
      <3>1. [Idle EXCEPT !.pc = "place", !.user = u, !.plan = pl, !.amount = offer[pl]].pc = "place"
        BY DEF Idle
      <3> QED
        BY <2>1, <2>5, <3>1 DEF BeginOrder
    <2>6. ASSUME NEW o \in Order, BeginApproval(q, o)
          PROVE  req'[p] = req[p]
      <3>1. [Idle EXCEPT !.pc = "lockOrder", !.ord = o].pc = "lockOrder"
        BY DEF Idle
      <3> QED
        BY <2>1, <2>6, <3>1 DEF BeginApproval
    <2>7. ASSUME LockOrder(q)
          PROVE  req'[p] = req[p]
      <3>1. CASE req' = [req EXCEPT ![q].pc = "lockUser", ![q].now = clock,
                                    ![q].user = order[req[q].ord].user,
                                    ![q].plan = order[req[q].ord].plan]
        BY <1>1, <3>1 DEF At, Request
      <3> QED
        BY <2>3, <2>7, <3>1 DEF LockOrder
    <2>8. ASSUME LockCurrent(q)
          PROVE  req'[p] = req[p]
      <3>1. PICK i : req' = [req EXCEPT ![q].pc = "approve", ![q].current = i]
        BY <2>8 DEF LockCurrent
      <3> QED
        BY <1>1, <3>1 DEF At, Request
    <2>9. ASSUME NEW u \in User, NEW pl \in Plan, NEW end, GrantPlan(q, u, pl, end)
          PROVE  req'[p] = req[p]
      <3>1. [Idle EXCEPT !.pc = "nameGrant", !.user = u, !.plan = pl].pc = "nameGrant"
        BY DEF Idle
      <3> QED
        BY <2>1, <2>9, <3>1 DEF GrantPlan
    <2>10. ASSUME NEW u \in User, BeginRevoke(q, u)
           PROVE  req'[p] = req[p] \/ (req'[p].todo = SubsOf(req'[p].user) /\ subs' = subs)
      <3> DEFINE r == [Idle EXCEPT !.pc = "revoke", !.user = u, !.now = clock, !.todo = SubsOf(u)]
      <3>1. r.user = u /\ r.todo = SubsOf(u)
        BY DEF Idle
      <3>2. req' = [req EXCEPT ![q] = r] /\ subs' = subs
        BY <2>10 DEF BeginRevoke
      <3> HIDE DEF r
      <3> QED
        BY <1>1, <3>1, <3>2
    <2> QED
      BY <1>3, <2>3, <2>4, <2>5, <2>6, <2>7, <2>8, <2>9, <2>10
      DEF Step, PlaceOrder, RefuseOrder, LockUser, Approve, NameGrantedPlan, RevokeSubscriptions,
          ResetPlanName, Fail
  <1> QED
    BY <1>2, <1>3 DEF Next

\* Subscriptions are only appended, keep what they were created with, and end at
\* another time only by a revocation; what is appended by an approval lasts
\* Duration days.
SubsKeep ==
  /\ \A i \in DOMAIN subs :
       /\ i \in DOMAIN subs'
       /\ subs'[i].user = subs[i].user /\ subs'[i].plan = subs[i].plan
       /\ subs'[i].origin = subs[i].origin /\ subs'[i].startedAt = subs[i].startedAt
       /\ i \notin revoked' => i \notin revoked /\ subs'[i].expiresAt = subs[i].expiresAt
  /\ \A i \in DOMAIN subs' \ DOMAIN subs :
       subs'[i].origin # Grant => subs'[i].expiresAt = subs'[i].startedAt + Duration
  /\ revoked' \subseteq DOMAIN subs'

\* Every step keeps them so.
LEMMA NextSubsKeep ==
  ASSUME LedgerInv, [Next]_vars
  PROVE  SubsKeep
  <1>0. TypeOK /\ revoked \subseteq DOMAIN subs /\ subs \in Seq(Subscription)
    BY DEF LedgerInv, PayInv, TypeOK
  <1>1. CASE UNCHANGED <<subs, revoked>>
    BY <1>0, <1>1 DEF SubsKeep
  <1>2. ASSUME NEW s, subs' = Append(subs, s), revoked' = revoked,
               s.origin # Grant => s.expiresAt = s.startedAt + Duration
        PROVE  SubsKeep
    BY <1>0, <1>2, Appending DEF SubsKeep
  <1>3. ASSUME NEW p \in Proc, Approve(p)
        PROVE  SubsKeep
    <2> DEFINE s == [user |-> req[p].user, plan |-> req[p].plan, startedAt |-> StartsAt(p),
                     expiresAt |-> StartsAt(p) + Duration, origin |-> req[p].ord]
    <2>1. subs' = Append(subs, s) /\ revoked' = revoked
      BY <1>3 DEF Approve
    <2>2. s.expiresAt = s.startedAt + Duration
      OBVIOUS
    <2> HIDE DEF s
    <2> QED
      BY <1>2, <2>1, <2>2
  <1>4. ASSUME NEW p \in Proc, NEW u \in User, NEW pl \in Plan, NEW end,
               GrantPlan(p, u, pl, end)
        PROVE  SubsKeep
    <2> DEFINE s == [user |-> u, plan |-> pl, startedAt |-> clock,
                     expiresAt |-> end, origin |-> Grant]
    <2>1. subs' = Append(subs, s) /\ revoked' = revoked
      BY <1>4 DEF GrantPlan
    <2>2. s.origin = Grant
      OBVIOUS
    <2> HIDE DEF s
    <2> QED
      BY <1>2, <2>1, <2>2
  <1>5. ASSUME NEW p \in Proc, RevokeSubscriptions(p)
        PROVE  SubsKeep
    <2>1. /\ DOMAIN subs' = DOMAIN subs
          /\ \A i \in DOMAIN subs :
               subs'[i] = IF i \in req[p].todo
                          THEN [subs[i] EXCEPT !.expiresAt = req[p].now] ELSE subs[i]
          /\ revoked' = revoked \cup req[p].todo
          /\ At(p, "revoke")
      BY <1>5 DEF RevokeSubscriptions
    <2>2. \A i \in DOMAIN subs : subs[i] \in Subscription
      BY <1>0
    <2>3. \A i \in DOMAIN subs :
            /\ subs'[i].user = subs[i].user /\ subs'[i].plan = subs[i].plan
            /\ subs'[i].origin = subs[i].origin /\ subs'[i].startedAt = subs[i].startedAt
            /\ i \notin req[p].todo => subs'[i] = subs[i]
      BY <2>1, <2>2 DEF Subscription
    <2>4. req[p].todo \subseteq DOMAIN subs
      BY <2>1 DEF LedgerInv, OwnSubs
    <2> QED
      BY <1>0, <2>1, <2>3, <2>4 DEF SubsKeep
  <1>6. \/ UNCHANGED <<subs, revoked>>
        \/ \E p \in Proc : Approve(p)
        \/ \E p \in Proc, u \in User, pl \in Plan, end \in {Undated, clock + Duration} :
             GrantPlan(p, u, pl, end)
        \/ \E p \in Proc : RevokeSubscriptions(p)
    BY DEF Next, Step, Tick, UpdatePaymentSettings, UpdatePlan, BeginOrder, PlaceOrder,
           RefuseOrder, BeginApproval, LockOrder, LockUser, LockCurrent,
           NameGrantedPlan, BeginRevoke, ResetPlanName, Fail, vars
  <1> QED
    BY <1>1, <1>3, <1>4, <1>5, <1>6

\* Whatever a step does, the orders that nobody has placed are empty after it.
LEMMA NextUnplacedAreEmpty ==
  ASSUME TypeOK, UnplacedAreEmpty, [Next]_vars
  PROVE  UnplacedAreEmpty'
  <1>1. order \in [Order -> OrderRow]
    BY DEF TypeOK
  <1>2. CASE order' = order
    BY <1>2 DEF UnplacedAreEmpty
  <1>3. ASSUME NEW p \in Proc, PlaceOrder(p)
        PROVE  UnplacedAreEmpty'
    <2>1. PICK o \in Order :
            order' = [order EXCEPT ![o] =
              [status |-> "pending", user |-> req[p].user, plan |-> req[p].plan,
               amount |-> req[p].amount, account |-> settings,
               expiresAt |-> clock + Validity]]
      BY <1>3 DEF PlaceOrder
    <2> QED
      BY <1>1, <2>1 DEF UnplacedAreEmpty
  <1>4. ASSUME NEW p \in Proc, Approve(p)
        PROVE  UnplacedAreEmpty'
    <2>1. order' = [order EXCEPT ![req[p].ord].status = "paid"]
      BY <1>4 DEF Approve
    <2> QED
      BY <1>1, <2>1 DEF UnplacedAreEmpty, OrderRow
  <1>5. \/ order' = order
        \/ \E p \in Proc : PlaceOrder(p) \/ Approve(p)
    BY DEF Next, Step, Tick, UpdatePaymentSettings, UpdatePlan, BeginOrder,
           RefuseOrder, BeginApproval, LockOrder, LockUser, LockCurrent, GrantPlan,
           NameGrantedPlan, BeginRevoke, RevokeSubscriptions, ResetPlanName, Fail, vars
  <1> QED
    BY <1>2, <1>3, <1>4, <1>5

\* The invariant of the ledger is inductive.
LEMMA NextLedgerInv == LedgerInv /\ [Next]_vars => LedgerInv'
  <1> SUFFICES ASSUME LedgerInv, [Next]_vars
               PROVE  LedgerInv'
    OBVIOUS
  <1>1. PayInv' /\ TypeOK
    BY NextPayInv DEF LedgerInv, PayInv
  <1>2. SubsKeep
    BY NextSubsKeep
  <1>3. PurchasesLast'
    BY <1>2 DEF SubsKeep, PurchasesLast, LedgerInv
  <1>4. UnplacedAreEmpty'
    BY <1>1, NextUnplacedAreEmpty DEF LedgerInv
  <1>5. ASSUME NEW p \in Proc
        PROVE  OwnSubs(p)'
    <2> SUFFICES ASSUME At(p, "revoke")'
                 PROVE  \A i \in req'[p].todo :
                          i \in DOMAIN subs' /\ subs'[i].user = req'[p].user
      BY DEF OwnSubs
    <2>1. CASE req'[p] = req[p]
      <3>1. OwnSubs(p) /\ At(p, "revoke")
        BY <2>1 DEF LedgerInv, At
      <3> QED
        BY <1>2, <2>1, <3>1 DEF OwnSubs, SubsKeep
    <2>2. CASE req'[p].todo = SubsOf(req'[p].user) /\ subs' = subs
      BY <2>2 DEF SubsOf
    <2> QED
      BY <1>1, <2>1, <2>2, RevokersBegin
  <1> QED
    BY <1>1, <1>2, <1>3, <1>4, <1>5 DEF LedgerInv, SubsKeep

(***************************************************************************)
(* What the ledger reads off the tables: an order has days when it is      *)
(* paid, and they are Duration days from the start of the subscription     *)
(* that it bought.                                                         *)
(***************************************************************************)
DaysAreBought ==
  \A o \in Order :
    /\ order[o].status # "paid" =>
         LedgerDays[o] = NoDays /\ \A i \in DOMAIN subs : subs[i].origin # o
    /\ order[o].status = "paid" => \E i \in DOMAIN subs : subs[i].origin = o
    /\ \A i \in DOMAIN subs : subs[i].origin = o =>
         /\ subs[i].user = order[o].user /\ subs[i].plan = order[o].plan
         /\ subs[i].startedAt \in Nat
         /\ LedgerDays[o].from = subs[i].startedAt
         /\ LedgerDays[o].to = subs[i].startedAt + Duration
         /\ LedgerDays[o] # NoDays

\* The invariant gives that.
LEMMA LedgerDaysAreBought == LedgerInv => DaysAreBought
  <1> SUFFICES ASSUME LedgerInv, NEW o \in Order
               PROVE
    /\ order[o].status # "paid" =>
         LedgerDays[o] = NoDays /\ \A i \in DOMAIN subs : subs[i].origin # o
    /\ order[o].status = "paid" => \E i \in DOMAIN subs : subs[i].origin = o
    /\ \A i \in DOMAIN subs : subs[i].origin = o =>
         /\ subs[i].user = order[o].user /\ subs[i].plan = order[o].plan
         /\ subs[i].startedAt \in Nat
         /\ LedgerDays[o].from = subs[i].startedAt
         /\ LedgerDays[o].to = subs[i].startedAt + Duration
         /\ LedgerDays[o] # NoDays
    BY DEF DaysAreBought
  <1>1. TypeOK /\ OrdersBuyOneSubscription /\ PurchasesLast
    BY DEF LedgerInv, PayInv
  <1>2. CASE order[o].status # "paid"
    BY <1>1, <1>2 DEF OrdersBuyOneSubscription, LedgerDays
  <1>3. CASE order[o].status = "paid"
    <2>1. PICK i \in DOMAIN subs :
            /\ subs[i].user = order[o].user /\ subs[i].plan = order[o].plan
            /\ \A j \in DOMAIN subs : subs[j].origin = o <=> j = i
      BY <1>1, <1>3 DEF OrdersBuyOneSubscription
    <2>2. BoughtBy(o) = i /\ subs[i].origin = o
      BY <2>1 DEF BoughtBy
    <2>3. subs[i].startedAt \in Nat
      BY <1>1, SubscriptionsAre DEF Subscription
    <2>4. i \notin revoked => subs[i].expiresAt = subs[i].startedAt + Duration
      BY <1>1, <2>2, PaymentConstants DEF PurchasesLast
    <2>5. LedgerDays[o] = [from |-> subs[i].startedAt, to |-> subs[i].startedAt + Duration]
      BY <1>3, <2>2, <2>4 DEF LedgerDays, DaysOf
    <2>6. LedgerDays[o] # NoDays
      BY <2>3, <2>5, PaymentConstants DEF NoDays
    <2> QED
      BY <1>3, <2>1, <2>2, <2>3, <2>5, <2>6
  <1> QED
    BY <1>2, <1>3

\* What the steps of the ledger are shown under.
Opened == LedgerInv /\ DaysAreBought

\* An order's days are the same as long as it is paid or not.
LEMMA DaysStay ==
  ASSUME DaysAreBought, DaysAreBought', SubsKeep, NEW o \in Order,
         order'[o].status = "paid" <=> order[o].status = "paid"
  PROVE  LedgerDays'[o] = LedgerDays[o]
  <1>1. CASE order[o].status # "paid"
    <2>1. LedgerDays[o] = NoDays /\ NoDays' = NoDays
      BY <1>1 DEF DaysAreBought, NoDays
    <2>2. LedgerDays'[o] = NoDays'
      BY <1>1 DEF DaysAreBought
    <2> QED
      BY <2>1, <2>2
  <1>2. CASE order[o].status = "paid"
    <2>1. PICK i \in DOMAIN subs : subs[i].origin = o
      BY <1>2 DEF DaysAreBought
    <2>2. LedgerDays[o].from = subs[i].startedAt /\ LedgerDays[o].to = subs[i].startedAt + Duration
      BY <2>1 DEF DaysAreBought
    <2>3. i \in DOMAIN subs' /\ subs'[i].origin = o /\ subs'[i].startedAt = subs[i].startedAt
      BY <2>1 DEF SubsKeep
    <2>4. /\ LedgerDays'[o].from = subs'[i].startedAt
          /\ LedgerDays'[o].to = subs'[i].startedAt + Duration
      BY <2>3 DEF DaysAreBought
    <2>5. LedgerDays[o] = [from |-> LedgerDays[o].from, to |-> LedgerDays[o].to]
      BY <1>2 DEF LedgerDays, DaysOf
    <2>6. LedgerDays'[o] = [from |-> LedgerDays'[o].from, to |-> LedgerDays'[o].to]
      BY <1>2 DEF LedgerDays, DaysOf
    <2> QED
      BY <2>2, <2>3, <2>4, <2>5, <2>6
  <1> QED
    BY <1>1, <1>2

\* The orders of no new revocation are taken back.
LEMMA TakenStay ==
  ASSUME LedgerInv, SubsKeep, revoked' = revoked
  PROVE  LedgerTaken' = LedgerTaken
  BY DEF LedgerTaken, SubsKeep, LedgerInv

\* A step that places no order, buys nothing and revokes nothing leaves the
\* ledger as it is.
LEMMA LedgerStays ==
  ASSUME Opened, DaysAreBought', SubsKeep, order' = order, revoked' = revoked
  PROVE  UNCHANGED Ledger!vars
  <1>1. LedgerTerms' = LedgerTerms
    BY DEF LedgerTerms, TermsOf
  <1>2. \A o \in Order : LedgerDays'[o] = LedgerDays[o]
    BY DaysStay DEF Opened
  <1>3. LedgerDays' = LedgerDays
    BY <1>2 DEF LedgerDays
  <1>4. LedgerTaken' = LedgerTaken
    BY TakenStay DEF Opened
  <1> QED
    BY <1>1, <1>3, <1>4 DEF Ledger!vars

\* Placing an order fixes its terms and touches no other.
LEMMA PlacingPlaces ==
  ASSUME Opened, DaysAreBought', SubsKeep, NEW p \in Proc, PlaceOrder(p)
  PROVE  Ledger!Next
  <1>0. TypeOK /\ UnplacedAreEmpty /\ order \in [Order -> OrderRow]
    BY DEF Opened, LedgerInv, PayInv, TypeOK
  <1>1. PICK o \in Order :
          /\ order[o].status = "none"
          /\ order' = [order EXCEPT ![o] =
               [status |-> "pending", user |-> req[p].user, plan |-> req[p].plan,
                amount |-> req[p].amount, account |-> settings,
                expiresAt |-> clock + Validity]]
    BY DEF PlaceOrder
  <1>2. /\ order'[o].status = "pending" /\ order'[o].user = req[p].user
        /\ \A q \in Order \ {o} : order'[q] = order[q]
    BY <1>0, <1>1
  <1>3. req[p].user # NoUser
    BY PaymentConstants DEF Opened, LedgerInv, PayInv, Sound, PlaceOrder
  <1>4. LedgerTerms[o] = TermsOf(Unplaced)
    BY <1>0, <1>1 DEF LedgerTerms, UnplacedAreEmpty
  <1>5. LedgerTerms'[o].user = req[p].user /\ TermsOf(Unplaced).user = NoUser
    BY <1>2 DEF LedgerTerms, TermsOf, Unplaced
  <1>6. \A q \in Order \ {o} : LedgerTerms'[q] = LedgerTerms[q]
    BY <1>2 DEF LedgerTerms, TermsOf
  <1>7. \A q \in Order : LedgerDays'[q] = LedgerDays[q]
    <2>1. \A q \in Order : order'[q].status = "paid" <=> order[q].status = "paid"
      BY <1>1, <1>2
    <2> QED
      BY <2>1, DaysStay DEF Opened
  <1>8. LedgerDays' = LedgerDays
    BY <1>7 DEF LedgerDays
  <1>9. LedgerTaken' = LedgerTaken
    BY TakenStay DEF Opened, PlaceOrder
  <1>10. Ledger!Place(o)
    BY <1>3, <1>4, <1>5, <1>6, <1>8, <1>9 DEF Ledger!Place
  <1> QED
    BY <1>10 DEF Ledger!Next

\* Approving an order buys its days, behind all that its user has of the plan.
LEMMA ApprovingBuys ==
  ASSUME Opened, DaysAreBought', SubsKeep, NEW p \in Proc, Approve(p)
  PROVE  Ledger!Next
  <1> DEFINE o == req[p].ord
             n == Len(subs) + 1
  <1>0. TypeOK /\ order \in [Order -> OrderRow] /\ subs \in Seq(Subscription)
    BY DEF Opened, LedgerInv, PayInv, TypeOK
  <1>1. /\ o \in Order /\ order[o].status = "pending" /\ At(p, "approve")
        /\ order[o].user = req[p].user /\ order[o].plan = req[p].plan
        /\ order[o].user \in User
    BY DEF Approve, Opened, LedgerInv, PayInv, Sound, HoldsOrder, OrdersAreNamed
  <1>2. order' = [order EXCEPT ![o].status = "paid"]
    BY DEF Approve
  <1>3. /\ order'[o] = [order[o] EXCEPT !.status = "paid"]
        /\ \A q \in Order \ {o} : order'[q] = order[q]
    BY <1>0, <1>1, <1>2
  <1>4. \A q \in Order : TermsOf(order'[q]) = TermsOf(order[q])
    BY <1>0, <1>3 DEF TermsOf, OrderRow
  <1>5. LedgerTerms' = LedgerTerms
    BY <1>4 DEF LedgerTerms, TermsOf
  <1>6. LedgerTaken' = LedgerTaken
    BY TakenStay DEF Opened, Approve
  <1>7. \A q \in Order \ {o} : LedgerDays'[q] = LedgerDays[q]
    BY <1>3, DaysStay DEF Opened
  <1>8. LedgerTerms[o] # TermsOf(Unplaced)
    <2>1. LedgerTerms[o].user = order[o].user /\ TermsOf(Unplaced).user = NoUser
      BY <1>1 DEF LedgerTerms, TermsOf, Unplaced
    <2> QED
      BY <1>1, <2>1, PaymentConstants
  <1>9. LedgerDays[o] = NoDays
    BY <1>1 DEF Opened, DaysAreBought
  <1>10. /\ n \in DOMAIN subs' /\ subs'[n].origin = o
         /\ subs'[n].startedAt = StartsAt(p)
    <2> DEFINE s == [user |-> req[p].user, plan |-> req[p].plan, startedAt |-> StartsAt(p),
                     expiresAt |-> StartsAt(p) + Duration, origin |-> o]
    <2>1. subs' = Append(subs, s)
      BY DEF Approve
    <2>2. s.origin = o /\ s.startedAt = StartsAt(p)
      OBVIOUS
    <2> HIDE DEF s
    <2> QED
      BY <1>0, <2>1, <2>2, Appending
  <1>11. /\ LedgerDays'[o].from = StartsAt(p)
         /\ LedgerDays'[o].to = StartsAt(p) + Duration
    BY <1>1, <1>10 DEF DaysAreBought
  <1>12. ASSUME NEW q \in Order, LedgerDays[q] # NoDays, q \notin LedgerTaken,
                LedgerTerms[o].user = LedgerTerms[q].user,
                LedgerTerms[o].plan = LedgerTerms[q].plan
         PROVE  LedgerDays[q].to <= LedgerDays'[o].from
    <2>1. PICK i \in DOMAIN subs : subs[i].origin = q
      BY <1>12 DEF Opened, DaysAreBought
    <2>2. i \notin revoked
      BY <1>12, <2>1 DEF LedgerTaken
    <2>3. subs[i].user = req[p].user /\ subs[i].plan = req[p].plan
      BY <1>1, <1>12, <2>1 DEF Opened, DaysAreBought, LedgerTerms, TermsOf
    <2>4. Purchase(i, req[p].user, req[p].plan)
      BY <1>12, <2>1, <2>2, <2>3, PaymentConstants DEF Purchase
    <2>5. subs[i].expiresAt <= StartsAt(p)
      BY <1>1, <2>4 DEF Opened, LedgerInv, PayInv, StartsLast
    <2>6. LedgerDays[q].to = subs[i].expiresAt
      BY <1>12, <2>1, <2>2, PaymentConstants DEF Opened, DaysAreBought, LedgerInv, PurchasesLast
    <2> QED
      BY <1>11, <2>5, <2>6
  <1> HIDE DEF o, n
  <1>13. Ledger!Buy(o)
    BY <1>5, <1>6, <1>7, <1>8, <1>9, <1>11, <1>12
    DEF Ledger!Buy, Ledger!Bought, Ledger!Alike
  <1> QED
    BY <1>1, <1>13 DEF Ledger!Next

\* Revoking a user's subscriptions takes back what that user has bought.
LEMMA RevokingTakesBack ==
  ASSUME Opened, DaysAreBought', SubsKeep, NEW p \in Proc, RevokeSubscriptions(p)
  PROVE  Ledger!Next
  <1> DEFINE gone == {o \in Order : \E i \in req[p].todo : subs[i].origin = o}
  <1>1. /\ At(p, "revoke") /\ order' = order
        /\ revoked' = revoked \cup req[p].todo
        /\ \A i \in req[p].todo : i \in DOMAIN subs /\ subs[i].user = req[p].user
    BY DEF RevokeSubscriptions, Opened, LedgerInv, OwnSubs
  <1>2. LedgerTerms' = LedgerTerms
    BY <1>1 DEF LedgerTerms, TermsOf
  <1>3. LedgerDays' = LedgerDays
    <2>1. \A q \in Order : LedgerDays'[q] = LedgerDays[q]
      BY <1>1, DaysStay DEF Opened
    <2> QED
      BY <2>1 DEF LedgerDays
  <1>4. \A o \in gone : o \in Order /\ LedgerDays[o] # NoDays /\ LedgerTerms[o].user = req[p].user
    BY <1>1 DEF Opened, DaysAreBought, LedgerTerms, TermsOf
  <1>5. LedgerTaken' = LedgerTaken \cup gone
    <2>1. \A i \in revoked \cup req[p].todo : subs'[i].origin = subs[i].origin
      BY <1>1 DEF SubsKeep, Opened, LedgerInv
    <2> QED
      BY <1>1, <2>1 DEF LedgerTaken
  <1> HIDE DEF gone
  <1>6. gone \in SUBSET Ledger!Bought /\ Ledger!TakeBack(gone)
    BY <1>2, <1>3, <1>4, <1>5 DEF Ledger!TakeBack, Ledger!Bought
  <1> QED
    BY <1>6 DEF Ledger!Next

\* Purchases implement the ledger of PaidTime: every order buys its days at one
\* instant, on the terms it was placed under and behind all that its user has of
\* the plan, and only a revocation takes them back (payments.service.ts:186-233,
\* 309-405).
THEOREM PaidTimeIsAlwaysKept == Spec => PaidTimeIsKept
  <1>1. Init => LedgerInv /\ Ledger!Init
    <2> SUFFICES ASSUME Init
                 PROVE  LedgerInv /\ Ledger!Init
      OBVIOUS
    <2>1. /\ PayInv /\ revoked = {} /\ DOMAIN subs = {}
          /\ \A o \in Order : order[o] = Unplaced /\ order[o].status = "none"
          /\ \A p \in Proc : req[p].pc = "idle"
      BY InitPayInv DEF Init, Idle, Unplaced
    <2>2. LedgerInv
      BY <2>1 DEF LedgerInv, PurchasesLast, UnplacedAreEmpty, OwnSubs, At
    <2>3. LedgerTerms = [o \in Order |-> TermsOf(Unplaced)]
      BY <2>1 DEF LedgerTerms
    <2>4. LedgerDays = [o \in Order |-> NoDays]
      BY <2>1 DEF LedgerDays
    <2>5. LedgerTaken = {}
      BY <2>1 DEF LedgerTaken
    <2> QED
      BY <2>2, <2>3, <2>4, <2>5 DEF Ledger!Init
  <1>2. LedgerInv /\ [Next]_vars => LedgerInv'
    BY NextLedgerInv
  <1>3. LedgerInv => DaysAreBought
    BY LedgerDaysAreBought
  <1>4. LedgerInv /\ DaysAreBought /\ DaysAreBought' /\ [Next]_vars
          => [Ledger!Next]_(Ledger!vars)
    <2> SUFFICES ASSUME LedgerInv, DaysAreBought, DaysAreBought', [Next]_vars
                 PROVE  [Ledger!Next]_(Ledger!vars)
      OBVIOUS
    <2>1. Opened /\ SubsKeep
      BY NextSubsKeep DEF Opened
    <2>2. CASE \/ Tick
               \/ \E a \in Account : UpdatePaymentSettings(a)
               \/ \E pl \in Plan, price \in Price \cup {NoPrice} : UpdatePlan(pl, price)
               \/ UNCHANGED vars
      <3>1. order' = order /\ revoked' = revoked
        BY <2>2 DEF Tick, UpdatePaymentSettings, UpdatePlan, vars
      <3> QED
        BY <2>1, <3>1, LedgerStays
    <2>3. ASSUME NEW p \in Proc, Step(p)
          PROVE  [Ledger!Next]_(Ledger!vars)
      <3>1. \/ PlaceOrder(p) \/ Approve(p) \/ RevokeSubscriptions(p)
            \/ order' = order /\ revoked' = revoked
        <4>1. ASSUME \/ \E u \in User, pl \in Plan : BeginOrder(p, u, pl)
                     \/ \E o \in Order : BeginApproval(p, o)
                     \/ \E u \in User : BeginRevoke(p, u)
              PROVE  order' = order /\ revoked' = revoked
          BY <4>1 DEF BeginOrder, BeginApproval, BeginRevoke
        <4>2. ASSUME LockOrder(p) \/ LockUser(p) \/ LockCurrent(p)
              PROVE  order' = order /\ revoked' = revoked
          <5>1. LockOrder(p) => order' = order /\ revoked' = revoked
            BY DEF LockOrder
          <5>2. LockUser(p) \/ LockCurrent(p) => order' = order /\ revoked' = revoked
            BY DEF LockUser, LockCurrent
          <5> QED
            BY <4>2, <5>1, <5>2
        <4>3. ASSUME NEW u, NEW pl, NEW end, GrantPlan(p, u, pl, end)
              PROVE  order' = order /\ revoked' = revoked
          BY <4>3 DEF GrantPlan
        <4>4. ASSUME RefuseOrder(p) \/ NameGrantedPlan(p) \/ ResetPlanName(p) \/ Fail(p)
              PROVE  order' = order /\ revoked' = revoked
          BY <4>4 DEF RefuseOrder, NameGrantedPlan, ResetPlanName, Fail
        <4> QED
          BY <2>3, <4>1, <4>2, <4>3, <4>4 DEF Step
      <3> QED
        BY <2>1, <3>1, LedgerStays, PlacingPlaces, ApprovingBuys, RevokingTakesBack
    <2> QED
      BY <2>2, <2>3 DEF Next
  <1> QED
    BY <1>1, <1>2, <1>3, <1>4, PTL DEF Spec, PaidTimeIsKept, Ledger!Spec

=============================================================================
