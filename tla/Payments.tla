------------------------------ MODULE Payments ------------------------------
(***************************************************************************)
(* Buying a plan by bank transfer: orders with the terms they were placed  *)
(* under, the approval of an order by an administrator, the subscriptions  *)
(* it creates, and the plan an administrator grants or revokes by hand     *)
(* (src/src/payments/payments.service.ts, src/src/plans/plans.service.ts). *)
(*                                                                         *)
(* A request runs its statements against PostgreSQL at READ COMMITTED.     *)
(* An approval is one transaction that locks the order, then the user, and *)
(* then the subscription it extends; its writes are seen when it commits.  *)
(* Granting and revoking are two statements with no transaction around     *)
(* them.  Which request holds a row follows from where it stands.          *)
(***************************************************************************)
EXTENDS Integers, Sequences, FiniteSets

CONSTANTS
  Proc,      \* concurrent requests
  Order,     \* payment orders
  User,
  Plan,      \* plans that cost money
  Price,
  Account,   \* bank accounts the settings can name
  Free,      \* the plan every user starts with
  Grant,     \* the origin of a subscription an administrator gave
  NoOrder, NoUser, NoPrice, NoAccount,
  Duration,  \* PURCHASE_DURATION_DAYS
  Validity,  \* ORDER_VALIDITY_HOURS
  Ops,       \* the operations a run lets clients call
  MaxTime,   \* bound: last instant of the clock
  MaxSubs    \* bound: subscriptions ever created

ASSUME PaymentConstants ==
  /\ Free \notin Plan /\ Grant \notin Order /\ NoOrder \notin Order
  /\ NoUser \notin User /\ NoPrice \notin Price /\ NoAccount \notin Account
  /\ Duration \in Nat \ {0} /\ Validity \in Nat
  /\ MaxTime \in Nat /\ MaxSubs \in Nat

VARIABLES
  clock,     \* new Date()
  offer,     \* price of an active plan with a valid price, else NoPrice
  settings,  \* the bank account of payment_settings row 1, or NoAccount
  order,     \* payment_orders
  subs,      \* user_subscriptions, in the order they were committed
  planName,  \* users.planName
  req,       \* what each request is doing
  revoked    \* history: subscriptions that a revocation ended

vars == <<clock, offer, settings, order, subs, planName, req, revoked>>

Undated == -1   \* expiresAt IS NULL: no comparison with a date holds
Unplaced == [status |-> "none", user |-> NoUser, plan |-> Free,
             amount |-> NoPrice, account |-> NoAccount, expiresAt |-> 0]
Idle == [pc |-> "idle", ord |-> NoOrder, user |-> NoUser, plan |-> Free,
         amount |-> NoPrice, now |-> 0, current |-> 0, todo |-> {}]

OrderRow ==
  [status : {"none", "pending", "paid"}, user : User \cup {NoUser},
   plan : Plan \cup {Free}, amount : Price \cup {NoPrice},
   account : Account \cup {NoAccount}, expiresAt : Nat]

Subscription ==
  [user : User, plan : Plan, startedAt : Nat, expiresAt : Nat \cup {Undated},
   origin : Order \cup {Grant}]

(***************************************************************************)
(* pc: where a request stands.  "place" has read the plan and is about to  *)
(* read the settings; "lockOrder", "lockUser" and "lockCurrent" wait for   *)
(* the rows an approval locks, "approve" holds them; "nameGrant" has       *)
(* inserted a granted subscription; "revoke" updates the subscriptions in  *)
(* `todo', "nameFree" has done so.                                         *)
(***************************************************************************)
Request ==
  [pc : {"idle", "place", "lockOrder", "lockUser", "lockCurrent", "approve",
         "nameGrant", "revoke", "nameFree"},
   ord : Order \cup {NoOrder}, user : User \cup {NoUser},
   plan : Plan \cup {Free}, amount : Price \cup {NoPrice},
   now : Nat, current : Nat, todo : SUBSET Nat]

TypeOK ==
  /\ clock \in Nat
  /\ offer \in [Plan -> Price \cup {NoPrice}]
  /\ settings \in Account \cup {NoAccount}
  /\ order \in [Order -> OrderRow]
  /\ subs \in Seq(Subscription)
  /\ planName \in [User -> Plan \cup {Free}]
  /\ req \in [Proc -> Request]
  /\ revoked \in SUBSET Nat

Init ==
  /\ clock = 0
  /\ offer \in [Plan -> Price]
  /\ settings \in Account \cup {NoAccount}
  /\ order = [o \in Order |-> Unplaced]
  /\ subs = <<>>
  /\ planName = [u \in User |-> Free]
  /\ req = [p \in Proc |-> Idle]
  /\ revoked = {}

-----------------------------------------------------------------------------
At(p, label) == req[p].pc = label
Finish(p) == req' = [req EXCEPT ![p] = Idle]
Continue(p, label) == req' = [req EXCEPT ![p].pc = label]

SubsOf(u) == {i \in DOMAIN subs : subs[i].user = u}
Active(i) == subs[i].expiresAt = Undated \/ subs[i].expiresAt > clock

\* Mutants: the order, or the user, is read without FOR UPDATE.
OrderNeverLocked(o) == FALSE
UserNeverLocked(u) == FALSE

\* The rows of other transactions that FOR UPDATE waits for.
OrderLocked(o) ==
  \E p \in Proc : req[p].ord = o
    /\ (At(p, "lockUser") \/ At(p, "lockCurrent") \/ At(p, "approve"))
UserLocked(u) ==
  \E p \in Proc : req[p].user = u /\ (At(p, "lockCurrent") \/ At(p, "approve"))
SubLocked(i) == \E p \in Proc : At(p, "approve") /\ req[p].current = i

\* getEffectivePlan of a user who is not an administrator: a plan of an
\* unexpired subscription, and users.planName when there is none.
EffectivePlans(u) ==
  LET active == {i \in SubsOf(u) : Active(i)} IN
  IF active = {} THEN {planName[u]} ELSE {subs[i].plan : i \in active}

-----------------------------------------------------------------------------
(* Placing an order.                                                       *)

\* createOrder reads a plan that is on sale and has a valid price.
BeginOrder(p, u, pl) ==
  /\ "order" \in Ops /\ At(p, "idle")
  /\ offer[pl] # NoPrice
  /\ req' = [req EXCEPT ![p] = [Idle EXCEPT !.pc = "place", !.user = u,
                                  !.plan = pl, !.amount = offer[pl]]]
  /\ UNCHANGED <<clock, offer, settings, order, subs, planName, revoked>>

\* It reads the settings, and stores their account and the price it read.
PlaceOrder(p) ==
  /\ At(p, "place")
  /\ settings # NoAccount
  /\ \E o \in Order :
       /\ order[o].status = "none"
       /\ order' = [order EXCEPT ![o] =
            [status |-> "pending", user |-> req[p].user, plan |-> req[p].plan,
             amount |-> req[p].amount, account |-> settings,
             expiresAt |-> clock + Validity]]
  /\ Finish(p)
  /\ UNCHANGED <<clock, offer, settings, subs, planName, revoked>>

\* Payment is not configured: the order is refused.
RefuseOrder(p) ==
  /\ At(p, "place")
  /\ settings = NoAccount
  /\ Finish(p)
  /\ UNCHANGED <<clock, offer, settings, order, subs, planName, revoked>>

\* updatePaymentSettings writes every field of row 1.
UpdatePaymentSettings(a) ==
  /\ "settings" \in Ops /\ a # settings
  /\ settings' = a
  /\ UNCHANGED <<clock, offer, order, subs, planName, req, revoked>>

\* updatePlan changes the price of a plan or takes it off sale.
UpdatePlan(pl, price) ==
  /\ "settings" \in Ops /\ offer[pl] # price
  /\ offer' = [offer EXCEPT ![pl] = price]
  /\ UNCHANGED <<clock, settings, order, subs, planName, req, revoked>>

-----------------------------------------------------------------------------
(* Approving an order: markOrderPaid and fulfillPaymentOrder.              *)

BeginApproval(p, o) ==
  /\ "pay" \in Ops /\ At(p, "idle")
  /\ order[o].status # "none"
  /\ req' = [req EXCEPT ![p] = [Idle EXCEPT !.pc = "lockOrder", !.ord = o]]
  /\ UNCHANGED <<clock, offer, settings, order, subs, planName, revoked>>

\* SELECT ... FOR UPDATE on the order.  A paid order is answered as it is,
\* an expired one is approved all the same; `now' is read at this point.
LockOrder(p) ==
  LET o == req[p].ord IN
  /\ At(p, "lockOrder") /\ ~OrderLocked(o)
  /\ IF order[o].status = "paid" THEN Finish(p)
     ELSE req' = [req EXCEPT ![p].pc = "lockUser", ![p].now = clock,
                             ![p].user = order[o].user,
                             ![p].plan = order[o].plan]
  /\ UNCHANGED <<clock, offer, settings, order, subs, planName, revoked>>

LockUser(p) ==
  /\ At(p, "lockUser") /\ ~UserLocked(req[p].user)
  /\ Continue(p, "lockCurrent")
  /\ UNCHANGED <<clock, offer, settings, order, subs, planName, revoked>>

\* The unexpired subscriptions of this user to this plan.
Current(p) ==
  {i \in SubsOf(req[p].user) :
     subs[i].plan = req[p].plan /\ subs[i].expiresAt > req[p].now}

\* ... of which the one that ends last is locked, if there is one.
LockCurrent(p) ==
  /\ At(p, "lockCurrent")
  /\ \E i \in {0} \cup Current(p) :
       /\ i = 0 <=> Current(p) = {}
       /\ \A j \in Current(p) : subs[j].expiresAt <= subs[i].expiresAt
       /\ req' = [req EXCEPT ![p].pc = "approve", ![p].current = i]
  /\ UNCHANGED <<clock, offer, settings, order, subs, planName, revoked>>

\* The subscription starts where the current one ends, or at `now'; the user
\* is moved to the plan and the order is paid, in one commit.
StartsAt(p) ==
  IF req[p].current = 0 THEN req[p].now ELSE subs[req[p].current].expiresAt

Approve(p) ==
  LET u == req[p].user
      pl == req[p].plan
      o == req[p].ord
  IN
  /\ At(p, "approve") /\ Len(subs) < MaxSubs
  /\ subs' = Append(subs, [user |-> u, plan |-> pl, startedAt |-> StartsAt(p),
                           expiresAt |-> StartsAt(p) + Duration, origin |-> o])
  /\ planName' = [planName EXCEPT ![u] = pl]
  /\ order' = [order EXCEPT ![o].status = "paid"]
  /\ Finish(p)
  /\ UNCHANGED <<clock, offer, settings, revoked>>

-----------------------------------------------------------------------------
(* Plans given and taken by hand.                                          *)

\* adminGrantPlan inserts a subscription, dated or not ...
GrantPlan(p, u, pl, end) ==
  /\ "grant" \in Ops /\ At(p, "idle") /\ Len(subs) < MaxSubs
  /\ subs' = Append(subs, [user |-> u, plan |-> pl, startedAt |-> clock,
                           expiresAt |-> end, origin |-> Grant])
  /\ req' = [req EXCEPT ![p] = [Idle EXCEPT !.pc = "nameGrant", !.user = u,
                                  !.plan = pl]]
  /\ UNCHANGED <<clock, offer, settings, order, planName, revoked>>

\* ... and then moves the user to its plan.
NameGrantedPlan(p) ==
  /\ At(p, "nameGrant") /\ ~UserLocked(req[p].user)
  /\ planName' = [planName EXCEPT ![req[p].user] = req[p].plan]
  /\ Finish(p)
  /\ UNCHANGED <<clock, offer, settings, order, subs, revoked>>

\* adminRevokePlan: an UPDATE of the subscriptions its snapshot holds ...
BeginRevoke(p, u) ==
  /\ "revoke" \in Ops /\ At(p, "idle")
  /\ req' = [req EXCEPT ![p] = [Idle EXCEPT !.pc = "revoke", !.user = u,
                                  !.now = clock, !.todo = SubsOf(u)]]
  /\ UNCHANGED <<clock, offer, settings, order, subs, planName, revoked>>

\* ... which waits for the one an approval has locked ...
RevokeSubscriptions(p) ==
  /\ At(p, "revoke")
  /\ \A i \in req[p].todo : ~SubLocked(i)
  /\ subs' = [i \in DOMAIN subs |->
                IF i \in req[p].todo
                THEN [subs[i] EXCEPT !.expiresAt = req[p].now] ELSE subs[i]]
  /\ revoked' = revoked \cup req[p].todo
  /\ Continue(p, "nameFree")
  /\ UNCHANGED <<clock, offer, settings, order, planName>>

\* Mutant: the user keeps the name of the revoked plan.
KeepPlanName(p) ==
  /\ At(p, "nameFree") /\ ~UserLocked(req[p].user)
  /\ Finish(p)
  /\ UNCHANGED <<clock, offer, settings, order, subs, planName, revoked>>

\* ... and then the user is moved to the free plan.
ResetPlanName(p) ==
  /\ At(p, "nameFree") /\ ~UserLocked(req[p].user)
  /\ planName' = [planName EXCEPT ![req[p].user] = Free]
  /\ Finish(p)
  /\ UNCHANGED <<clock, offer, settings, order, subs, revoked>>

-----------------------------------------------------------------------------
\* A statement fails: the transaction is rolled back, what an earlier
\* statement outside a transaction did stays.  A revocation that fails halfway
\* is reported as an error; runs with "halfway" have it.
Fail(p) ==
  /\ "fail" \in Ops /\ ~At(p, "idle")
  /\ At(p, "nameFree") => "halfway" \in Ops
  /\ Finish(p)
  /\ UNCHANGED <<clock, offer, settings, order, subs, planName, revoked>>

Tick ==
  /\ clock < MaxTime
  /\ clock' = clock + 1
  /\ UNCHANGED <<offer, settings, order, subs, planName, req, revoked>>

Step(p) ==
  \/ \E u \in User, pl \in Plan : BeginOrder(p, u, pl)
  \/ PlaceOrder(p)
  \/ RefuseOrder(p)
  \/ \E o \in Order : BeginApproval(p, o)
  \/ LockOrder(p)
  \/ LockUser(p)
  \/ LockCurrent(p)
  \/ Approve(p)
  \/ \E u \in User, pl \in Plan, end \in {Undated, clock + Duration} :
       GrantPlan(p, u, pl, end)
  \/ NameGrantedPlan(p)
  \/ \E u \in User : BeginRevoke(p, u)
  \/ RevokeSubscriptions(p)
  \/ ResetPlanName(p)
  \/ Fail(p)

Next ==
  \/ Tick
  \/ \E a \in Account : UpdatePaymentSettings(a)
  \/ \E pl \in Plan, price \in Price \cup {NoPrice} : UpdatePlan(pl, price)
  \/ \E p \in Proc : Step(p)

Spec == Init /\ [][Next]_vars

-----------------------------------------------------------------------------
(* Properties.                                                             *)

\* An order buys one subscription: a paid order has exactly one, for its own
\* user and plan, and an order that is not paid has none, however often and
\* however concurrently it is approved and whatever fails on the way
\* (payments.service.ts:315-324, payments.service.spec.ts:366).
OrdersBuyOneSubscription ==
  \A o \in Order :
    /\ order[o].status = "paid" =>
         \E i \in DOMAIN subs :
           /\ subs[i].user = order[o].user /\ subs[i].plan = order[o].plan
           /\ \A j \in DOMAIN subs : subs[j].origin = o <=> j = i
    /\ order[o].status # "paid" => \A i \in DOMAIN subs : subs[i].origin # o

\* Paid time adds up: two purchases of one plan by one user that nobody
\* revoked cover different days (payments.service.ts:373-385).
PaidTimeAddsUp ==
  \A i, j \in DOMAIN subs :
    /\ i < j /\ {i, j} \cap revoked = {}
    /\ subs[i].origin # Grant /\ subs[j].origin # Grant
    /\ subs[i].user = subs[j].user /\ subs[i].plan = subs[j].plan
    => subs[i].expiresAt <= subs[j].startedAt

\* The days of an order: those of the subscription it bought, also after a
\* revocation has ended that.
BoughtBy(o) == CHOOSE i \in DOMAIN subs : subs[i].origin = o
DaysOf(o) ==
  LET i == BoughtBy(o) IN
  [from |-> subs[i].startedAt,
   to |-> IF i \in revoked THEN subs[i].startedAt + Duration ELSE subs[i].expiresAt]

TermsOf(row) == [user |-> row.user, plan |-> row.plan,
                 amount |-> row.amount, account |-> row.account]
NoDays == [from |-> 0, to |-> 0]

LedgerTerms == [o \in Order |-> TermsOf(order[o])]
LedgerDays == [o \in Order |-> IF order[o].status = "paid" THEN DaysOf(o) ELSE NoDays]
LedgerTaken == {o \in Order : \E i \in revoked : subs[i].origin = o}

Ledger == INSTANCE PaidTime WITH
  terms <- LedgerTerms, days <- LedgerDays, taken <- LedgerTaken,
  NoTerms <- TermsOf(Unplaced)

\* Paid time is kept as in a ledger: an order's terms are fixed when it is placed,
\* it buys its days at one instant, behind all that its user has of the plan, and
\* nothing but a revocation touches them later, whatever is approved, granted,
\* priced or repeated meanwhile (payments.service.ts:186-233, 309-405).
PaidTimeIsKept == Ledger!Spec

\* A revocation takes the plan away, whatever is approved meanwhile: with no
\* request in progress, a user whose subscriptions were all bought and all
\* revoked is on the free plan (admin.controller.ts:231).  A plan given by hand
\* is left out, because its two statements can fall around a revocation.
RevokedUsersAreFree ==
  (\A p \in Proc : At(p, "idle")) =>
    \A u \in User :
      SubsOf(u) \subseteq {i \in revoked : subs[i].origin # Grant}
        => EffectivePlans(u) = {Free}

\* Only a subscription without an end lasts for ever: a user whose dated
\* subscriptions have all expired is on the free plan
\* (user-subscription.entity.ts:25).
OnlyUndatedPlansLast ==
  \A u \in User : (\A i \in SubsOf(u) : ~Active(i)) => EffectivePlans(u) = {Free}
=============================================================================
