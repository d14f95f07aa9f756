------------------------------- MODULE Coupons -------------------------------
(***************************************************************************)
(* Coupons and their redemption (applyCoupon, createCoupon, updateCoupon   *)
(* and deleteCoupon of src/src/plans/plans.service.ts).  A redemption is a *)
(* transaction that locks its coupon; administrators edit coupons with     *)
(* TypeORM's save, which compares the entity they read with the row as it  *)
(* is then and writes the columns that differ.                             *)
(*                                                                         *)
(* What a coupon is worth, its own expiry, the dates of subscriptions and  *)
(* codes in a spelling that no redemption finds are left out.              *)
(***************************************************************************)
EXTENDS Integers, FiniteSets

CONSTANTS
  Proc,    \* concurrent requests
  User,
  Code,    \* coupon codes as redemptions look them up, in capitals
  Limits,  \* values of maxUses
  Edits,   \* the columns administrators edit
  MaxId,   \* bound: coupons ever created
  NoUser, NoCode

Unlimited == -1

ASSUME CouponsConstants ==
  /\ Limits \subseteq Nat \cup {Unlimited}
  /\ Edits \subseteq {"code", "maxUses", "isActive"}
  /\ MaxId \in Nat
  /\ NoUser \notin User /\ NoCode \notin Code

Id == 1 .. MaxId
Fields == {"code", "maxUses", "usedCount", "isActive"}
Coupon == [code : Code, maxUses : Nat \cup {Unlimited}, usedCount : Nat,
           isActive : BOOLEAN]
\* What takes the place of a row that is not in the table.
NoRow == [code |-> NoCode, maxUses |-> 0, usedCount |-> 0, isActive |-> FALSE]

VARIABLES
  coupon,     \* coupons, by id
  lastId,     \* the ids given so far are 1 .. lastId
  redeemed,   \* coupon_redemptions: pairs of a coupon's id and a user
  subs,       \* user_subscriptions: how many <<user, id, code>> each has given
  req,        \* what each request is doing
  staleSaved  \* history: ids a save brought back after their deletion, or whose
              \* usedCount it took from an older reading

vars == <<coupon, lastId, redeemed, subs, req, staleSaved>>

Grant == User \X Id \X Code

(***************************************************************************)
(* pc: "claim" holds the coupon `id' for `user'; "create" has found no     *)
(* coupon with the code of `entity'; "save" is about to save `entity';     *)
(* "write" has found that it differs from the row in `changed', and        *)
(* "insert" that there is no row.                                          *)
(***************************************************************************)
Request ==
  [pc : {"idle", "claim", "create", "save", "write", "insert"},
   user : User \cup {NoUser}, id : Id \cup {0}, entity : Coupon \cup {NoRow},
   changed : SUBSET Fields]

Idle == [pc |-> "idle", user |-> NoUser, id |-> 0, entity |-> NoRow,
         changed |-> {}]

TypeOK ==
  /\ coupon \in [Id -> Coupon \cup {NoRow}]
  /\ lastId \in 0 .. MaxId
  /\ redeemed \subseteq Id \X User
  /\ subs \in [Grant -> Nat]
  /\ req \in [Proc -> Request]
  /\ staleSaved \subseteq Id

Init ==
  /\ coupon = [i \in Id |-> NoRow]
  /\ lastId = 0
  /\ redeemed = {}
  /\ subs = [g \in Grant |-> 0]
  /\ req = [p \in Proc |-> Idle]
  /\ staleSaved = {}

At(p, pc) == req[p].pc = pc
Finish(p) == req' = [req EXCEPT ![p] = Idle]

Exists(i) == coupon[i] # NoRow

\* The unique index on coupons.code.
Taken(k) == \E i \in Id : coupon[i].code = k
TakenByOther(k, i) == \E j \in Id \ {i} : coupon[j].code = k

NeverLocked(i) == FALSE
\* A redemption holds the row of this coupon.
Locked(i) == \E p \in Proc : At(p, "claim") /\ req[p].id = i

-----------------------------------------------------------------------------
(* Redemption.                                                             *)

HasUsesOrOne(row) == row.maxUses = Unlimited \/ row.usedCount <= row.maxUses
HasUses(row) == row.maxUses = Unlimited \/ row.usedCount < row.maxUses

Used(row) == [row EXCEPT !.usedCount = @ + 1]

\* A subscription of this user names this code.
PreviousUse(u, k) == \E i \in Id : subs[<<u, i, k>>] > 0

Redeem(p, u, i) ==
  req' = [req EXCEPT ![p].pc = "claim", ![p].user = u, ![p].id = i,
                     ![p].entity = coupon[i]]

LockCouponOfId(p, u, i) ==
  /\ At(p, "idle") /\ Exists(i) /\ ~Locked(i)
  /\ coupon[i].isActive /\ HasUses(coupon[i])
  /\ <<i, u>> \notin redeemed
  /\ Redeem(p, u, i)
  /\ UNCHANGED <<coupon, lastId, redeemed, subs, staleSaved>>

\* SELECT ... FOR UPDATE of the active coupon with the code, and the checks.  A
\* request that fails one of them changes nothing.
LockCoupon(p, u, i) ==
  /\ At(p, "idle") /\ Exists(i) /\ ~Locked(i)
  /\ coupon[i].isActive /\ HasUses(coupon[i])
  /\ <<i, u>> \notin redeemed
  /\ ~PreviousUse(u, coupon[i].code)
  /\ Redeem(p, u, i)
  /\ UNCHANGED <<coupon, lastId, redeemed, subs, staleSaved>>

\* The redemption, the use, the subscription and the commit.  The unique index
\* may refuse.  An UPDATE that finds no use left goes unnoticed: the query gives
\* the pair of its rows and their count, which is never empty.
Claim(p) ==
  LET i == req[p].id
      u == req[p].user
  IN /\ At(p, "claim")
     /\ IF <<i, u>> \notin redeemed
        THEN /\ redeemed' = redeemed \cup {<<i, u>>}
             /\ coupon' = [coupon EXCEPT ![i] = IF HasUses(@) THEN Used(@) ELSE @]
             /\ subs' = [subs EXCEPT ![<<u, i, req[p].entity.code>>] = @ + 1]
        ELSE UNCHANGED <<redeemed, coupon, subs>>
     /\ Finish(p)
     /\ UNCHANGED <<lastId, staleSaved>>

-----------------------------------------------------------------------------
(* Administration.                                                         *)

\* createCoupon looks for the code, and inserts.
BeginCreate(p) ==
  /\ At(p, "idle") /\ lastId < MaxId
  /\ \E k \in Code, m \in Limits :
       /\ ~Taken(k)
       /\ req' = [req EXCEPT ![p].pc = "create",
                    ![p].entity = [code |-> k, maxUses |-> m, usedCount |-> 0,
                                   isActive |-> TRUE]]
  /\ UNCHANGED <<coupon, lastId, redeemed, subs, staleSaved>>

Create(p) ==
  /\ At(p, "create")
  /\ IF ~Taken(req[p].entity.code) /\ lastId < MaxId
     THEN /\ coupon' = [coupon EXCEPT ![lastId + 1] = req[p].entity]
          /\ lastId' = lastId + 1
     ELSE UNCHANGED <<coupon, lastId>>
  /\ Finish(p)
  /\ UNCHANGED <<redeemed, subs, staleSaved>>

\* What an administrator may make of a coupon.
Edited(row) ==
  {entity \in [code : Code, maxUses : Limits, usedCount : {row.usedCount},
               isActive : BOOLEAN] :
     \E f \in Edits : \A g \in Fields \ {f} : entity[g] = row[g]}

\* updateCoupon reads the coupon and assigns the changes.
BeginEdit(p) ==
  /\ At(p, "idle")
  /\ \E i \in Id :
       /\ Exists(i)
       /\ \E entity \in Edited(coupon[i]) :
            req' = [req EXCEPT ![p].pc = "save", ![p].id = i, ![p].entity = entity]
  /\ UNCHANGED <<coupon, lastId, redeemed, subs, staleSaved>>

\* save reads the row again, without waiting for a lock.
Reload(p) ==
  LET row == coupon[req[p].id]
      changed == {f \in Fields : row[f] # req[p].entity[f]}
  IN /\ At(p, "save")
     /\ req' = [req EXCEPT ![p] =
                  IF ~Exists(req[p].id) THEN [@ EXCEPT !.pc = "insert"]
                  ELSE IF changed = {} THEN Idle
                  ELSE [@ EXCEPT !.pc = "write", !.changed = changed]]
     /\ UNCHANGED <<coupon, lastId, redeemed, subs, staleSaved>>

\* The row after an UPDATE of these columns.
Saved(row, entity, columns) ==
  [f \in Fields |-> IF f \in columns THEN entity[f] ELSE row[f]]

\* Whether the statement of the save goes through, and its history.
CanWrite(p) == Exists(req[p].id) /\ ~TakenByOther(req[p].entity.code, req[p].id)
Note(p) == staleSaved' = IF "usedCount" \in req[p].changed
                         THEN staleSaved \cup {req[p].id} ELSE staleSaved

WriteWholeRow(p) ==
  LET i == req[p].id IN
  /\ At(p, "write") /\ ~Locked(i)
  /\ IF CanWrite(p)
     THEN coupon' = [coupon EXCEPT ![i] = req[p].entity] /\ Note(p)
     ELSE UNCHANGED <<coupon, staleSaved>>
  /\ Finish(p)
  /\ UNCHANGED <<lastId, redeemed, subs>>

\* The UPDATE waits for a redemption that holds the row, and sets the columns
\* that differed.
Write(p) ==
  LET i == req[p].id IN
  /\ At(p, "write") /\ ~Locked(i)
  /\ IF CanWrite(p)
     THEN /\ coupon' = [coupon EXCEPT ![i] = Saved(@, req[p].entity, req[p].changed)]
          /\ Note(p)
     ELSE UNCHANGED <<coupon, staleSaved>>
  /\ Finish(p)
  /\ UNCHANGED <<lastId, redeemed, subs>>

\* A coupon that was deleted in the meantime is saved as a new row.
Insert(p) ==
  LET i == req[p].id IN
  /\ At(p, "insert")
  /\ IF ~Exists(i) /\ ~Taken(req[p].entity.code)
     THEN /\ coupon' = [coupon EXCEPT ![i] = req[p].entity]
          /\ staleSaved' = staleSaved \cup {i}
     ELSE UNCHANGED <<coupon, staleSaved>>
  /\ Finish(p)
  /\ UNCHANGED <<lastId, redeemed, subs>>

\* deleteCoupon and deleteCoupons; the redemptions go with the coupon.
DeleteCoupon(i) ==
  /\ Exists(i) /\ ~Locked(i)
  /\ coupon' = [coupon EXCEPT ![i] = NoRow]
  /\ redeemed' = {r \in redeemed : r[1] # i}
  /\ UNCHANGED <<lastId, subs, req, staleSaved>>

\* The database or the connection fails: a transaction is rolled back.
Fail(p) ==
  /\ ~At(p, "idle")
  /\ Finish(p)
  /\ UNCHANGED <<coupon, lastId, redeemed, subs, staleSaved>>

Step(p) ==
  \/ \E u \in User, i \in Id : LockCoupon(p, u, i)
  \/ Claim(p)
  \/ BeginCreate(p) \/ Create(p)
  \/ BeginEdit(p) \/ Reload(p) \/ Write(p) \/ Insert(p)
  \/ Fail(p)

Next == (\E p \in Proc : Step(p)) \/ (\E i \in Id : DeleteCoupon(i))

Spec == Init /\ [][Next]_vars

-----------------------------------------------------------------------------
(* Properties.                                                             *)

\* A user gets one subscription for a code, even when coupons are renamed,
\* deleted, created again or brought back by a save, and one for a coupon,
\* whatever its code, unless a save brought it back (plans.service.ts:476-485).
OncePerUser ==
  \A g, h \in Grant :
    /\ subs[g] <= 1
    /\ /\ subs[g] > 0 /\ subs[h] > 0 /\ g[1] = h[1]
       /\ g[3] = h[3] \/ (g[2] = h[2] /\ g[2] \notin staleSaved)
       => g = h

\* What was checked when the coupon was locked is still so when the use is
\* claimed: the unique index never refuses, and the conditional UPDATE, whose
\* miss would go unnoticed, never misses (plans.service.ts:519-543).
ClaimsStillHold ==
  \A p \in Proc : At(p, "claim") =>
    LET i == req[p].id IN
    /\ coupon[i] = req[p].entity /\ coupon[i].isActive /\ HasUses(coupon[i])
    /\ <<i, req[p].user>> \notin redeemed
    /\ ~PreviousUse(req[p].user, coupon[i].code)

Uses(i) == {u \in User : <<i, u>> \in redeemed}

\* usedCount counts the redemptions, unless a save took it from a reading that
\* was older than a redemption (plans.service.ts:533-541, 689-694).
CountsItsUses ==
  \A i \in Id : Exists(i) /\ i \notin staleSaved =>
    coupon[i].usedCount = Cardinality(Uses(i))

\* No redemption exceeds maxUses as it stands then, with the same exception
\* (coupon.entity.ts:44-46, plans.service.ts:533-541).
WithinLimit ==
  \A i \in Id \ staleSaved : Uses(i)' \subseteq Uses(i)
     \/ coupon[i].maxUses = Unlimited
     \/ Cardinality(Uses(i)') <= coupon[i].maxUses

\* Every redemption is within the limit (plans.service.ts:533-541).
UsesWithinLimit == [][WithinLimit]_vars

\* After every step the uses of a coupon add up to its count, and no step takes
\* them over its limit (plans.service.ts:530-541).
UsesAddUp == [][CountsItsUses' /\ WithinLimit]_vars

\* "Keep the cap enforced by a single conditional database update": while nobody
\* edits maxUses, no more users redeem a coupon than it allows
\* (plans.service.ts:530-541, coupon.entity.ts:44-46).
AtMostMaxUses ==
  \A i \in Id : Exists(i) /\ coupon[i].maxUses # Unlimited =>
    Cardinality(Uses(i)) <= coupon[i].maxUses
=============================================================================
