---------------------------- MODULE CouponsProofs ----------------------------
(***************************************************************************)
(* Proofs about Coupons for every number of requests, users, codes and     *)
(* coupons, and every combination of columns that administrators edit: a   *)
(* user redeems a coupon once, and never more of them than it allows.      *)
(***************************************************************************)
EXTENDS Coupons, FiniteSetTheorems, TLAPS

-----------------------------------------------------------------------------
(* The inductive invariant.                                                *)

\* What a request knows: it works on rows that have been created.
Shapes ==
  \A p \in Proc :
    /\ ~At(p, "idle") => req[p].entity \in Coupon
    /\ At(p, "claim") => req[p].user \in User /\ req[p].id \in Id
    /\ At(p, "create") => req[p].entity.usedCount = 0
    /\ At(p, "save") \/ At(p, "write") \/ At(p, "insert") => req[p].id \in 1 .. lastId

\* FOR UPDATE lets one redemption hold a coupon.
OneHolder ==
  \A p, q \in Proc :
    At(p, "claim") /\ At(q, "claim") /\ req[p].id = req[q].id => p = q

Fresh == \A i \in Id : i > lastId => coupon[i] = NoRow

UniqueCodes ==
  \A i, j \in Id : Exists(i) /\ coupon[i].code = coupon[j].code => i = j

\* The foreign key of coupon_redemptions.
RedeemedExist == \A i \in Id : ~Exists(i) => Uses(i) = {}

\* A subscription given by a coupon that is still there has its redemption.
Recorded ==
  \A u \in User, i \in Id, k \in Code :
    subs[<<u, i, k>>] > 0 =>
      /\ i <= lastId
      /\ i \notin staleSaved /\ Exists(i) => <<i, u>> \in redeemed

FiniteUses == \A i \in Id : IsFiniteSet(Uses(i))

RequestInv == Shapes /\ OneHolder /\ ClaimsStillHold

TableInv ==
  Fresh /\ UniqueCodes /\ RedeemedExist /\ Recorded /\ OncePerUser
  /\ FiniteUses /\ CountsItsUses

CouponInv == TypeOK /\ RequestInv /\ TableInv

tables == <<coupon, lastId, redeemed, subs, staleSaved>>

-----------------------------------------------------------------------------
(* Lemmas.                                                                 *)

LEMMA IdleIsARequest == Idle \in Request
  BY DEF Idle, Request

LEMMA NoRowIsNoCoupon == NoRow \notin Coupon
  BY CouponsConstants DEF NoRow, Coupon

\* A row that exists is a coupon; of one that does not, nobody has the code.
LEMMA RowsAre ==
  ASSUME TypeOK, NEW i \in Id
  PROVE  /\ Exists(i) <=> coupon[i] \in Coupon
         /\ Exists(i) <=> coupon[i].code \in Code
         /\ coupon[i].usedCount \in Nat
  <1>1. coupon[i] \in Coupon \cup {NoRow}
    BY DEF TypeOK
  <1>2. \A c \in Coupon : c.code \in Code /\ c.usedCount \in Nat
    BY DEF Coupon
  <1>3. NoRow.code \notin Code /\ NoRow.usedCount = 0
    BY CouponsConstants DEF NoRow
  <1> QED
    BY <1>1, <1>2, <1>3, NoRowIsNoCoupon DEF Exists

\* What finishing a request leaves of the others.
LEMMA FinishLeaves ==
  ASSUME TypeOK, NEW p \in Proc, Finish(p)
  PROVE  /\ req' \in [Proc -> Request]
         /\ req'[p] = Idle
         /\ \A q \in Proc : q # p => req'[q] = req[q]
  BY IdleIsARequest DEF TypeOK, Finish

LEMMA InitCouponInv == Init => CouponInv
  <1> SUFFICES ASSUME Init PROVE CouponInv
    OBVIOUS
  <1> USE DEF Init
  <1>1. TypeOK
    BY IdleIsARequest, CouponsConstants DEF TypeOK, Id
  <1>2. RequestInv
    BY DEF RequestInv, Shapes, OneHolder, ClaimsStillHold, At, Idle
  <1>3. Fresh /\ UniqueCodes /\ CountsItsUses
    BY DEF Fresh, UniqueCodes, CountsItsUses, Exists
  <1>4. \A g \in Grant : subs[g] = 0
    OBVIOUS
  <1>5. Recorded
    <2>1. \A u \in User, i \in Id, k \in Code : <<u, i, k>> \in Grant
      BY DEF Grant
    <2> QED
      BY <1>4, <2>1 DEF Recorded
  <1>6. OncePerUser
    BY <1>4 DEF OncePerUser
  <1>7. \A i \in Id : Uses(i) = {}
    BY DEF Uses
  <1>8. RedeemedExist /\ FiniteUses
    BY <1>7, FS_EmptySet DEF RedeemedExist, FiniteUses
  <1> QED
    BY <1>1, <1>2, <1>3, <1>5, <1>6, <1>8 DEF CouponInv, TableInv

-----------------------------------------------------------------------------
(* Steps that leave the tables alone.                                      *)

\* When the tables stay, so does what is said of them.
LEMMA TablesStay ==
  ASSUME TableInv, UNCHANGED tables
  PROVE  TableInv'
  <1> USE DEF tables
  <1>1. \A i : Exists(i)' = Exists(i) /\ Uses(i)' = Uses(i)
    BY DEF Exists, Uses
  <1>2. Fresh' /\ UniqueCodes' /\ Recorded'
    BY <1>1 DEF TableInv, Fresh, UniqueCodes, Recorded, Exists
  <1>3. RedeemedExist' /\ FiniteUses' /\ CountsItsUses'
    BY <1>1 DEF TableInv, RedeemedExist, FiniteUses, CountsItsUses
  <1>4. OncePerUser'
    BY DEF TableInv, OncePerUser
  <1> QED
    BY <1>2, <1>3, <1>4 DEF TableInv

\* A request moves to a state in which it holds no coupon.
LEMMA RequestMoves ==
  ASSUME CouponInv, UNCHANGED tables, NEW p \in Proc, NEW r \in Request,
         req' = [req EXCEPT ![p] = r],
         r.pc # "claim",
         r.pc # "idle" => r.entity \in Coupon,
         r.pc = "create" => r.entity.usedCount = 0,
         r.pc \in {"save", "write", "insert"} => r.id \in 1 .. lastId
  PROVE  CouponInv'
  <1> USE DEF CouponInv, RequestInv
  <1>1. TypeOK'
    BY DEF TypeOK, tables
  <1>2. req'[p] = r /\ \A q \in Proc : q # p => req'[q] = req[q]
    BY DEF TypeOK
  <1>3. Shapes'
    BY <1>2 DEF Shapes, At, tables
  <1>4. OneHolder'
    BY <1>2 DEF OneHolder, At
  <1>5. ClaimsStillHold'
    <2> SUFFICES ASSUME NEW q \in Proc, At(q, "claim")'
                 PROVE  /\ req[q]' = req[q] /\ At(q, "claim")
                        /\ UNCHANGED <<coupon, redeemed, subs>>
      BY DEF ClaimsStillHold, HasUses, PreviousUse
    <2> QED
      BY <1>2 DEF At, tables
  <1> QED
    BY <1>1, <1>3, <1>4, <1>5, TablesStay

LEMMA LockCouponKeepsInv ==
  ASSUME CouponInv, NEW p \in Proc, NEW u \in User, NEW i \in Id, LockCoupon(p, u, i)
  PROVE  CouponInv'
  <1> USE DEF CouponInv, RequestInv
  <1> DEFINE r == [req[p] EXCEPT !.pc = "claim", !.user = u, !.id = i,
                                 !.entity = coupon[i]]
  <1>1. req[p] \in Request /\ coupon[i] \in Coupon
    BY RowsAre DEF TypeOK, LockCoupon
  <1>2. r \in Request /\ r.pc = "claim" /\ r.user = u /\ r.id = i /\ r.entity = coupon[i]
    BY <1>1 DEF Request
  <1>3. req' = [req EXCEPT ![p] = r]
    BY DEF LockCoupon, Redeem, TypeOK
  <1> HIDE DEF r
  <1>4. req'[p] = r /\ \A q \in Proc : q # p => req'[q] = req[q]
    BY <1>3 DEF TypeOK
  <1>5. UNCHANGED tables
    BY DEF LockCoupon, tables
  <1>6. TypeOK'
    BY <1>2, <1>3, <1>5 DEF TypeOK, tables
  <1>7. Shapes'
    BY <1>1, <1>2, <1>4, <1>5 DEF Shapes, At, tables
  <1>8. OneHolder'
    BY <1>2, <1>4 DEF OneHolder, At, LockCoupon, Locked
  <1>9. ClaimsStillHold'
    BY <1>2, <1>4, <1>5, SMTT(30)
    DEF ClaimsStillHold, At, HasUses, PreviousUse, tables, LockCoupon
  <1> QED
    BY <1>5, <1>6, <1>7, <1>8, <1>9, TablesStay

LEMMA BeginCreateKeepsInv ==
  ASSUME CouponInv, NEW p \in Proc, BeginCreate(p)
  PROVE  CouponInv'
  <1>1. PICK k \in Code, m \in Limits :
          req' = [req EXCEPT ![p].pc = "create",
                    ![p].entity = [code |-> k, maxUses |-> m, usedCount |-> 0,
                                   isActive |-> TRUE]]
    BY DEF BeginCreate
  <1> DEFINE e == [code |-> k, maxUses |-> m, usedCount |-> 0, isActive |-> TRUE]
             r == [req[p] EXCEPT !.pc = "create", !.entity = e]
  <1>2. e \in Coupon /\ e.usedCount = 0
    BY CouponsConstants DEF Coupon
  <1>3. req' = [req EXCEPT ![p] = r]
    BY <1>1 DEF CouponInv, TypeOK
  <1>4. req[p] \in Request
    BY DEF CouponInv, TypeOK
  <1> HIDE DEF e
  <1>5. r \in Request /\ r.pc = "create" /\ r.entity = e
    BY <1>2, <1>4 DEF Request
  <1>6. UNCHANGED tables
    BY DEF BeginCreate, tables
  <1> HIDE DEF r
  <1> QED
    BY <1>2, <1>3, <1>5, <1>6, RequestMoves

LEMMA BeginEditKeepsInv ==
  ASSUME CouponInv, NEW p \in Proc, BeginEdit(p)
  PROVE  CouponInv'
  <1>0. PICK i \in Id :
          /\ Exists(i)
          /\ \E entity \in Edited(coupon[i]) :
               req' = [req EXCEPT ![p].pc = "save", ![p].id = i, ![p].entity = entity]
    BY DEF BeginEdit
  <1>1. PICK e \in Edited(coupon[i]) :
          req' = [req EXCEPT ![p].pc = "save", ![p].id = i, ![p].entity = e]
    BY <1>0
  <1> DEFINE r == [req[p] EXCEPT !.pc = "save", !.id = i, !.entity = e]
  <1>2. e \in Coupon /\ i \in 1 .. lastId
    <2>1. coupon[i].usedCount \in Nat
      BY RowsAre DEF CouponInv
    <2>2. i \in 1 .. lastId
      BY <1>0 DEF CouponInv, TableInv, Fresh, Exists, TypeOK, Id
    <2>3. e \in [code : Code, maxUses : Limits, usedCount : {coupon[i].usedCount},
                 isActive : BOOLEAN]
      BY DEF Edited
    <2> QED
      BY <2>1, <2>2, <2>3, CouponsConstants DEF Coupon
  <1>3. req' = [req EXCEPT ![p] = r]
    BY <1>1 DEF CouponInv, TypeOK
  <1>4. req[p] \in Request
    BY DEF CouponInv, TypeOK
  <1>5. r \in Request /\ r.pc = "save" /\ r.entity = e /\ r.id = i
    BY <1>2, <1>4 DEF Request
  <1>6. UNCHANGED tables
    BY DEF BeginEdit, tables
  <1> HIDE DEF r
  <1> QED
    BY <1>2, <1>3, <1>5, <1>6, RequestMoves

LEMMA ReloadKeepsInv ==
  ASSUME CouponInv, NEW p \in Proc, Reload(p)
  PROVE  CouponInv'
  <1> DEFINE changed == {f \in Fields : coupon[req[p].id][f] # req[p].entity[f]}
             gone == [req[p] EXCEPT !.pc = "insert"]
             differs == [req[p] EXCEPT !.pc = "write", !.changed = changed]
  <1>1. /\ req[p] \in Request /\ req[p].entity \in Coupon
        /\ req[p].id \in 1 .. lastId
    BY DEF CouponInv, RequestInv, Shapes, TypeOK, Reload, At
  <1>2. /\ gone \in Request /\ gone.pc = "insert"
        /\ gone.entity = req[p].entity /\ gone.id = req[p].id
    BY <1>1 DEF Request
  <1>3. /\ differs \in Request /\ differs.pc = "write"
        /\ differs.entity = req[p].entity /\ differs.id = req[p].id
    <2>1. changed \subseteq Fields
      OBVIOUS
    <2> HIDE DEF changed
    <2> QED
      BY <1>1, <2>1 DEF Request
  <1>4. UNCHANGED tables
    BY DEF Reload, tables
  <1>5. Idle \in Request /\ Idle.pc = "idle"
    BY IdleIsARequest DEF Idle
  <1>6. \/ req' = [req EXCEPT ![p] = gone]
        \/ req' = [req EXCEPT ![p] = Idle]
        \/ req' = [req EXCEPT ![p] = differs]
    BY DEF Reload
  <1> HIDE DEF gone, differs
  <1> QED
    BY <1>1, <1>2, <1>3, <1>4, <1>5, <1>6, RequestMoves

LEMMA FailKeepsInv ==
  ASSUME CouponInv, NEW p \in Proc, Fail(p)
  PROVE  CouponInv'
  <1>1. UNCHANGED tables /\ req' = [req EXCEPT ![p] = Idle]
    BY DEF Fail, Finish, tables
  <1>2. Idle \in Request /\ Idle.pc = "idle"
    BY IdleIsARequest DEF Idle
  <1> QED
    BY <1>1, <1>2, RequestMoves

-----------------------------------------------------------------------------
(* Steps that change the tables.                                           *)

\* A coupon that a redemption holds is out of the step's reach.
LEMMA HoldersUndisturbed ==
  ASSUME CouponInv, lastId \in Nat, lastId' \in Nat, lastId' >= lastId,
         \A q \in Proc : req'[q] = req[q] \/ req'[q] = Idle,
         \A q \in Proc : req'[q] = req[q] /\ At(q, "claim") =>
           /\ coupon'[req[q].id] = coupon[req[q].id]
           /\ <<req[q].id, req[q].user>> \in redeemed' =>
                <<req[q].id, req[q].user>> \in redeemed
           /\ \A j \in Id :
                subs'[<<req[q].user, j, coupon[req[q].id].code>>] =
                  subs[<<req[q].user, j, coupon[req[q].id].code>>]
  PROVE  RequestInv'
  <1> USE DEF CouponInv, RequestInv
  <1>1. \A q \in Proc : req'[q].pc # "idle" => req'[q] = req[q]
    BY DEF Idle
  <1>2. Shapes'
    <2>1. \A n \in 1 .. lastId : n \in 1 .. lastId'
      OBVIOUS
    <2> QED
      BY <1>1, <2>1 DEF Shapes, At
  <1>3. OneHolder'
    BY <1>1 DEF OneHolder, At
  <1>4. ClaimsStillHold'
    <2> SUFFICES ASSUME NEW q \in Proc, req'[q].pc = "claim"
                 PROVE  LET i == req'[q].id
                            u == req'[q].user
                        IN /\ coupon'[i] = req'[q].entity
                           /\ coupon'[i].isActive /\ HasUses(coupon'[i])
                           /\ <<i, u>> \notin redeemed'
                           /\ \A j \in Id : ~(subs'[<<u, j, coupon'[i].code>>] > 0)
      BY DEF ClaimsStillHold, HasUses, PreviousUse, At
    <2>0. PICK i, u, k : i = req'[q].id /\ u = req'[q].user /\ k = coupon'[i].code
      OBVIOUS
    <2>1. req'[q] = req[q] /\ At(q, "claim") /\ i = req[q].id /\ u = req[q].user
      BY <1>1, <2>0 DEF At
    <2>2. /\ coupon'[i] = coupon[i] /\ (<<i, u>> \in redeemed' => <<i, u>> \in redeemed)
          /\ \A j \in Id : subs'[<<u, j, k>>] = subs[<<u, j, k>>]
      BY <2>0, <2>1
    <2>3. /\ coupon[i] = req[q].entity
          /\ coupon[i].isActive /\ HasUses(coupon[i])
          /\ <<i, u>> \notin redeemed
          /\ \A j \in Id : ~(subs[<<u, j, coupon[i].code>>] > 0)
      BY <2>1 DEF ClaimsStillHold, PreviousUse
    <2> QED
      BY <2>0, <2>1, <2>2, <2>3
  <1> QED
    BY <1>2, <1>3, <1>4

\* lastId is a number.
LEMMA LastIdIsANumber == ASSUME TypeOK PROVE lastId \in Nat /\ lastId <= MaxId
  BY CouponsConstants DEF TypeOK

LEMMA CreateKeepsInv ==
  ASSUME CouponInv, NEW p \in Proc, Create(p)
  PROVE  CouponInv'
  <1> USE DEF CouponInv
  <1>0. PICK e, n : e = req[p].entity /\ n = lastId + 1
    OBVIOUS
  <1>1. e \in Coupon /\ e.usedCount = 0
    BY <1>0 DEF RequestInv, Shapes, Create, At
  <1>2. /\ req' \in [Proc -> Request]
        /\ \A q \in Proc : req'[q] = req[q] \/ req'[q] = Idle
    BY FinishLeaves DEF Create
  <1>3. lastId \in Nat /\ lastId <= MaxId
    BY LastIdIsANumber
  <1>4. CASE UNCHANGED <<coupon, lastId>>
    <2>1. UNCHANGED tables /\ req' = [req EXCEPT ![p] = Idle]
      BY <1>4 DEF Create, Finish, tables
    <2> QED
      BY <2>1, IdleIsARequest, RequestMoves DEF Idle
  <1>5. CASE ~Taken(e.code) /\ lastId < MaxId
             /\ coupon' = [coupon EXCEPT ![n] = e] /\ lastId' = n
    <2>1. n \in Id /\ n \in 0 .. MaxId
      BY <1>0, <1>3, <1>5, CouponsConstants DEF Id
    <2>2. coupon'[n] = e /\ \A i \in Id : i # n => coupon'[i] = coupon[i]
      BY <1>5, <2>1 DEF TypeOK
    <2>3. coupon[n] = NoRow
      BY <1>0, <1>3, <2>1 DEF TableInv, Fresh
    <2>4. UNCHANGED <<redeemed, subs, staleSaved>>
      BY DEF Create
    <2>5. TypeOK'
      BY <1>1, <1>2, <1>5, <2>1, <2>4 DEF TypeOK
    <2>6. RequestInv'
      <3>1. \A q \in Proc : At(q, "claim") => req[q].id \in Id /\ req[q].id # n
        BY <2>3, NoRowIsNoCoupon DEF RequestInv, Shapes, ClaimsStillHold, At
      <3> QED
        BY <1>0, <1>2, <1>3, <1>5, <2>2, <2>4, <3>1, HoldersUndisturbed
    <2>7. \A i : Uses(i)' = Uses(i)
      BY <2>4 DEF Uses
    <2>8. Exists(n)' /\ ~Exists(n) /\ \A i \in Id : i # n => Exists(i)' = Exists(i)
      BY <1>1, <2>2, <2>3, NoRowIsNoCoupon DEF Exists
    <2>9. Uses(n) = {}
      BY <2>1, <2>8 DEF TableInv, RedeemedExist
    <2>10. Fresh'
      BY <1>0, <1>3, <1>5, <2>1, <2>2 DEF TableInv, Fresh
    <2>11. UniqueCodes'
      <3>1. \A i \in Id : coupon[i].code # e.code
        BY <1>5 DEF Taken
      <3> QED
        BY <2>2, <2>8, <3>1 DEF TableInv, UniqueCodes, Exists
    <2>12. RedeemedExist' /\ FiniteUses'
      BY <2>7, <2>8, <2>9 DEF TableInv, RedeemedExist, FiniteUses
    <2>13. Recorded'
      <3> SUFFICES ASSUME NEW u \in User, NEW i \in Id, NEW k \in Code,
                          subs[<<u, i, k>>] > 0
                   PROVE  /\ i <= n
                          /\ i \notin staleSaved /\ Exists(i)' => <<i, u>> \in redeemed
        BY <1>5, <2>4 DEF Recorded
      <3>1. i <= lastId /\ (i \notin staleSaved /\ Exists(i) => <<i, u>> \in redeemed)
        BY DEF TableInv, Recorded
      <3> QED
        BY <1>0, <1>3, <2>8, <3>1 DEF Id
    <2>14. OncePerUser'
      BY <2>4 DEF TableInv, OncePerUser
    <2>15. CountsItsUses'
      BY <1>1, <2>2, <2>4, <2>7, <2>8, <2>9, FS_EmptySet DEF TableInv, CountsItsUses
    <2> QED
      BY <2>5, <2>6, <2>10, <2>11, <2>12, <2>13, <2>14, <2>15 DEF TableInv
  <1> QED
    BY <1>0, <1>4, <1>5 DEF Create

LEMMA DeleteCouponKeepsInv ==
  ASSUME CouponInv, NEW d \in Id, DeleteCoupon(d)
  PROVE  CouponInv'
  <1> USE DEF CouponInv
  <1>1. /\ coupon' = [coupon EXCEPT ![d] = NoRow]
        /\ redeemed' = {r \in redeemed : r[1] # d}
        /\ UNCHANGED <<lastId, subs, req, staleSaved>>
    BY DEF DeleteCoupon
  <1>2. TypeOK'
    BY <1>1 DEF TypeOK
  <1>3. ~Exists(d)' /\ \A i \in Id : i # d => coupon'[i] = coupon[i] /\ Exists(i)' = Exists(i)
    BY <1>1 DEF Exists, TypeOK
  <1>4. Uses(d)' = {} /\ \A i : i # d => Uses(i)' = Uses(i)
    BY <1>1 DEF Uses
  <1>5. lastId \in Nat /\ lastId' = lastId
    BY <1>1, LastIdIsANumber
  <1>6. RequestInv'
    <2>1. \A q \in Proc : At(q, "claim") => req[q].id \in Id /\ req[q].id # d
      BY DEF RequestInv, Shapes, DeleteCoupon, Locked
    <2> QED
      BY <1>1, <1>3, <1>5, <2>1, HoldersUndisturbed
  <1>7. Fresh'
    BY <1>1, <1>3, <1>5 DEF TableInv, Fresh, Exists
  <1>8. UniqueCodes'
    <2>1. coupon'[d].code = NoCode
      BY <1>1 DEF TypeOK, NoRow
    <2>2. \A i \in Id : Exists(i) => coupon[i].code # NoCode
      BY RowsAre, CouponsConstants
    <2> QED
      BY <1>3, <2>1, <2>2 DEF TableInv, UniqueCodes
  <1>9. RedeemedExist' /\ FiniteUses'
    BY <1>3, <1>4, FS_EmptySet DEF TableInv, RedeemedExist, FiniteUses
  <1>10. Recorded'
    BY <1>1, <1>3 DEF TableInv, Recorded
  <1>11. OncePerUser'
    BY <1>1 DEF TableInv, OncePerUser
  <1>12. CountsItsUses'
    BY <1>1, <1>3, <1>4 DEF TableInv, CountsItsUses
  <1> QED
    BY <1>2, <1>6, <1>7, <1>8, <1>9, <1>10, <1>11, <1>12 DEF TableInv

\* A claim and an UPDATE make a coupon of a coupon.
LEMMA RowsAreRewritten ==
  ASSUME NEW row \in Coupon, NEW e \in Coupon, NEW columns
  PROVE  /\ Used(row) \in Coupon /\ Used(row).code = row.code
         /\ Used(row).usedCount = row.usedCount + 1 /\ Used(row).maxUses = row.maxUses
         /\ Saved(row, e, columns) \in Coupon
         /\ Saved(row, e, columns).code \in {row.code, e.code}
         /\ "usedCount" \notin columns =>
              Saved(row, e, columns).usedCount = row.usedCount
  <1>1. /\ Used(row) \in Coupon /\ Used(row).code = row.code
        /\ Used(row).usedCount = row.usedCount + 1 /\ Used(row).maxUses = row.maxUses
    BY DEF Used, Coupon
  <1>2. Saved(row, e, columns) \in Coupon
    BY DEF Saved, Coupon, Fields
  <1>3. /\ Saved(row, e, columns).code \in {row.code, e.code}
        /\ "usedCount" \notin columns =>
             Saved(row, e, columns).usedCount = row.usedCount
    BY DEF Saved, Fields
  <1> QED
    BY <1>1, <1>2, <1>3

\* What a redemption meets when it claims a use.
LEMMA ClaimFacts ==
  ASSUME CouponInv, NEW p \in Proc, At(p, "claim"), NEW i, NEW u, NEW k,
         i = req[p].id, u = req[p].user, k = coupon[i].code
  PROVE  /\ i \in Id /\ u \in User /\ k \in Code /\ Exists(i)
         /\ coupon[i] \in Coupon /\ req[p].entity = coupon[i]
         /\ HasUses(coupon[i]) /\ <<i, u>> \notin redeemed
         /\ \A j \in Id : subs[<<u, j, k>>] = 0
  <1> USE DEF CouponInv, RequestInv
  <1>1. i \in Id /\ u \in User /\ req[p].entity \in Coupon
    BY DEF Shapes, At
  <1>2. /\ req[p].entity = coupon[i] /\ HasUses(coupon[i])
        /\ <<i, u>> \notin redeemed
        /\ \A j \in Id : ~(subs[<<u, j, k>>] > 0)
    BY DEF ClaimsStillHold, PreviousUse
  <1>3. Exists(i) /\ k \in Code
    BY <1>1, <1>2, RowsAre
  <1>4. \A j \in Id : subs[<<u, j, k>>] \in Nat
    BY <1>1, <1>3 DEF TypeOK, Grant
  <1> QED
    BY <1>1, <1>2, <1>3, <1>4

LEMMA ClaimKeepsInv ==
  ASSUME CouponInv, NEW p \in Proc, Claim(p)
  PROVE  CouponInv' /\ \A i \in Id : Uses(i)' \subseteq Uses(i)
            \/ i \in staleSaved \/ coupon[i].maxUses = Unlimited
            \/ Cardinality(Uses(i)') <= coupon[i].maxUses
  <1> USE DEF CouponInv
  <1>1. PICK i, u, k : i = req[p].id /\ u = req[p].user /\ k = coupon[i].code
    OBVIOUS
  <1> DEFINE g0 == <<u, i, k>>
  <1>2. At(p, "claim")
    BY DEF Claim
  <1>3. /\ i \in Id /\ u \in User /\ k \in Code /\ Exists(i)
        /\ coupon[i] \in Coupon /\ req[p].entity = coupon[i]
        /\ HasUses(coupon[i]) /\ <<i, u>> \notin redeemed
        /\ \A j \in Id : subs[<<u, j, k>>] = 0
    BY <1>1, <1>2, ClaimFacts
  <1>4. /\ redeemed' = redeemed \cup {<<i, u>>}
        /\ coupon' = [coupon EXCEPT ![i] = Used(coupon[i])]
        /\ subs' = [subs EXCEPT ![g0] = subs[g0] + 1]
        /\ UNCHANGED <<lastId, staleSaved>>
    BY <1>1, <1>3 DEF Claim
  <1>5. /\ req' \in [Proc -> Request]
        /\ req'[p] = Idle /\ \A q \in Proc : q # p => req'[q] = req[q]
    BY FinishLeaves DEF Claim
  <1>6. /\ Used(coupon[i]) \in Coupon /\ Used(coupon[i]).code = k
        /\ Used(coupon[i]).usedCount = coupon[i].usedCount + 1
    BY <1>1, <1>3, RowsAreRewritten
  <1>7. coupon'[i] = Used(coupon[i]) /\ \A j \in Id : j # i => coupon'[j] = coupon[j]
    BY <1>3, <1>4 DEF TypeOK
  <1>8. \A j \in Id : Exists(j)' = Exists(j) /\ coupon'[j].code = coupon[j].code
    BY <1>1, <1>3, <1>6, <1>7, NoRowIsNoCoupon DEF Exists
  <1>9. Uses(i)' = Uses(i) \cup {u} /\ u \notin Uses(i) /\ \A j : j # i => Uses(j)' = Uses(j)
    BY <1>3, <1>4 DEF Uses
  <1>10. g0 \in Grant /\ subs[g0] = 0
    BY <1>3 DEF Grant
  <1>11. subs'[g0] = 1 /\ \A g \in Grant : g # g0 => subs'[g] = subs[g]
    BY <1>4, <1>10 DEF TypeOK
  <1>12. lastId \in Nat
    BY LastIdIsANumber
  <1>13. TypeOK'
    <2>1. subs' \in [Grant -> Nat]
      BY <1>4, <1>10 DEF TypeOK
    <2> QED
      BY <1>3, <1>4, <1>5, <1>6, <2>1 DEF TypeOK
  <1>14. RequestInv'
    <2> SUFFICES ASSUME NEW q \in Proc, req'[q] = req[q], At(q, "claim")
                 PROVE  /\ coupon'[req[q].id] = coupon[req[q].id]
                        /\ <<req[q].id, req[q].user>> \in redeemed' =>
                             <<req[q].id, req[q].user>> \in redeemed
                        /\ \A j \in Id :
                             subs'[<<req[q].user, j, coupon[req[q].id].code>>] =
                               subs[<<req[q].user, j, coupon[req[q].id].code>>]
      BY <1>4, <1>5, <1>12, HoldersUndisturbed
    <2>1. PICK j, v, l : j = req[q].id /\ v = req[q].user /\ l = coupon[j].code
      OBVIOUS
    <2>2. q # p
      BY <1>5 DEF At, Idle
    <2>3. j # i
      BY <1>1, <1>2, <2>1, <2>2 DEF RequestInv, OneHolder
    <2>4. j \in Id /\ v \in User /\ l \in Code /\ Exists(j)
      BY <2>1, ClaimFacts
    <2>5. l # k
      BY <1>1, <1>3, <2>1, <2>3, <2>4 DEF TableInv, UniqueCodes
    <2>6. \A h \in Id : <<v, h, l>> \in Grant /\ <<v, h, l>> # g0
      BY <2>4, <2>5 DEF Grant
    <2> QED
      BY <1>4, <1>7, <1>11, <2>1, <2>3, <2>4, <2>6
  <1>15. Fresh' /\ UniqueCodes'
    BY <1>3, <1>4, <1>7, <1>8 DEF TableInv, Fresh, UniqueCodes, Exists
  <1>16. RedeemedExist' /\ FiniteUses'
    BY <1>3, <1>8, <1>9, FS_AddElement DEF TableInv, RedeemedExist, FiniteUses
  <1>17. i <= lastId
    BY <1>3, <1>12 DEF TableInv, Fresh, Exists, Id
  <1>18. Recorded'
    <2> SUFFICES ASSUME NEW v \in User, NEW j \in Id, NEW l \in Code,
                        subs'[<<v, j, l>>] > 0
                 PROVE  /\ j <= lastId
                        /\ j \notin staleSaved /\ Exists(j) => <<j, v>> \in redeemed'
      BY <1>4, <1>8 DEF Recorded
    <2>1. CASE <<v, j, l>> = g0
      BY <1>4, <1>17, <2>1
    <2>2. CASE <<v, j, l>> # g0
      <3>1. subs[<<v, j, l>>] > 0
        BY <1>11, <2>2 DEF Grant
      <3> QED
        BY <1>4, <3>1 DEF TableInv, Recorded
    <2> QED
      BY <2>1, <2>2
  <1>19. OncePerUser'
    <2>1. \A g \in Grant : subs[g] > 0 /\ g[1] = u =>
             g[3] # k /\ (g[2] = i => i \in staleSaved)
      <3> SUFFICES ASSUME NEW j \in Id, NEW l \in Code, subs[<<u, j, l>>] > 0
                   PROVE  l # k /\ (j = i => i \in staleSaved)
        BY DEF Grant
      <3> QED
        BY <1>3 DEF TableInv, Recorded
    <2> QED
      BY <1>4, <1>10, <1>11, <2>1 DEF TableInv, OncePerUser
  <1>20. i \notin staleSaved => Cardinality(Uses(i)') = coupon[i].usedCount + 1
    BY <1>3, <1>9, FS_AddElement DEF TableInv, FiniteUses, CountsItsUses
  <1>21. CountsItsUses'
    BY <1>4, <1>6, <1>7, <1>8, <1>9, <1>20 DEF TableInv, CountsItsUses
  <1>22. \A j \in Id : Uses(j)' \subseteq Uses(j)
            \/ j \in staleSaved \/ coupon[j].maxUses = Unlimited
            \/ Cardinality(Uses(j)') <= coupon[j].maxUses
    <2>1. coupon[i].maxUses = Unlimited \/ coupon[i].usedCount + 1 <= coupon[i].maxUses
      BY <1>3 DEF HasUses, Coupon, Unlimited
    <2> QED
      BY <1>9, <1>20, <2>1
  <1> QED
    BY <1>13, <1>14, <1>15, <1>16, <1>18, <1>19, <1>21, <1>22 DEF TableInv

\* What the two statements of a save have in common: they put `row' in the
\* place of a coupon that no redemption holds.
LEMMA SaveKeepsInv ==
  ASSUME CouponInv, NEW p \in Proc, Finish(p), NEW i \in 1 .. lastId, NEW row \in Coupon,
         coupon' = [coupon EXCEPT ![i] = row],
         UNCHANGED <<lastId, redeemed, subs>>,
         ~Locked(i),
         row.code = coupon[i].code \/ ~TakenByOther(row.code, i),
         staleSaved' = staleSaved \/ staleSaved' = staleSaved \cup {i},
         i \notin staleSaved' => Exists(i) /\ row.usedCount = coupon[i].usedCount
  PROVE  CouponInv'
  <1> USE DEF CouponInv
  <1>1. lastId \in Nat /\ i \in Id
    BY LastIdIsANumber, CouponsConstants DEF Id
  <1>2. /\ req' \in [Proc -> Request]
        /\ \A q \in Proc : req'[q] = req[q] \/ req'[q] = Idle
    BY FinishLeaves
  <1>3. coupon'[i] = row /\ \A j \in Id : j # i => coupon'[j] = coupon[j]
    BY <1>1 DEF TypeOK
  <1>4. Exists(i)' /\ \A j \in Id : j # i => Exists(j)' = Exists(j)
    BY <1>1, <1>3, NoRowIsNoCoupon DEF Exists
  <1>5. \A j : Uses(j)' = Uses(j)
    BY DEF Uses
  <1>6. staleSaved \subseteq staleSaved' /\ staleSaved' \subseteq Id
        /\ \A j : j # i => (j \in staleSaved' <=> j \in staleSaved)
    BY <1>1 DEF TypeOK
  <1>7. TypeOK'
    BY <1>1, <1>2, <1>6 DEF TypeOK
  <1>8. RequestInv'
    <2>1. \A q \in Proc : At(q, "claim") => req[q].id \in Id /\ req[q].id # i
      BY DEF RequestInv, Shapes, Locked
    <2> QED
      BY <1>1, <1>2, <1>3, <2>1, HoldersUndisturbed
  <1>9. Fresh'
    BY <1>1, <1>3 DEF TableInv, Fresh, Exists
  <1>10. UniqueCodes'
    <2>1. \A j \in Id : j # i => coupon[j].code # row.code
      <3>1. row.code \in Code
        BY DEF Coupon
      <3>2. CASE row.code = coupon[i].code
        BY <1>1, <3>1, <3>2, RowsAre DEF TableInv, UniqueCodes
      <3>3. CASE ~TakenByOther(row.code, i)
        BY <3>3 DEF TakenByOther
      <3> QED
        BY <3>2, <3>3
    <2> QED
      BY <1>1, <1>3, <1>4, <2>1 DEF TableInv, UniqueCodes
  <1>11. RedeemedExist' /\ FiniteUses'
    BY <1>4, <1>5 DEF TableInv, RedeemedExist, FiniteUses
  <1>12. Recorded'
    BY <1>4, <1>6 DEF TableInv, Recorded
  <1>13. OncePerUser'
    BY <1>6 DEF TableInv, OncePerUser
  <1>14. CountsItsUses'
    BY <1>3, <1>4, <1>5, <1>6 DEF TableInv, CountsItsUses
  <1> QED
    BY <1>7, <1>8, <1>9, <1>10, <1>11, <1>12, <1>13, <1>14 DEF TableInv

\* A save that is refused only ends its request.
LEMMA RefusedKeepsInv ==
  ASSUME CouponInv, NEW p \in Proc, Finish(p), UNCHANGED tables
  PROVE  CouponInv'
  <1>1. req' = [req EXCEPT ![p] = Idle]
    BY DEF Finish
  <1> QED
    BY <1>1, IdleIsARequest, RequestMoves DEF Idle

LEMMA WriteKeepsInv ==
  ASSUME CouponInv, NEW p \in Proc, Write(p)
  PROVE  CouponInv'
  <1>1. PICK i, e, c : i = req[p].id /\ e = req[p].entity /\ c = req[p].changed
    OBVIOUS
  <1>2. i \in 1 .. lastId /\ e \in Coupon
    BY <1>1 DEF CouponInv, RequestInv, Shapes, Write, At
  <1>3. i \in Id /\ coupon \in [Id -> Coupon \cup {NoRow}]
    BY <1>2, LastIdIsANumber, CouponsConstants DEF CouponInv, TypeOK, Id
  <1>4. Finish(p) /\ ~Locked(i) /\ UNCHANGED <<lastId, redeemed, subs>>
    BY <1>1 DEF Write
  <1>5. CASE UNCHANGED <<coupon, staleSaved>>
    BY <1>4, <1>5, RefusedKeepsInv DEF tables
  <1>6. CASE /\ CanWrite(p)
             /\ coupon' = [coupon EXCEPT ![i] = Saved(coupon[i], e, c)]
             /\ Note(p)
    <2>1. Exists(i) /\ coupon[i] \in Coupon /\ ~TakenByOther(e.code, i)
      BY <1>1, <1>3, <1>6, RowsAre DEF CanWrite, CouponInv
    <2>2. PICK row : row = Saved(coupon[i], e, c)
      OBVIOUS
    <2>3. /\ row \in Coupon /\ row.code \in {coupon[i].code, e.code}
          /\ "usedCount" \notin c => row.usedCount = coupon[i].usedCount
      BY <1>2, <2>1, <2>2, RowsAreRewritten
    <2>4. staleSaved' = IF "usedCount" \in c THEN staleSaved \cup {i} ELSE staleSaved
      BY <1>1, <1>6 DEF Note
    <2>5. row.code = coupon[i].code \/ ~TakenByOther(row.code, i)
      BY <2>1, <2>3
    <2> QED
      BY <1>2, <1>4, <1>6, <2>1, <2>2, <2>3, <2>4, <2>5, SaveKeepsInv
  <1> QED
    BY <1>1, <1>5, <1>6 DEF Write

LEMMA InsertKeepsInv ==
  ASSUME CouponInv, NEW p \in Proc, Insert(p)
  PROVE  CouponInv'
  <1>1. PICK i, e : i = req[p].id /\ e = req[p].entity
    OBVIOUS
  <1>2. i \in 1 .. lastId /\ e \in Coupon
    BY <1>1 DEF CouponInv, RequestInv, Shapes, Insert, At
  <1>3. i \in Id
    BY <1>2, LastIdIsANumber, CouponsConstants DEF CouponInv, Id
  <1>4. Finish(p) /\ UNCHANGED <<lastId, redeemed, subs>>
    BY DEF Insert
  <1>5. CASE UNCHANGED <<coupon, staleSaved>>
    BY <1>4, <1>5, RefusedKeepsInv DEF tables
  <1>6. CASE /\ ~Exists(i) /\ ~Taken(e.code)
             /\ coupon' = [coupon EXCEPT ![i] = e]
             /\ staleSaved' = staleSaved \cup {i}
    <2>1. ~Locked(i)
      BY <1>6, ClaimFacts DEF Locked
    <2>2. ~TakenByOther(e.code, i)
      BY <1>6 DEF Taken, TakenByOther
    <2> QED
      BY <1>2, <1>4, <1>6, <2>1, <2>2, SaveKeepsInv
  <1> QED
    BY <1>1, <1>5, <1>6 DEF Insert

-----------------------------------------------------------------------------
(* The theorems.                                                           *)

\* A step keeps the invariant, and only a claim adds a redemption.
LEMMA NextCouponInv ==
  ASSUME CouponInv, [Next]_vars
  PROVE  /\ CouponInv'
         /\ \A i \in Id \ staleSaved : Uses(i)' \subseteq Uses(i)
              \/ coupon[i].maxUses = Unlimited
              \/ Cardinality(Uses(i)') <= coupon[i].maxUses
  <1>1. CASE \E p \in Proc : Claim(p)
    BY <1>1, ClaimKeepsInv
  <1>2. CASE ~\E p \in Proc : Claim(p)
    <2>1. redeemed' \subseteq redeemed => \A i : Uses(i)' \subseteq Uses(i)
      BY DEF Uses
    <2>2. CASE UNCHANGED vars
      <3>1. UNCHANGED tables /\ req' = req
        BY <2>2 DEF vars, tables
      <3>2. TypeOK' /\ RequestInv'
        BY <3>1 DEF CouponInv, TypeOK, RequestInv, Shapes, OneHolder, ClaimsStillHold,
                    At, HasUses, PreviousUse, tables
      <3> QED
        BY <2>1, <3>1, <3>2, TablesStay DEF CouponInv, tables
    <2>3. ASSUME NEW p \in Proc, Step(p) PROVE CouponInv' /\ redeemed' = redeemed
      <3>1. CASE \E u \in User, i \in Id : LockCoupon(p, u, i)
        BY <3>1, LockCouponKeepsInv DEF LockCoupon
      <3>2. CASE BeginCreate(p)
        BY <3>2, BeginCreateKeepsInv DEF BeginCreate
      <3>3. CASE Create(p)
        BY <3>3, CreateKeepsInv DEF Create
      <3>4. CASE BeginEdit(p)
        BY <3>4, BeginEditKeepsInv DEF BeginEdit
      <3>5. CASE Reload(p)
        BY <3>5, ReloadKeepsInv DEF Reload
      <3>6. CASE Write(p)
        BY <3>6, WriteKeepsInv DEF Write
      <3>7. CASE Insert(p)
        BY <3>7, InsertKeepsInv DEF Insert
      <3>8. CASE Fail(p)
        BY <3>8, FailKeepsInv DEF Fail
      <3> QED
        BY <1>2, <2>3, <3>1, <3>2, <3>3, <3>4, <3>5, <3>6, <3>7, <3>8 DEF Step
    <2>4. ASSUME NEW i \in Id, DeleteCoupon(i)
          PROVE  CouponInv' /\ redeemed' \subseteq redeemed
      BY <2>4, DeleteCouponKeepsInv DEF DeleteCoupon
    <2> QED
      BY <2>1, <2>2, <2>3, <2>4 DEF Next
  <1> QED
    BY <1>1, <1>2

LEMMA CouponInvAlways == Spec => []CouponInv
  <1>1. CouponInv /\ [Next]_vars => CouponInv'
    BY NextCouponInv
  <1> QED
    BY InitCouponInv, <1>1, PTL DEF Spec

\* The tables and the requests on them keep their types.
THEOREM CouponsTypeCorrect == Spec => []TypeOK
  BY CouponInvAlways, PTL DEF CouponInv

\* Whatever administrators do at the same time, a user gets one subscription
\* for a code, and one for a coupon that no save brought back
\* (plans.service.ts:476-485).
THEOREM UsersRedeemOnce == Spec => []OncePerUser
  BY CouponInvAlways, PTL DEF CouponInv, TableInv

\* Neither the unique index nor the conditional UPDATE ever refuses a claim:
\* the row lock suffices (plans.service.ts:519-543).
THEOREM ClaimsAlwaysHold == Spec => []ClaimsStillHold
  BY CouponInvAlways, PTL DEF CouponInv, RequestInv

\* The stored count is the number of redemptions, unless a save took it from an
\* older reading (plans.service.ts:533-541).
THEOREM CouponsCountTheirUses == Spec => []CountsItsUses
  BY CouponInvAlways, PTL DEF CouponInv, TableInv

\* A coupon is never redeemed more often than it allows, with the same
\* exception (coupon.entity.ts:44-46).
THEOREM CouponsKeepTheirLimit == Spec => UsesWithinLimit
  <1>1. CouponInv /\ [Next]_vars => [WithinLimit]_vars
    BY NextCouponInv DEF WithinLimit
  <1> QED
    BY CouponInvAlways, <1>1, PTL DEF Spec, UsesWithinLimit

\* After every step the uses of a coupon add up to its count, and no step takes
\* them over its limit (plans.service.ts:530-541).
THEOREM UsesAlwaysAddUp == Spec => UsesAddUp
  BY CouponsCountTheirUses, CouponsKeepTheirLimit, PTL DEF UsesAddUp, UsesWithinLimit
=============================================================================
