--------------------------- MODULE SessionsProofs ---------------------------
(***************************************************************************)
(* Proofs about Sessions for every value of the constants: however many    *)
(* requests, lineages and generations there are, and whatever the          *)
(* lifetimes, as long as two rotations and an open transaction fit into    *)
(* one session lifetime (RotationsAreFarApart).                            *)
(***************************************************************************)
EXTENDS Sessions, WellFoundedInduction, TLAPS

\* A token is a pair of its lineage and a generation between 0 and MaxGen.
LEMMA TokenFacts ==
  ASSUME NEW t \in Token
  PROVE  /\ t[1] \in Chain /\ t[2] \in Int /\ 0 <= t[2] /\ t[2] <= MaxGen
         /\ t = <<t[1], t[2]>>
         /\ t[2] < MaxGen => Replacement(t) \in Token
         /\ t # NoToken
  BY SessionConstants, NoTokenIsNoToken DEF Token, Replacement

\* An answered request is a request.
LEMMA IdleIsARequest == Idle \in Request
  BY DEF Idle, Request

\* Deleting rows keeps the type of the table.
LEMMA WithoutType ==
  ASSUME TypeOK, NEW S
  PROVE  Without(S) \in [Token -> Nat \cup {NoRow}]
  BY DEF Without, TypeOK

\* Releasing locks keeps the types of the lock tables.
LEMMA UnlockType ==
  ASSUME TypeOK, NEW p \in Proc, Unlock(p)
  PROVE  /\ rowLock' \in [Token -> Proc \cup {NoProc}]
         /\ userLock' \in [User -> Proc \cup {NoProc}]
  BY DEF Unlock, TypeOK

\* Answering a request keeps the type of the requests.
LEMMA FinishType ==
  ASSUME TypeOK, NEW p \in Proc, Finish(p)
  PROVE  req' \in [Proc -> Request]
  BY IdleIsARequest DEF Finish, TypeOK

\* A request that starts is a request.
LEMMA BeginType ==
  ASSUME TypeOK, NEW p \in Proc,
         NEW op \in {"login", "resolve", "logout", "revoke", "reset", "role"},
         NEW pc \in {"purge", "rotateLock", "logout", "userLock", "delete",
                     "create"},
         NEW t \in Token \cup {NoToken}, NEW u \in User \cup {NoUser},
         NEW todo \in SUBSET Token,
         Begin(p, op, pc, t, u, todo)
  PROVE  req' \in [Proc -> Request]
  <1>1. [op |-> op, pc |-> pc, tok |-> t, user |-> u, todo |-> todo,
         now |-> IF pc = "create" THEN clock ELSE 0] \in Request
    BY DEF Request, TypeOK
  <1> QED
    BY <1>1 DEF Begin, TypeOK

\* Waiting for a row and locking it keeps the types.
LEMMA AcquireType ==
  ASSUME TypeOK, NEW p \in Proc, NEW t \in Token, Acquire(p, t)
  PROVE  TypeOK'
  <1>1. req[p] \in Request
    BY DEF TypeOK
  <1>2. [req[p] EXCEPT !.todo = @ \ {t}] \in Request
    BY <1>1 DEF Request
  <1>3. req' \in [Proc -> Request]
    BY <1>2 DEF Acquire, TypeOK
  <1> QED
    BY <1>3 DEF Acquire, TypeOK

\* Every reachable state is well typed.
THEOREM InitTypeOK == Init => TypeOK
  BY IdleIsARequest DEF Init, TypeOK, NoRow

\* Every step of a handler or of the clock keeps the types.
THEOREM NextTypeOK ==
  ASSUME TypeOK, [Next]_vars
  PROVE  TypeOK'
  <1> USE SessionConstants
  <1>1. ASSUME NEW p \in Proc, NEW u \in User, Login(p, u)
        PROVE  TypeOK'
    <2>1. PICK c \in Fresh : /\ owner' = [owner EXCEPT ![c] = u]
                             /\ Begin(p, "login", "create", <<c, 0>>, u, {})
      BY <1>1 DEF Login
    <2>2. c \in Chain /\ <<c, 0>> \in Token
      BY DEF Fresh, Token
    <2>3. req' \in [Proc -> Request]
      BY <2>1, <2>2, BeginType
    <2> QED
      BY <1>1, <2>1, <2>2, <2>3 DEF Login, TypeOK
  <1>2. ASSUME NEW p \in Proc, NEW u \in User, RevokeAll(p, u)
        PROVE  TypeOK'
    <2>1. RowsOf(u) \in SUBSET Token
      BY DEF RowsOf, rows
    <2>2. req' \in [Proc -> Request]
      BY <1>2, <2>1, BeginType DEF RevokeAll
    <2> QED
      BY <1>2, <2>2 DEF RevokeAll, TypeOK
  <1>3. ASSUME NEW p \in Proc, NEW u \in User, NEW op \in {"reset", "role"},
               OpenUserTransaction(p, u, op)
        PROVE  TypeOK'
    <2>1. req' \in [Proc -> Request]
      BY <1>3, BeginType DEF OpenUserTransaction
    <2> QED
      BY <1>3, <2>1 DEF OpenUserTransaction, TypeOK
  <1>4. ASSUME NEW p \in Proc, NEW t \in Token,
               ResolveExpired(p, t) \/ ResolveAgeing(p, t)
        PROVE  TypeOK'
    <2>1. req' \in [Proc -> Request]
      BY <1>4, BeginType DEF ResolveExpired, ResolveAgeing
    <2> QED
      BY <1>4, <2>1 DEF ResolveExpired, ResolveAgeing, TypeOK
  <1>5. ASSUME NEW p \in Proc, NEW t \in Token, Logout(p, t)
        PROVE  TypeOK'
    <2>1. owner[t[1]] \in User \cup {NoUser}
      BY TokenFacts DEF TypeOK
    <2>2. req' \in [Proc -> Request]
      BY <1>5, <2>1, BeginType DEF Logout
    <2>3. expiresAt' \in [Token -> Nat \cup {NoRow}]
      BY <1>5, WithoutType DEF Logout, TypeOK
    <2> QED
      BY <1>5, <2>2, <2>3 DEF Logout, TypeOK
  <1>6. ASSUME NEW p \in Proc, CreateSession(p)
        PROVE  TypeOK'
    <2>1. req[p].now + TTL \in Nat
      BY DEF TypeOK, Request
    <2>2. expiresAt' \in [Token -> Nat \cup {NoRow}]
      BY <1>6, <2>1 DEF CreateSession, TypeOK
    <2> QED
      BY <1>6, <2>2, FinishType DEF CreateSession, TypeOK
  <1>7. ASSUME NEW p \in Proc, PurgeExpired(p) \/ RotationNotNeeded(p)
        PROVE  TypeOK'
    <2>1. expiresAt' \in [Token -> Nat \cup {NoRow}]
      BY <1>7, WithoutType DEF PurgeExpired, RotationNotNeeded, TypeOK
    <2>2. req' \in [Proc -> Request]
      BY <1>7, FinishType DEF PurgeExpired, RotationNotNeeded
    <2> QED
      BY <1>7, <2>1, <2>2 DEF PurgeExpired, RotationNotNeeded, TypeOK
  <1>8. ASSUME NEW p \in Proc, LockForRotation(p)
        PROVE  TypeOK'
    <2>1. [req[p] EXCEPT !.pc = "rotate", !.now = clock] \in Request
      BY ZenonT(60) DEF TypeOK, Request
    <2>2. req' \in [Proc -> Request]
      BY <1>8, <2>1 DEF LockForRotation, TypeOK
    <2> QED
      BY <1>8, <2>2 DEF LockForRotation, TypeOK
  <1>9. ASSUME NEW p \in Proc, ReissueReplacement(p)
        PROVE  TypeOK'
    BY <1>9, FinishType, UnlockType DEF ReissueReplacement, TypeOK
  <1>10. ASSUME NEW p \in Proc, MintReplacement(p)
         PROVE  TypeOK'
    <2>1. req[p].now + TTL \in Nat /\ req[p].now + Grace \in Nat
      BY DEF TypeOK, Request
    <2>2. expiresAt' \in [Token -> Nat \cup {NoRow}]
      BY <1>10, <2>1 DEF MintReplacement, TypeOK
    <2> QED
      BY <1>10, <2>2, FinishType, UnlockType DEF MintReplacement, TypeOK
  <1>11. ASSUME NEW p \in Proc,
                SelectLineage(p) \/ DeleteLineage(p) \/ DeleteUnderUserLock(p)
         PROVE  TypeOK'
    <2>1. PICK new \in SUBSET Token :
            req' = [req EXCEPT ![p] = [req[p] EXCEPT !.pc = req'[p].pc,
                                                     !.todo = new]]
            /\ req'[p].pc \in {"lock", "delete"}
      <3>1. CASE SelectLineage(p)
        <4>1. Lineage(req[p].tok) \cap rows \in SUBSET Token
          BY DEF rows
        <4> QED
          BY <3>1, <4>1, ZenonT(60) DEF SelectLineage, TypeOK, Request
      <3>2. CASE DeleteLineage(p)
        <4>1. (Lineage(req[p].tok) \cap rows) \ Held(p) \in SUBSET Token
          BY DEF rows
        <4> QED
          BY <3>2, <4>1, ZenonT(60) DEF DeleteLineage, TypeOK, Request
      <3>3. CASE DeleteUnderUserLock(p)
        <4>1. RowsOf(req[p].user) \in SUBSET Token
          BY DEF RowsOf, rows
        <4> QED
          BY <3>3, <4>1, ZenonT(60) DEF DeleteUnderUserLock, TypeOK, Request
      <3> QED
        BY <1>11, <3>1, <3>2, <3>3
    <2>2. [req[p] EXCEPT !.pc = req'[p].pc, !.todo = new] \in Request
      BY <2>1, ZenonT(60) DEF TypeOK, Request
    <2>3. req' \in [Proc -> Request]
      BY <2>1, <2>2 DEF TypeOK
    <2> QED
      BY <1>11, <2>3
      DEF SelectLineage, DeleteLineage, DeleteUnderUserLock, TypeOK
  <1>12. ASSUME NEW p \in Proc, LockLineage(p) \/ DeleteNextRow(p)
         PROVE  TypeOK'
    <2>1. \A t \in req[p].todo : t \in Token
      BY DEF TypeOK, Request
    <2>2. PICK t \in Token : Acquire(p, t)
      BY <1>12, <2>1 DEF LockLineage, DeleteNextRow, NextToLock
    <2> QED
      BY <2>2, AcquireType
  <1>13. ASSUME NEW p \in Proc, LockUser(p)
         PROVE  TypeOK'
    <2>1. [req[p] EXCEPT !.pc = "held"] \in Request
      BY SMTT(60) DEF TypeOK, Request
    <2>2. req' \in [Proc -> Request]
      BY <1>13, <2>1 DEF LockUser, TypeOK
    <2> QED
      BY <1>13, <2>2 DEF LockUser, TypeOK
  <1>14. ASSUME NEW p \in Proc, CommitDelete(p)
         PROVE  TypeOK'
    <2>1. EndedBy(p) \in SUBSET Chain
      BY DEF EndedBy
    <2>2. expiresAt' \in [Token -> Nat \cup {NoRow}]
      BY <1>14, WithoutType DEF CommitDelete
    <2>3. /\ req' \in [Proc -> Request]
          /\ owner' \in [Chain -> User \cup {NoUser}]
      <3>1. CASE /\ req[p].op # "reset" \/ Fresh = {}
                 /\ Finish(p)
                 /\ UNCHANGED owner
        BY <3>1, FinishType DEF TypeOK
      <3>2. CASE \E c \in Fresh :
                   /\ owner' = [owner EXCEPT ![c] = req[p].user]
                   /\ Begin(p, "login", "create", <<c, 0>>, req[p].user, {})
        <4>1. PICK c \in Fresh :
                   /\ owner' = [owner EXCEPT ![c] = req[p].user]
                   /\ Begin(p, "login", "create", <<c, 0>>, req[p].user, {})
          BY <3>2
        <4>2. c \in Chain /\ <<c, 0>> \in Token
          BY DEF Fresh, Token
        <4>3. req[p].user \in User \cup {NoUser}
          BY DEF TypeOK, Request
        <4>4. req' \in [Proc -> Request]
          BY <4>1, <4>2, <4>3, BeginType
        <4> QED
          BY <4>1, <4>3, <4>4 DEF TypeOK
      <3> QED
        BY <1>14, <3>1, <3>2 DEF CommitDelete
    <2> QED
      BY <1>14, <2>1, <2>2, <2>3, UnlockType DEF CommitDelete, TypeOK
  <1>15. ASSUME NEW p \in Proc, AbortDeadlocked(p)
         PROVE  TypeOK'
    BY <1>15, FinishType, UnlockType DEF AbortDeadlocked, TypeOK
  <1>16. CASE Tick
    BY <1>16 DEF Tick, TypeOK
  <1>17. CASE UNCHANGED vars
    BY <1>17 DEF vars, TypeOK
  <1> QED
    BY <1>1, <1>2, <1>3, <1>4, <1>5, <1>6, <1>7, <1>8, <1>9, <1>10, <1>11,
       <1>12, <1>13, <1>14, <1>15, <1>16, <1>17
    DEF Next, Start, Continue

\* The tables, locks and requests of the session service keep their types
\* (users.service.ts:342-569).
THEOREM TypeCorrect == Spec => []TypeOK
  BY InitTypeOK, NextTypeOK, PTL DEF Spec

-----------------------------------------------------------------------------
(***************************************************************************)
(* The order of a lineage.  What makes LineageInOrder and RotationInOrder  *)
(* inductive: a lineage has no row before its createSession inserts one,   *)
(* and a request that waits to rotate names a token with a replacement.    *)
(***************************************************************************)
NewLineagesAreEmpty ==
  /\ \A t \in rows : owner[t[1]] # NoUser
  /\ \A p \in Proc : At(p, "create") =>
       /\ req[p].tok \in Token /\ req[p].tok[2] = 0
       /\ owner[req[p].tok[1]] # NoUser
       /\ \A t \in rows : t[1] # req[p].tok[1]
       /\ \A q \in Proc \ {p} :
            At(q, "create") => req[q].tok[1] # req[p].tok[1]

RotatedTokens ==
  \A p \in Proc : At(p, "rotateLock") \/ At(p, "rotate") =>
    req[p].tok \in Token /\ req[p].tok[2] < MaxGen

UserTransactionsNameUsers ==
  \A p \in Proc : req[p].op = "reset" => req[p].user # NoUser

OrderInv ==
  /\ TypeOK
  /\ NewLineagesAreEmpty
  /\ RotatedTokens
  /\ UserTransactionsNameUsers
  /\ LineageInOrder
  /\ RotationInOrder

\* No row is inserted or renewed, and the rows being rotated stay as they are.
RowsOnlyGo ==
  /\ clock' = clock
  /\ \A t \in Token : expiresAt'[t] = expiresAt[t] \/ expiresAt'[t] = NoRow
  /\ \A p \in Proc : At(p, "rotate")' =>
       /\ At(p, "rotate")
       /\ req'[p].tok = req[p].tok /\ req'[p].now = req[p].now
       /\ expiresAt'[req[p].tok] = expiresAt[req[p].tok]
       /\ rowLock'[req[p].tok] = rowLock[req[p].tok]

\* What it means to be a committed row, before and after a step.
LEMMA RowsAre ==
  /\ \A t : t \in rows <=> t \in Token /\ expiresAt[t] # NoRow
  /\ \A t : t \in rows' <=> t \in Token /\ expiresAt'[t] # NoRow
  BY DEF rows

\* A step that only deletes rows keeps the order of every lineage.
LEMMA RowsOnlyGoKeepsOrder ==
  ASSUME OrderInv, TypeOK', RowsOnlyGo
  PROVE  LineageInOrder' /\ RotationInOrder'
  <1>1. \A t \in rows' : t \in rows /\ expiresAt'[t] = expiresAt[t]
    BY RowsAre DEF RowsOnlyGo
  <1>2. LineageInOrder'
    BY <1>1 DEF OrderInv, LineageInOrder, RowsOnlyGo
  <1>3. ASSUME NEW p \in Proc, At(p, "rotate")'
        PROVE  /\ At(p, "rotate")
               /\ req'[p].tok = req[p].tok /\ req'[p].now = req[p].now
               /\ req[p].tok \in rows' /\ rowLock'[req[p].tok] = p
               /\ expiresAt'[req[p].tok] = expiresAt[req[p].tok]
    BY <1>3, RowsAre DEF RowsOnlyGo, OrderInv, RotationInOrder
  <1>4. RotationInOrder'
    BY <1>1, <1>3 DEF OrderInv, RotationInOrder, RowsOnlyGo
  <1> QED
    BY <1>2, <1>4

\* The side conditions survive when rows only go, provided the requests that
\* enter "create" or a rotation name a fresh lineage or a row.
RequestsStaySound ==
  /\ \A c \in Chain : owner[c] # NoUser => owner'[c] # NoUser
  /\ \A p \in Proc : At(p, "create")' =>
       \/ /\ At(p, "create") /\ req'[p].tok = req[p].tok
       \/ /\ req'[p].tok \in Token /\ req'[p].tok[2] = 0
          /\ owner[req'[p].tok[1]] = NoUser
          /\ owner'[req'[p].tok[1]] # NoUser
          /\ \A q \in Proc \ {p} : At(q, "create")' =>
                At(q, "create") /\ req'[q].tok = req[q].tok
  /\ \A p \in Proc : At(p, "rotateLock")' \/ At(p, "rotate")' =>
       \/ (At(p, "rotateLock") \/ At(p, "rotate")) /\ req'[p].tok = req[p].tok
       \/ req'[p].tok \in Token /\ req'[p].tok[2] < MaxGen
  /\ \A p \in Proc : req'[p].op = "reset" =>
       req'[p].user # NoUser

\* A step that only deletes rows keeps the whole invariant.
LEMMA RowsOnlyGoKeepsInv ==
  ASSUME OrderInv, TypeOK', RowsOnlyGo, RequestsStaySound
  PROVE  OrderInv'
  <1>1. \A t \in rows' : t \in rows /\ t[1] \in Chain
    BY RowsAre, TokenFacts DEF RowsOnlyGo
  <1>2. \A t \in rows' : owner'[t[1]] # NoUser
    BY <1>1 DEF OrderInv, NewLineagesAreEmpty, RequestsStaySound
  <1>3. ASSUME NEW p \in Proc, At(p, "create")'
        PROVE  /\ req'[p].tok \in Token /\ req'[p].tok[2] = 0
               /\ owner'[req'[p].tok[1]] # NoUser
               /\ \A t \in rows' : t[1] # req'[p].tok[1]
               /\ \A q \in Proc \ {p} :
                    At(q, "create")' => req'[q].tok[1] # req'[p].tok[1]
    <2>1. CASE At(p, "create") /\ req'[p].tok = req[p].tok
      <3>1. /\ req'[p].tok \in Token /\ req'[p].tok[2] = 0
            /\ owner[req[p].tok[1]] # NoUser
            /\ \A t \in rows : t[1] # req[p].tok[1]
            /\ \A q \in Proc \ {p} :
                    At(q, "create") => req[q].tok[1] # req[p].tok[1]
        BY <2>1 DEF OrderInv, NewLineagesAreEmpty
      <3>2. owner'[req'[p].tok[1]] # NoUser
        BY <2>1, <3>1, TokenFacts DEF RequestsStaySound
      <3>3. ASSUME NEW q \in Proc \ {p}, At(q, "create")'
            PROVE  req'[q].tok[1] # req'[p].tok[1]
        <4>1. CASE At(q, "create") /\ req'[q].tok = req[q].tok
          BY <2>1, <3>1, <4>1
        <4>2. CASE owner[req'[q].tok[1]] = NoUser
          BY <2>1, <3>1, <4>2
        <4> QED
          BY <3>3, <4>1, <4>2 DEF RequestsStaySound
      <3> QED
        BY <1>1, <2>1, <3>1, <3>2, <3>3
    <2>2. CASE /\ req'[p].tok \in Token /\ req'[p].tok[2] = 0
               /\ owner[req'[p].tok[1]] = NoUser
               /\ owner'[req'[p].tok[1]] # NoUser
               /\ \A q \in Proc \ {p} : At(q, "create")' =>
                     At(q, "create") /\ req'[q].tok = req[q].tok
      <3>1. \A t \in rows' : t[1] # req'[p].tok[1]
        BY <1>1, <2>2 DEF OrderInv, NewLineagesAreEmpty
      <3>2. ASSUME NEW q \in Proc \ {p}, At(q, "create")'
            PROVE  req'[q].tok[1] # req'[p].tok[1]
        BY <2>2, <3>2 DEF OrderInv, NewLineagesAreEmpty
      <3> QED
        BY <2>2, <3>1, <3>2
    <2> QED
      BY <1>3, <2>1, <2>2 DEF RequestsStaySound
  <1>4. NewLineagesAreEmpty'
    BY <1>2, <1>3 DEF NewLineagesAreEmpty
  <1>5. RotatedTokens'
    BY DEF OrderInv, RotatedTokens, RequestsStaySound
  <1>6. UserTransactionsNameUsers'
    BY DEF UserTransactionsNameUsers, RequestsStaySound
  <1> QED
    BY <1>4, <1>5, <1>6, RowsOnlyGoKeepsOrder DEF OrderInv

\* What a request's fields are.
LEMMA RequestFacts ==
  ASSUME TypeOK, NEW p \in Proc
  PROVE  /\ req[p].now \in Nat /\ req[p].todo \in SUBSET Token
         /\ req[p].tok \in Token \cup {NoToken}
         /\ req[p].user \in User \cup {NoUser}
         /\ p # NoProc
  BY SessionConstants DEF TypeOK, Request

\* A request that starts changes nothing but itself.
LEMMA BeginFacts ==
  ASSUME TypeOK, NEW p \in Proc, NEW op, NEW pc, NEW t, NEW u, NEW todo,
         Begin(p, op, pc, t, u, todo)
  PROVE  /\ req'[p].op = op /\ req'[p].pc = pc /\ req'[p].tok = t
         /\ req'[p].user = u
         /\ \A q \in Proc \ {p} : req'[q] = req[q]
  BY DEF Begin, TypeOK

\* What answering a request leaves of the others.
LEMMA FinishFacts ==
  ASSUME TypeOK, NEW p \in Proc, Finish(p)
  PROVE  /\ req'[p].op = "none" /\ req'[p].pc = "idle"
         /\ \A q \in Proc \ {p} : req'[q] = req[q]
  BY DEF Finish, TypeOK, Idle

\* A row held by another transaction is not free, and stays held when this
\* one lets go of its own.
LEMMA OthersKeepTheirRows ==
  ASSUME OrderInv, NEW p \in Proc, NEW q \in Proc, At(q, "rotate")
  PROVE  /\ req[q].tok \in Token
         /\ rowLock[req[q].tok] = q /\ rowLock[req[q].tok] # NoProc
         /\ q # p => req[q].tok \notin Held(p)
         /\ Unlock(p) /\ q # p => rowLock'[req[q].tok] = rowLock[req[q].tok]
  BY RequestFacts, SessionConstants
  DEF OrderInv, RotationInOrder, RotatedTokens, Held, Unlock

\* A request that starts keeps the invariant.
LEMMA StartKeepsOrder ==
  ASSUME OrderInv, TypeOK', NEW p \in Proc, Start(p)
  PROVE  OrderInv'
  <1> USE DEF OrderInv
  <1>1. ASSUME NEW u \in User, Login(p, u)
        PROVE  OrderInv'
    <2>1. PICK c \in Fresh : /\ owner' = [owner EXCEPT ![c] = u]
                             /\ Begin(p, "login", "create", <<c, 0>>, u, {})
      BY <1>1 DEF Login
    <2>2. /\ c \in Chain /\ owner[c] = NoUser /\ u # NoUser
          /\ <<c, 0>> \in Token /\ <<c, 0>>[1] = c /\ <<c, 0>>[2] = 0
          /\ owner'[c] = u
          /\ \A d \in Chain : d # c => owner'[d] = owner[d]
      BY <2>1, SessionConstants DEF Fresh, Token, TypeOK
    <2>3. /\ req'[p].pc = "create" /\ req'[p].op = "login"
          /\ req'[p].tok = <<c, 0>>
          /\ \A q \in Proc \ {p} : req'[q] = req[q]
      BY <2>1, BeginFacts
    <2>4. RowsOnlyGo
      BY <1>1, <2>3 DEF RowsOnlyGo, Login, At
    <2>5. RequestsStaySound
      BY <2>2, <2>3 DEF RequestsStaySound, At, RotatedTokens,
                        UserTransactionsNameUsers
    <2> QED
      BY <2>4, <2>5, RowsOnlyGoKeepsInv
  <1>2. ASSUME NEW u \in User, RevokeAll(p, u)
        PROVE  OrderInv'
    <2>1. /\ req'[p].pc = "delete" /\ req'[p].op = "revoke"
          /\ \A q \in Proc \ {p} : req'[q] = req[q]
      BY <1>2, BeginFacts DEF RevokeAll
    <2>2. RowsOnlyGo /\ RequestsStaySound
      BY <1>2, <2>1 DEF RowsOnlyGo, RequestsStaySound, RevokeAll, At,
                        RotatedTokens, UserTransactionsNameUsers
    <2> QED
      BY <2>2, RowsOnlyGoKeepsInv
  <1>3. ASSUME NEW u \in User, NEW op \in {"reset", "role"},
               OpenUserTransaction(p, u, op)
        PROVE  OrderInv'
    <2>1. /\ req'[p].pc = "userLock" /\ req'[p].user = u /\ u # NoUser
          /\ \A q \in Proc \ {p} : req'[q] = req[q]
      BY <1>3, BeginFacts, SessionConstants DEF OpenUserTransaction
    <2>2. RowsOnlyGo /\ RequestsStaySound
      BY <1>3, <2>1 DEF RowsOnlyGo, RequestsStaySound, OpenUserTransaction, At,
                        RotatedTokens, UserTransactionsNameUsers
    <2> QED
      BY <2>2, RowsOnlyGoKeepsInv
  <1>4. ASSUME NEW t \in Token, ResolveExpired(p, t) \/ ResolveAgeing(p, t)
        PROVE  OrderInv'
    <2>1. /\ \/ req'[p].pc = "purge"
             \/ req'[p].pc = "rotateLock" /\ t[2] < MaxGen
          /\ req'[p].op = "resolve" /\ req'[p].tok = t
          /\ \A q \in Proc \ {p} : req'[q] = req[q]
      BY <1>4, BeginFacts DEF ResolveExpired, ResolveAgeing
    <2>2. UNCHANGED <<clock, expiresAt, owner, rowLock>>
      BY <1>4 DEF ResolveExpired, ResolveAgeing
    <2>3. RowsOnlyGo /\ RequestsStaySound
      BY <2>1, <2>2 DEF RowsOnlyGo, RequestsStaySound, At, RotatedTokens,
                        UserTransactionsNameUsers
    <2> QED
      BY <2>3, RowsOnlyGoKeepsInv
  <1>5. ASSUME NEW t \in Token, Logout(p, t)
        PROVE  OrderInv'
    <2>1. /\ req'[p].pc = "logout" /\ req'[p].op = "logout"
          /\ \A q \in Proc \ {p} : req'[q] = req[q]
      BY <1>5, BeginFacts DEF Logout
    <2>2. /\ \A s \in Token : \/ expiresAt'[s] = expiresAt[s]
                            \/ /\ expiresAt'[s] = NoRow
                               /\ rowLock[s] = NoProc
          /\ UNCHANGED <<clock, owner, rowLock>>
      BY <1>5 DEF Logout, Without
    <2>3. RowsOnlyGo
      BY <2>1, <2>2, OthersKeepTheirRows DEF RowsOnlyGo, At
    <2>4. RequestsStaySound
      BY <2>1, <2>2 DEF RequestsStaySound, At, RotatedTokens,
                        UserTransactionsNameUsers
    <2> QED
      BY <2>3, <2>4, RowsOnlyGoKeepsInv
  <1> QED
    BY <1>1, <1>2, <1>3, <1>4, <1>5 DEF Start

\* The steps that only wait, lock, delete, answer or fail.
LEMMA QuietStepKeepsOrder ==
  ASSUME OrderInv, TypeOK', NEW p \in Proc,
         \/ PurgeExpired(p) \/ RotationNotNeeded(p) \/ ReissueReplacement(p)
         \/ SelectLineage(p) \/ LockLineage(p) \/ DeleteLineage(p)
         \/ LockUser(p) \/ DeleteUnderUserLock(p) \/ DeleteNextRow(p)
         \/ AbortDeadlocked(p)
  PROVE  OrderInv'
  <1> USE DEF OrderInv
  <1>1. CASE PurgeExpired(p) \/ RotationNotNeeded(p)
    <2>1. /\ \A s \in Token : \/ expiresAt'[s] = expiresAt[s]
                            \/ /\ expiresAt'[s] = NoRow
                               /\ rowLock[s] = NoProc
          /\ UNCHANGED <<clock, owner, rowLock>> /\ Finish(p)
      BY <1>1 DEF PurgeExpired, RotationNotNeeded, Without, TypeOK
    <2>2. RowsOnlyGo
      BY <2>1, FinishFacts, OthersKeepTheirRows DEF RowsOnlyGo, At
    <2>3. RequestsStaySound
      BY <2>1, FinishFacts DEF RequestsStaySound, At, RotatedTokens,
                               UserTransactionsNameUsers
    <2> QED
      BY <2>2, <2>3, RowsOnlyGoKeepsInv
  <1>2. CASE ReissueReplacement(p) \/ AbortDeadlocked(p)
    <2>1. UNCHANGED <<clock, owner, expiresAt>> /\ Finish(p) /\ Unlock(p)
      BY <1>2 DEF ReissueReplacement, AbortDeadlocked
    <2>2. RowsOnlyGo
      BY <2>1, FinishFacts, OthersKeepTheirRows DEF RowsOnlyGo, At
    <2>3. RequestsStaySound
      BY <2>1, FinishFacts DEF RequestsStaySound, At, RotatedTokens,
                               UserTransactionsNameUsers
    <2> QED
      BY <2>2, <2>3, RowsOnlyGoKeepsInv
  <1>3. CASE SelectLineage(p) \/ DeleteLineage(p) \/ DeleteUnderUserLock(p)
             \/ LockUser(p)
    <2>1. /\ UNCHANGED <<clock, owner, expiresAt, rowLock>>
          /\ req'[p].pc \in {"lock", "delete", "held"}
          /\ req'[p].op = req[p].op /\ req'[p].user = req[p].user
          /\ \A q \in Proc \ {p} : req'[q] = req[q]
      BY <1>3 DEF SelectLineage, DeleteLineage, DeleteUnderUserLock, LockUser,
                  TypeOK, Request
    <2>2. RowsOnlyGo /\ RequestsStaySound
      BY <2>1 DEF RowsOnlyGo, RequestsStaySound, At, RotatedTokens,
                  UserTransactionsNameUsers
    <2> QED
      BY <2>2, RowsOnlyGoKeepsInv
  <1>4. CASE LockLineage(p) \/ DeleteNextRow(p)
    <2>1. PICK t \in Token : Acquire(p, t)
      BY <1>4, RequestFacts DEF LockLineage, DeleteNextRow, NextToLock
    <2>2. /\ UNCHANGED <<clock, owner, expiresAt>>
          /\ \A s \in Token : rowLock[s] # NoProc => rowLock'[s] = rowLock[s]
          /\ req'[p].pc = req[p].pc /\ req'[p].tok = req[p].tok
          /\ req'[p].op = req[p].op /\ req'[p].user = req[p].user
          /\ req'[p].now = req[p].now
          /\ \A q \in Proc \ {p} : req'[q] = req[q]
      BY <2>1 DEF Acquire, TypeOK, Request
    <2>3. RowsOnlyGo
      BY <2>2, OthersKeepTheirRows DEF RowsOnlyGo, At
    <2>4. RequestsStaySound
      BY <2>2 DEF RequestsStaySound, At, RotatedTokens,
                  UserTransactionsNameUsers
    <2> QED
      BY <2>3, <2>4, RowsOnlyGoKeepsInv
  <1> QED
    BY <1>1, <1>2, <1>3, <1>4

\* Committing a DELETE keeps the invariant, the reset re-login included.
LEMMA CommitDeleteKeepsOrder ==
  ASSUME OrderInv, TypeOK', NEW p \in Proc, CommitDelete(p)
  PROVE  OrderInv'
  <1> USE DEF OrderInv
  <1>1. /\ clock' = clock /\ Unlock(p)
        /\ \A s \in Token : expiresAt'[s] = IF s \in Held(p) THEN NoRow
                                            ELSE expiresAt[s]
    BY DEF CommitDelete, Without
  <1>2. /\ req'[p].pc # "rotate"
        /\ \A q \in Proc \ {p} : req'[q] = req[q]
        /\ RequestsStaySound
    <2>1. CASE Finish(p) /\ UNCHANGED owner
      BY <2>1, FinishFacts DEF RequestsStaySound, At, RotatedTokens,
                               UserTransactionsNameUsers
    <2>2. CASE /\ req[p].op = "reset"
               /\ \E c \in Fresh :
                    /\ owner' = [owner EXCEPT ![c] = req[p].user]
                    /\ Begin(p, "login", "create", <<c, 0>>, req[p].user, {})
      <3>1. PICK c \in Fresh :
                    /\ owner' = [owner EXCEPT ![c] = req[p].user]
                    /\ Begin(p, "login", "create", <<c, 0>>, req[p].user, {})
        BY <2>2
      <3>2. /\ c \in Chain /\ owner[c] = NoUser /\ req[p].user # NoUser
            /\ <<c, 0>> \in Token /\ <<c, 0>>[1] = c /\ <<c, 0>>[2] = 0
            /\ owner'[c] = req[p].user
            /\ \A d \in Chain : d # c => owner'[d] = owner[d]
        BY <2>2, <3>1, SessionConstants
        DEF Fresh, Token, TypeOK, UserTransactionsNameUsers
      <3>3. /\ req'[p].pc = "create" /\ req'[p].op = "login"
            /\ req'[p].tok = <<c, 0>>
            /\ \A q \in Proc \ {p} : req'[q] = req[q]
        BY <3>1, BeginFacts
      <3> QED
        BY <3>2, <3>3 DEF RequestsStaySound, At, RotatedTokens,
                          UserTransactionsNameUsers
    <2> QED
      BY <2>1, <2>2 DEF CommitDelete
  <1>3. RowsOnlyGo
    BY <1>1, <1>2, OthersKeepTheirRows DEF RowsOnlyGo, At
  <1> QED
    BY <1>2, <1>3, RowsOnlyGoKeepsInv

\* Inserting the first session of a lineage keeps the invariant.
LEMMA CreateSessionKeepsOrder ==
  ASSUME OrderInv, TypeOK', NEW p \in Proc, CreateSession(p)
  PROVE  OrderInv'
  <1> DEFINE c == req[p].tok[1]
  <1> USE DEF OrderInv
  <1>1. /\ req[p].tok \in Token /\ c \in Chain /\ owner[c] # NoUser
        /\ \A t \in rows : t[1] # c
        /\ \A q \in Proc \ {p} : At(q, "create") => req[q].tok[1] # c
    BY TokenFacts DEF CreateSession, NewLineagesAreEmpty, At
  <1>2. /\ UNCHANGED <<clock, owner, rowLock>> /\ Finish(p)
        /\ expiresAt'[req[p].tok] # NoRow
        /\ \A t \in Token : t # req[p].tok => expiresAt'[t] = expiresAt[t]
    <2>1. req[p].now + TTL \in Nat
      BY RequestFacts, SessionConstants
    <2> QED
      BY <1>1, <2>1 DEF CreateSession, TypeOK, NoRow
  <1>3. \A t \in rows' : \/ t = req[p].tok /\ t[1] = c
                         \/ t \in rows /\ t[1] # c /\ expiresAt'[t] = expiresAt[t]
    BY <1>1, <1>2, RowsAre
  <1>4. \A t \in rows : t \in rows' /\ expiresAt'[t] = expiresAt[t]
    BY <1>1, <1>2, RowsAre
  <1>5. LineageInOrder'
    <2> SUFFICES ASSUME NEW t \in rows', NEW s \in rows',
                        t[1] = s[1], t[2] < s[2]
                 PROVE  /\ expiresAt'[t] <= clock' + Grace
                        /\ expiresAt'[t] <= expiresAt'[s]
                        /\ \/ expiresAt'[t] + TTL <= expiresAt'[s] + Grace
                           \/ expiresAt'[t] <= clock'
                        /\ s[2] >= t[2] + 2 => expiresAt'[t] <= clock'
      BY DEF LineageInOrder
    <2>1. t # s
      <3>1. t[2] \in Int
        BY TokenFacts, RowsAre
      <3> QED
        BY <3>1
    <2>2. t \in rows /\ s \in rows
      BY <1>3, <2>1
    <2> QED
      BY <1>2, <1>4, <2>2 DEF LineageInOrder
  <1>6. \A q \in Proc : At(q, "rotate")' =>
          q # p /\ At(q, "rotate") /\ req'[q] = req[q]
    BY <1>2, FinishFacts DEF At
  <1>7. RotationInOrder'
    <2> SUFFICES ASSUME NEW q \in Proc, At(q, "rotate"), req'[q] = req[q]
                 PROVE  LET t == req[q].tok IN
                        /\ t \in rows' /\ rowLock'[t] = q
                        /\ req[q].now < expiresAt'[t]
                        /\ expiresAt'[t] <= req[q].now + Window
                        /\ req[q].now <= clock' /\ clock' <= req[q].now + TxTime
                        /\ \A s \in rows' : s[1] = t[1] /\ s[2] < t[2]
                             => expiresAt'[s] <= req[q].now
                        /\ \A s \in rows' : s[1] = t[1] /\ s[2] > t[2] =>
                             /\ s[2] = t[2] + 1
                             /\ expiresAt'[s] > req[q].now + TxTime + Window
      BY <1>6 DEF RotationInOrder
    <2>1. req[q].tok \in rows /\ req[q].tok[1] # c
      BY <1>1 DEF RotationInOrder
    <2>2. \A s \in rows' : s[1] = req[q].tok[1] =>
            s \in rows /\ expiresAt'[s] = expiresAt[s]
      BY <1>3, <2>1
    <2> QED
      BY <1>2, <1>4, <2>1, <2>2 DEF RotationInOrder
  <1>8. NewLineagesAreEmpty'
    <2>1. \A q \in Proc : At(q, "create")' =>
            q # p /\ At(q, "create") /\ req'[q].tok = req[q].tok
      BY <1>2, FinishFacts DEF At
    <2>2. \A t \in rows' : t \in rows \/ t[1] = c
      BY <1>3
    <2>3. \A t \in rows' : owner'[t[1]] # NoUser
      BY <1>1, <1>2, <2>2 DEF NewLineagesAreEmpty
    <2>4. ASSUME NEW q \in Proc, At(q, "create")'
          PROVE  /\ req'[q].tok \in Token /\ req'[q].tok[2] = 0
                 /\ owner'[req'[q].tok[1]] # NoUser
                 /\ \A t \in rows' : t[1] # req'[q].tok[1]
                 /\ \A r \in Proc \ {q} :
                      At(r, "create")' => req'[r].tok[1] # req'[q].tok[1]
      BY <1>1, <1>2, <2>1, <2>2, <2>4 DEF NewLineagesAreEmpty
    <2> QED
      BY <2>3, <2>4 DEF NewLineagesAreEmpty
  <1>9. RotatedTokens' /\ UserTransactionsNameUsers'
    BY <1>2, FinishFacts DEF RotatedTokens, UserTransactionsNameUsers, At
  <1> QED
    BY <1>5, <1>7, <1>8, <1>9

\* The row that FOR UPDATE returns is in order with its lineage.
LEMMA LockForRotationKeepsOrder ==
  ASSUME OrderInv, TypeOK', NEW p \in Proc, LockForRotation(p)
  PROVE  OrderInv'
  <1> DEFINE t == req[p].tok
  <1> USE DEF OrderInv
  <1>1. /\ t \in Token /\ t[2] < MaxGen /\ t \in rows
        /\ rowLock[t] = NoProc /\ expiresAt[t] > clock
        /\ expiresAt[t] - clock <= Window
        /\ UNCHANGED <<clock, expiresAt, owner>>
        /\ rowLock'[t] = p
        /\ \A s \in Token : s # t => rowLock'[s] = rowLock[s]
    BY DEF LockForRotation, RotatedTokens, Live, At, TypeOK
  <1>2. /\ req'[p].pc = "rotate" /\ req'[p].tok = t /\ req'[p].now = clock
        /\ req'[p].op = req[p].op /\ req'[p].user = req[p].user
        /\ \A q \in Proc \ {p} : req'[q] = req[q]
    BY DEF LockForRotation, TypeOK, Request
  <1>3. rows' = rows
    BY <1>1 DEF rows
  <1>4. clock \in Nat /\ \A s \in rows : expiresAt[s] \in Nat /\ s[2] \in Int
    BY RowsAre, TokenFacts DEF TypeOK
  <1>5. \A s \in rows : s[1] = t[1] /\ s[2] < t[2] => expiresAt[s] <= clock
    BY <1>1, <1>4, SessionConstants, RotationsAreFarApart DEF LineageInOrder
  <1>6. \A s \in rows : s[1] = t[1] /\ s[2] > t[2] =>
          s[2] = t[2] + 1 /\ expiresAt[s] > clock + TxTime + Window
    <2> SUFFICES ASSUME NEW s \in rows, s[1] = t[1], s[2] > t[2]
                 PROVE  s[2] = t[2] + 1 /\ expiresAt[s] > clock + TxTime + Window
      OBVIOUS
    <2>1. /\ expiresAt[t] + TTL <= expiresAt[s] + Grace \/ expiresAt[t] <= clock
          /\ s[2] >= t[2] + 2 => expiresAt[t] <= clock
      BY <1>1, <1>4 DEF LineageInOrder
    <2> QED
      BY <1>1, <1>4, <2>1, SessionConstants, RotationsAreFarApart
  <1>7. RotationInOrder'
    <2>1. ASSUME NEW q \in Proc, At(q, "rotate")', q # p
          PROVE  /\ At(q, "rotate") /\ req'[q] = req[q]
                 /\ rowLock'[req[q].tok] = rowLock[req[q].tok]
      BY <1>1, <1>2, <2>1, OthersKeepTheirRows DEF At
    <2> QED
      BY <1>1, <1>2, <1>3, <1>4, <1>5, <1>6, <2>1, SessionConstants
      DEF RotationInOrder
  <1> QED
    <2>1. LineageInOrder'
      BY <1>1, <1>3 DEF LineageInOrder
    <2>2. NewLineagesAreEmpty'
      BY <1>1, <1>2, <1>3 DEF NewLineagesAreEmpty, At
    <2>3. RotatedTokens' /\ UserTransactionsNameUsers'
      BY <1>1, <1>2 DEF RotatedTokens, UserTransactionsNameUsers, At
    <2> QED
      BY <1>7, <2>1, <2>2, <2>3

\* Time passing keeps the invariant: no transaction outstays TxTime.
LEMMA TickKeepsOrder ==
  ASSUME OrderInv, TypeOK', Tick
  PROVE  OrderInv'
  <1> USE DEF OrderInv
  <1>1. /\ UNCHANGED <<expiresAt, owner, rowLock, req>>
        /\ clock' = clock + 1 /\ clock \in Nat
        /\ \A p \in Proc : At(p, "rotate") => clock < req[p].now + TxTime
    BY DEF Tick, TypeOK
  <1>2. rows' = rows /\ \A s \in rows : expiresAt[s] \in Nat
    BY <1>1, RowsAre DEF rows, TypeOK
  <1>3. LineageInOrder'
    BY <1>1, <1>2, SessionConstants DEF LineageInOrder
  <1>4. RotationInOrder'
    BY <1>1, <1>2, RequestFacts, SessionConstants DEF RotationInOrder, At
  <1>5. NewLineagesAreEmpty' /\ RotatedTokens' /\ UserTransactionsNameUsers'
    BY <1>1, <1>2
    DEF NewLineagesAreEmpty, RotatedTokens, UserTransactionsNameUsers, At
  <1> QED
    BY <1>3, <1>4, <1>5

\* A token below the last generation has one replacement, one generation on.
LEMMA ReplacementFacts ==
  ASSUME NEW t \in Token, t[2] < MaxGen
  PROVE  /\ Replacement(t) \in Token /\ Replacement(t)[1] = t[1]
         /\ Replacement(t)[2] = t[2] + 1 /\ Replacement(t) # t
         /\ \A s \in Token : s[1] = t[1] /\ s[2] = t[2] + 1 => s = Replacement(t)
         /\ \A s \in Token : s[1] = t[1] /\ s[2] = t[2] => s = t
  <1>1. \A s \in Token : s = <<s[1], s[2]>>
    BY TokenFacts
  <1>2. Replacement(t)[1] = t[1] /\ Replacement(t)[2] = t[2] + 1
    BY DEF Replacement
  <1>3. \A s \in Token : s[1] = t[1] /\ s[2] = t[2] + 1 => s = Replacement(t)
    BY <1>1 DEF Replacement
  <1>4. \A s \in Token : s[1] = t[1] /\ s[2] = t[2] => s = t
    BY <1>1
  <1>5. Replacement(t) \in Token /\ t[2] \in Int
    BY TokenFacts
  <1> QED
    BY <1>2, <1>3, <1>4, <1>5

\* The step that inserts a replacement and shortens the presented session.
LEMMA MintReplacementKeepsOrder ==
  ASSUME OrderInv, TypeOK', NEW p \in Proc, MintReplacement(p)
  PROVE  OrderInv'
  <1> DEFINE t == req[p].tok
             r == Replacement(t)
             n == req[p].now
  <1> USE DEF OrderInv
  <1>1. /\ t \in rows /\ t \in Token /\ t[2] < MaxGen /\ rowLock[t] = p
        /\ n < expiresAt[t] /\ expiresAt[t] <= n + Window
        /\ n <= clock /\ clock <= n + TxTime
        /\ n \in Nat /\ clock \in Nat /\ expiresAt[t] \in Nat /\ t[2] \in Int
    BY RequestFacts, RowsAre, TokenFacts
    DEF MintReplacement, RotationInOrder, RotatedTokens, TypeOK
  <1>2. /\ \A s \in rows : s[1] = t[1] /\ s[2] < t[2] => expiresAt[s] <= n
        /\ \A s \in rows : s[1] = t[1] /\ s[2] > t[2] =>
              s[2] = t[2] + 1 /\ expiresAt[s] > n + TxTime + Window
    BY DEF MintReplacement, RotationInOrder
  <1>3. /\ r \in Token /\ r[1] = t[1] /\ r[2] = t[2] + 1 /\ r # t
        /\ \A s \in Token : s[1] = t[1] /\ s[2] = t[2] + 1 => s = r
        /\ \A s \in Token : s[1] = t[1] /\ s[2] = t[2] => s = t
    BY <1>1, ReplacementFacts
  <1>4. r \in rows <=> HasActiveReplacement(p)
    <2>1. ASSUME r \in rows
          PROVE  expiresAt[r] > n
      <3>1. expiresAt[r] > n + TxTime + Window
        BY <1>1, <1>2, <1>3, <2>1
      <3>2. expiresAt[r] \in Nat
        BY <2>1, RowsAre DEF TypeOK
      <3> QED
        BY <1>1, <3>1, <3>2, SessionConstants
    <2> QED
      BY <2>1 DEF HasActiveReplacement
  <1>5. /\ expiresAt'[t] = n + Grace
        /\ r \notin rows => expiresAt'[r] = n + TTL
        /\ r \in rows => /\ expiresAt'[r] = expiresAt[r]
                         /\ expiresAt'[t] <= expiresAt[t]
        /\ \A s \in Token : s # t /\ s # r => expiresAt'[s] = expiresAt[s]
        /\ UNCHANGED <<clock, owner>> /\ Finish(p) /\ Unlock(p)
    BY <1>1, <1>3, <1>4, SessionConstants DEF MintReplacement, InGrace, TypeOK
  <1>6. /\ \A s : s \in rows' <=> s \in rows \/ s = r
        /\ \A s \in rows' : /\ s \in Token /\ s[2] \in Int
                           /\ expiresAt'[s] \in Nat
        /\ \A s \in rows : expiresAt[s] \in Nat
    BY <1>1, <1>3, <1>5, RowsAre, TokenFacts, SessionConstants DEF NoRow, TypeOK
  <1>7. LineageInOrder'
    <2> SUFFICES ASSUME NEW a \in rows', NEW b \in rows',
                        a[1] = b[1], a[2] < b[2]
                 PROVE  /\ expiresAt'[a] <= clock + Grace
                        /\ expiresAt'[a] <= expiresAt'[b]
                        /\ \/ expiresAt'[a] + TTL <= expiresAt'[b] + Grace
                           \/ expiresAt'[a] <= clock
                        /\ b[2] >= a[2] + 2 => expiresAt'[a] <= clock
      BY <1>5 DEF LineageInOrder
    <2>1. CASE b = t
      <3>1. a \in rows /\ a # t /\ a # r /\ expiresAt'[a] = expiresAt[a]
        BY <1>3, <1>5, <1>6, <2>1
      <3>2. expiresAt[a] <= n
        BY <1>2, <2>1, <3>1
      <3> QED
        BY <1>1, <1>5, <1>6, <2>1, <3>1, <3>2, SessionConstants
    <2>2. CASE b = r /\ r \notin rows
      <3>1. a \in rows /\ a # r
        BY <1>6, <2>2
      <3>2. CASE a = t
        BY <1>1, <1>3, <1>5, <1>6, <2>2, <3>2, SessionConstants,
           RotationsAreFarApart
      <3>3. CASE a # t
        <4>1. a[2] < t[2] /\ a[1] = t[1]
          BY <1>1, <1>3, <1>6, <2>2, <3>1, <3>3
        <4>2. expiresAt'[a] = expiresAt[a] /\ expiresAt[a] <= n
          BY <1>2, <1>5, <1>6, <3>1, <3>3, <4>1
        <4> QED
          BY <1>1, <1>5, <1>6, <2>2, <4>2, SessionConstants
      <3> QED
        BY <3>2, <3>3
    <2>3. CASE a = t /\ b # t /\ b \in rows
      <3>1. b = r
        BY <1>2, <1>3, <1>6, <2>3
      <3>2. expiresAt[t] <= expiresAt[r] /\
            (expiresAt[t] + TTL <= expiresAt[r] + Grace \/ expiresAt[t] <= clock)
        BY <1>1, <2>3, <3>1 DEF LineageInOrder
      <3> QED
        BY <1>1, <1>3, <1>5, <1>6, <2>3, <3>1, <3>2, SessionConstants
    <2>4. CASE a = r /\ r \notin rows
      <3>1. b \in rows /\ b[1] = t[1] /\ b[2] > t[2] + 1
        BY <1>3, <1>6, <2>4
      <3> QED
        BY <1>1, <1>2, <1>6, <3>1
    <2>5. CASE a \in rows /\ b \in rows /\ a # t /\ b # t
      <3>1. expiresAt'[a] = expiresAt[a] /\ expiresAt'[b] = expiresAt[b]
        BY <1>5, <1>6, <2>5
      <3> QED
        BY <2>5, <3>1 DEF LineageInOrder
    <2> QED
      BY <1>6, <2>1, <2>2, <2>3, <2>4, <2>5
  <1>8. \A q \in Proc : At(q, "rotate")' =>
          /\ q # p /\ At(q, "rotate") /\ req'[q] = req[q]
          /\ rowLock'[req[q].tok] = q
    BY <1>5, FinishFacts, OthersKeepTheirRows DEF At
  <1>9. RotationInOrder'
    <2> SUFFICES ASSUME NEW q \in Proc, q # p, At(q, "rotate"),
                        req'[q] = req[q], rowLock'[req[q].tok] = q
                 PROVE  LET u == req[q].tok IN
                        /\ u \in rows'
                        /\ req[q].now < expiresAt'[u]
                        /\ expiresAt'[u] <= req[q].now + Window
                        /\ req[q].now <= clock /\ clock <= req[q].now + TxTime
                        /\ \A s \in rows' : s[1] = u[1] /\ s[2] < u[2]
                             => expiresAt'[s] <= req[q].now
                        /\ \A s \in rows' : s[1] = u[1] /\ s[2] > u[2] =>
                             /\ s[2] = u[2] + 1
                             /\ expiresAt'[s] > req[q].now + TxTime + Window
      BY <1>5, <1>8 DEF RotationInOrder
    <2> DEFINE u == req[q].tok
               m == req[q].now
    <2>1. /\ u \in rows /\ u \in Token /\ rowLock[u] = q
          /\ m < expiresAt[u] /\ expiresAt[u] <= m + Window
          /\ m <= clock /\ clock <= m + TxTime /\ m \in Nat
          /\ \A s \in rows : s[1] = u[1] /\ s[2] < u[2] => expiresAt[s] <= m
          /\ \A s \in rows : s[1] = u[1] /\ s[2] > u[2] =>
                s[2] = u[2] + 1 /\ expiresAt[s] > m + TxTime + Window
      BY RequestFacts, RowsAre DEF RotationInOrder
    <2>2. u # t
      BY <1>1, <2>1
    <2>3. expiresAt'[u] = expiresAt[u] /\ u \in rows'
      BY <1>5, <1>6, <2>1, <2>2
    \* A transaction cannot rotate t while another rotates its parent: the
    \* row of t would still be young for the other one.
    <2>4. ~(t[1] = u[1] /\ t[2] > u[2])
      BY <1>1, <2>1, SessionConstants
    <2>5. \A s \in rows' : s[1] = u[1] /\ s[2] < u[2] => expiresAt'[s] <= m
      <3> SUFFICES ASSUME NEW s \in rows', s[1] = u[1], s[2] < u[2]
                   PROVE  expiresAt'[s] <= m
        OBVIOUS
      <3>1. CASE s = t
        <4>1. u[2] = t[2] + 1
          BY <1>2, <1>6, <2>1, <3>1
        <4>2. u = r
          BY <1>3, <2>1, <3>1, <4>1
        <4>3. expiresAt[t] <= m
          BY <1>1, <2>1, <3>1
        <4> QED
          BY <1>5, <1>6, <2>1, <3>1, <4>2, <4>3
      <3>2. CASE s = r /\ r \notin rows
        <4>1. u[2] > t[2] + 1 /\ u[1] = t[1]
          BY <1>3, <3>2
        <4> QED
          BY <1>1, <1>2, <1>3, <1>6, <2>1, <4>1
      <3>3. CASE s \in rows /\ s # t
        BY <1>5, <1>6, <2>1, <3>3
      <3> QED
        BY <1>6, <3>1, <3>2, <3>3
    <2>6. ASSUME NEW s \in rows', s[1] = u[1], s[2] > u[2]
          PROVE  s[2] = u[2] + 1 /\ expiresAt'[s] > m + TxTime + Window
      <3>1. s # t
        BY <2>4, <2>6
      <3>2. ~(s = r /\ r \notin rows)
        <4> SUFFICES ASSUME s = r, r \notin rows
                     PROVE  FALSE
          OBVIOUS
        <4>1. u[1] = t[1] /\ u[2] <= t[2]
          BY <1>3, <1>6, <2>3, <2>6, TokenFacts, <1>1, <2>1
        <4>2. u[2] < t[2]
          BY <1>1, <1>3, <2>1, <2>2, <4>1, TokenFacts
        <4> QED
          BY <2>4, <4>1, <4>2
      <3> QED
        BY <1>5, <1>6, <2>1, <2>6, <3>1, <3>2
    <2> QED
      BY <2>1, <2>3, <2>5, <2>6
  <1>10. NewLineagesAreEmpty'
    <2>1. \A q \in Proc : At(q, "create")' =>
            q # p /\ At(q, "create") /\ req'[q].tok = req[q].tok
      BY <1>5, FinishFacts DEF At
    <2>2. \A s \in rows' : \E z \in rows : z[1] = s[1]
      BY <1>1, <1>3, <1>6
    <2> QED
      BY <1>5, <2>1, <2>2 DEF NewLineagesAreEmpty
  <1>11. RotatedTokens' /\ UserTransactionsNameUsers'
    BY <1>5, FinishFacts DEF RotatedTokens, UserTransactionsNameUsers, At
  <1> QED
    BY <1>7, <1>9, <1>10, <1>11

-----------------------------------------------------------------------------
\* The empty table satisfies the inductive invariant.
THEOREM InitOrderInv == Init => OrderInv
  <1> SUFFICES ASSUME Init PROVE OrderInv
    OBVIOUS
  <1>1. rows = {}
    BY RowsAre DEF Init
  <1>2. \A p \in Proc : req[p].pc = "idle" /\ req[p].op = "none"
    BY DEF Init, Idle
  <1> QED
    BY <1>1, <1>2, InitTypeOK
    DEF OrderInv, NewLineagesAreEmpty, RotatedTokens, LineageInOrder,
        UserTransactionsNameUsers, RotationInOrder, At

\* Every step keeps the inductive invariant of rotation
\* (users.service.ts:433-526).
THEOREM NextOrderInv == OrderInv /\ [Next]_vars => OrderInv'
  <1> SUFFICES ASSUME OrderInv, [Next]_vars PROVE OrderInv'
    OBVIOUS
  <1>1. TypeOK'
    BY NextTypeOK DEF OrderInv
  <1>2. CASE Tick
    BY <1>1, <1>2, TickKeepsOrder
  <1>3. ASSUME NEW p \in Proc, Start(p)
        PROVE  OrderInv'
    BY <1>1, <1>3, StartKeepsOrder
  <1>4. ASSUME NEW p \in Proc, Continue(p)
        PROVE  OrderInv'
    BY <1>1, <1>4, CreateSessionKeepsOrder, LockForRotationKeepsOrder,
       MintReplacementKeepsOrder, QuietStepKeepsOrder, CommitDeleteKeepsOrder
    DEF Continue
  <1>5. CASE UNCHANGED vars
    BY <1>5 DEF vars, OrderInv, TypeOK, NewLineagesAreEmpty, RotatedTokens,
       UserTransactionsNameUsers, LineageInOrder, RotationInOrder, At, rows
  <1> QED
    BY <1>2, <1>3, <1>4, <1>5 DEF Next

\* Of two generations of a lineage the older is in its grace period, expires
\* first and is dead once replaced twice; a rotation in progress found its
\* ancestors dead (users.service.ts:464-526).
THEOREM LineagesStayInOrder == Spec => [](LineageInOrder /\ RotationInOrder)
  <1>1. OrderInv => LineageInOrder /\ RotationInOrder
    BY DEF OrderInv
  <1> QED
    BY <1>1, InitOrderInv, NextOrderInv, PTL DEF Spec

\* A replaced session is only kept for the grace period, and never outlives
\* its replacement (users.service.ts:518-525).
THEOREM ReplacedSessionsAreShortLived == Spec => []ReplacedSessionIsShortLived
  <1>1. OrderInv => ReplacedSessionIsShortLived
    <2> SUFFICES ASSUME OrderInv, NEW t \in rows, Replacement(t) \in rows
                 PROVE  /\ expiresAt[t] <= clock + Grace
                        /\ expiresAt[t] <= expiresAt[Replacement(t)]
      BY DEF ReplacedSessionIsShortLived
    <2>1. Replacement(t)[1] = t[1] /\ t[2] < Replacement(t)[2]
      BY RowsAre, TokenFacts DEF Replacement
    <2> QED
      BY <2>1 DEF OrderInv, LineageInOrder
  <1> QED
    BY <1>1, InitOrderInv, NextOrderInv, PTL DEF Spec

\* A lineage never has three usable generations (users.service.ts:427-431).
THEOREM TwoLiveGenerations == Spec => []AtMostTwoLiveGenerations
  <1>1. OrderInv => AtMostTwoLiveGenerations
    <2> SUFFICES ASSUME OrderInv, NEW t \in rows, Live(t), Live(Replacement(t))
                 PROVE  /\ ~Live(Parent(t))
                        /\ ~Live(Replacement(Replacement(t)))
      BY DEF AtMostTwoLiveGenerations
    <2>1. \A a, b \in rows : a[1] = b[1] /\ b[2] = a[2] + 2 /\ a[2] \in Int
                             => ~Live(a)
      <3> SUFFICES ASSUME NEW a \in rows, NEW b \in rows, a[1] = b[1],
                          b[2] = a[2] + 2, a[2] \in Int
                   PROVE  ~Live(a)
        OBVIOUS
      <3>1. expiresAt[a] <= clock
        BY DEF OrderInv, LineageInOrder
      <3>2. expiresAt[a] \in Nat /\ clock \in Nat
        BY RowsAre DEF OrderInv, TypeOK
      <3> QED
        BY <3>1, <3>2 DEF Live
    <2>2. t[2] \in Int
      BY RowsAre, TokenFacts
    <2>3. /\ Replacement(t) \in rows
          /\ Replacement(t)[1] = t[1] /\ Replacement(t)[2] = t[2] + 1
          /\ Parent(t)[1] = t[1] /\ Parent(t)[2] = t[2] - 1
          /\ Replacement(Replacement(t))[1] = t[1]
          /\ Replacement(Replacement(t))[2] = t[2] + 2
      BY <2>2 DEF Live, Replacement, Parent
    <2>4. ~Live(Parent(t))
      BY <2>1, <2>2, <2>3 DEF Live
    <2>5. ~Live(Replacement(Replacement(t)))
      BY <2>1, <2>2, <2>3 DEF Live
    <2> QED
      BY <2>4, <2>5
  <1> QED
    BY <1>1, InitOrderInv, NextOrderInv, PTL DEF Spec

\* The token that a rotation replaced dies soon, before its replacement, and its
\* predecessor is dead by then (users.service.ts:427-431, 502-561).
THEOREM ReplacedTokensDie == Spec => []OldTokensDie
  BY ReplacedSessionsAreShortLived, TwoLiveGenerations, PTL DEF OldTokensDie

\* The INSERT of a replacement never violates the unique token_hash: the row
\* it would collide with is still active (users.service.ts:506-516).
THEOREM InsertsNeverConflict == Spec => []InsertNeverConflicts
  <1>1. OrderInv => InsertNeverConflicts
    <2> SUFFICES ASSUME OrderInv, NEW p \in Proc, At(p, "rotate"),
                        Replacement(req[p].tok) \in rows
                 PROVE  expiresAt[Replacement(req[p].tok)] > req[p].now
      BY DEF InsertNeverConflicts, HasActiveReplacement
    <2>1. req[p].tok \in rows /\ req[p].now < expiresAt[req[p].tok]
      BY DEF OrderInv, RotationInOrder
    <2>2. expiresAt[req[p].tok] <= expiresAt[Replacement(req[p].tok)]
      <3>1. /\ Replacement(req[p].tok)[1] = req[p].tok[1]
            /\ req[p].tok[2] < Replacement(req[p].tok)[2]
        BY <2>1, RowsAre, TokenFacts DEF Replacement
      <3> QED
        BY <2>1, <3>1 DEF OrderInv, LineageInOrder
    <2>3. /\ req[p].now \in Nat /\ expiresAt[req[p].tok] \in Nat
          /\ expiresAt[Replacement(req[p].tok)] \in Nat
      BY <2>1, RowsAre, RequestFacts DEF OrderInv, TypeOK
    <2> QED
      BY <2>1, <2>2, <2>3
  <1> QED
    BY <1>1, InitOrderInv, NextOrderInv, PTL DEF Spec

-----------------------------------------------------------------------------
(***************************************************************************)
(* Lineages that were ended, rows that were deleted, and the order of the  *)
(* locks.  A lineage is settled below a generation when no session of an   *)
(* earlier one is usable or can become so: none is being made, none is     *)
(* being rotated.  Whatever a request deletes leaves its lineage settled   *)
(* below the deleted row, so that the row never comes back; a logout and a *)
(* role change settle the lineages they end altogether.                    *)
(***************************************************************************)
SettledBelow(c, g) ==
  /\ owner[c] # NoUser
  /\ \A p \in Proc : At(p, "create") => req[p].tok[1] # c
  /\ \A s \in rows : s[1] = c /\ s[2] < g => ~Live(s)
  /\ \A p \in Proc : At(p, "rotate") => ~(req[p].tok[1] = c /\ req[p].tok[2] < g)

Settled(t) == SettledBelow(t[1], t[2])

\* Which steps an operation has, and for whom it runs.
InStep(p) ==
  /\ \/ req[p].op = "none" /\ At(p, "idle")
     \/ req[p].op = "login" /\ At(p, "create")
     \/ req[p].op = "resolve" /\ req[p].pc \in {"purge", "rotateLock", "rotate"}
     \/ req[p].op = "logout" /\ req[p].pc \in {"logout", "lock", "delete"}
     \/ req[p].op = "revoke" /\ At(p, "delete")
     \/ req[p].op \in {"reset", "role"} /\ req[p].pc \in {"userLock", "held", "delete"}
  /\ At(p, "create") => owner[req[p].tok[1]] = req[p].user
  /\ req[p].pc \in {"rotateLock", "rotate"} => RotationSecret
  /\ req[p].op \in {"revoke", "reset", "role"} => req[p].user \in User
  /\ \A t \in Held(p) : t \in rows /\ req[p].pc \in {"rotate", "lock", "delete"}
  /\ req[p].pc \notin {"lock", "delete"} => req[p].todo = {}
  /\ \A u \in User : userLock[u] = p => req[p].op \in {"reset", "role"}

\* A row that a request has seen is there, or will not be there again; a row
\* that was found expired is replaced if it is usable after all.
Remembers(p) ==
  /\ \A t \in req[p].todo : t \in rows \/ Settled(t)
  /\ At(p, "purge") =>
       /\ req[p].tok \in Token /\ Settled(req[p].tok)
       /\ Live(req[p].tok) => Replacement(req[p].tok) \in rows
  /\ req[p].op = "logout" =>
       req[p].tok \in Token /\ (req[p].tok \in rows \/ Settled(req[p].tok))

\* What a request has locked and is about to lock.
Hand(p) == req[p].todo \cup Held(p)

\* Who takes a row takes the earlier rows of its lineage with it, as far as a
\* logout reaches.
NoGaps(p) ==
  req[p].pc \in {"lock", "delete"} =>
    \A t \in Hand(p) \cap rows : \A s \in rows :
      /\ s[1] = t[1] /\ s[2] < t[2]
      /\ req[p].op = "logout" => s \in Lineage(req[p].tok)
      => s \in Hand(p)

\* A logout works on its lineage in order, and misses no row of it.
LogoutInHand(p) ==
  LET t == req[p].tok IN
  req[p].op = "logout" =>
    /\ Hand(p) \subseteq Lineage(t)
    /\ \A a \in req[p].todo, b \in Held(p) : b[2] < a[2]
    /\ At(p, "lock") => \A s \in Lineage(t) \cap rows : s[2] <= t[2] => s \in Hand(p)
    /\ At(p, "delete") => \A a \in req[p].todo : t[2] < a[2]
    /\ At(p, "delete") /\ t \in rows => t \in Held(p) /\ Lineage(t) \cap rows \subseteq Hand(p)

\* Who drops a user's sessions takes no row of another user, and under the
\* user's lock misses none.
UserInHand(p) ==
  /\ req[p].op \in {"revoke", "reset", "role"} =>
       \A t \in Hand(p) : owner[t[1]] = req[p].user
  /\ req[p].op \in {"reset", "role"} =>
       /\ req[p].pc \in {"held", "delete"} => userLock[req[p].user] = p
       /\ At(p, "delete") => RowsOf(req[p].user) \subseteq Hand(p)

RequestInv(p) ==
  InStep(p) /\ Remembers(p) /\ NoGaps(p) /\ LogoutInHand(p) /\ UserInHand(p)

\* Without a secret nothing is rotated.
FirstGenerations == ~RotationSecret => \A t \in rows : t[2] = 0

EndedAreSettled == \A c \in ended : SettledBelow(c, MaxGen + 1)

LogoutInv ==
  /\ OrderInv /\ FirstGenerations /\ EndedAreSettled
  /\ \A p \in Proc : RequestInv(p)

(***************************************************************************)
(* What a step of request p may do to the others, and to the rows.         *)
(***************************************************************************)
Untouched(q) ==
  /\ req'[q] = req[q]
  /\ \A t \in Token : rowLock'[t] = q <=> rowLock[t] = q
  /\ \A t \in rows : rowLock[t] = q => t \in rows'
  /\ \A u \in User : userLock'[u] = q <=> userLock[u] = q

RowMoves(p, t) ==
  \/ t \in rows /\ expiresAt'[t] = expiresAt[t]
  \/ t \in rows /\ At(p, "rotate") /\ req[p].tok = t /\ Replacement(t) \in rows'
  \/ t \notin rows /\ At(p, "create") /\ req[p].tok = t /\ userLock[req[p].user] = NoProc
  \/ t \notin rows /\ At(p, "rotate") /\ Replacement(req[p].tok) = t
       /\ userLock[owner[t[1]]] = NoProc

StepOf(p) ==
  /\ clock <= clock'
  /\ \A q \in Proc \ {p} : Untouched(q)
  /\ \A c \in Chain : owner[c] # NoUser => owner'[c] = owner[c]
  /\ At(p, "create")' => \/ At(p, "create") /\ req'[p].tok = req[p].tok
                         \/ owner[req'[p].tok[1]] = NoUser
  /\ At(p, "rotate")' => \/ At(p, "rotate") /\ req'[p].tok = req[p].tok
                         \/ Live(req'[p].tok)
  /\ \A t \in rows' : RowMoves(p, t)

\* The deleted rows do not come back.
DeletedAreSettled == \A t \in rows \ rows' : Settled(t)'

\* Settled below a generation is settled below the earlier ones.
LEMMA SettledIsMonotone ==
  ASSUME OrderInv, NEW c \in Chain, NEW g \in Int, SettledBelow(c, g),
         NEW h \in Int, h <= g
  PROVE  SettledBelow(c, h)
  <1>1. \A s \in rows : s[2] \in Int
    BY RowsAre, TokenFacts
  <1>2. \A p \in Proc : At(p, "rotate") => req[p].tok[2] \in Int
    BY TokenFacts DEF OrderInv, RotatedTokens
  <1> QED
    BY <1>1, <1>2 DEF SettledBelow

\* What is settled stays so.
LEMMA SettledStays ==
  ASSUME OrderInv, OrderInv', NEW p \in Proc, StepOf(p),
         NEW c \in Chain, NEW g \in Int, SettledBelow(c, g)
  PROVE  SettledBelow(c, g)'
  <1>1. owner'[c] # NoUser
    BY DEF SettledBelow, StepOf
  <1>2. \A q \in Proc : At(q, "create")' => req'[q].tok[1] # c
    BY DEF SettledBelow, StepOf, Untouched, At
  <1>3. ASSUME NEW s \in rows', s[1] = c, s[2] < g
        PROVE  ~Live(s)'
    <2>1. s \in Token /\ s[2] \in Int /\ expiresAt[s] \in Int /\ expiresAt'[s] \in Int
          /\ clock \in Nat /\ clock' \in Nat /\ clock <= clock'
      BY RowsAre, TokenFacts DEF OrderInv, TypeOK, StepOf, NoRow
    <2>2. RowMoves(p, s)
      BY DEF StepOf
    <2>3. ~(At(p, "rotate") /\ req[p].tok[1] = c /\ req[p].tok[2] < g)
          /\ ~(At(p, "create") /\ req[p].tok[1] = c)
      BY DEF SettledBelow
    <2>4. ~(At(p, "rotate") /\ Replacement(req[p].tok) = s)
      <3>1. SUFFICES ASSUME At(p, "rotate"), Replacement(req[p].tok) = s
                     PROVE  FALSE
        OBVIOUS
      <3>2. req[p].tok \in Token /\ req[p].tok[2] < MaxGen
        BY <3>1 DEF OrderInv, RotatedTokens
      <3>3. req[p].tok[1] = s[1] /\ req[p].tok[2] = s[2] - 1
        BY <2>1, <3>1, <3>2, ReplacementFacts, TokenFacts
      <3> QED
        BY <1>3, <2>1, <2>3, <3>1, <3>3
    <2>5. s \in rows /\ expiresAt'[s] = expiresAt[s]
      BY <1>3, <2>2, <2>3, <2>4 DEF RowMoves
    <2>6. ~Live(s)
      BY <1>3, <2>5 DEF SettledBelow
    <2> QED
      BY <2>1, <2>5, <2>6 DEF Live
  <1>4. ASSUME NEW q \in Proc, At(q, "rotate")', req'[q].tok[1] = c, req'[q].tok[2] < g
        PROVE  FALSE
    <2>1. CASE At(q, "rotate") /\ req'[q].tok = req[q].tok
      BY <1>4, <2>1 DEF SettledBelow
    <2>2. CASE Live(req'[q].tok)
      BY <1>4, <2>2 DEF SettledBelow, Live
    <2> QED
      BY <1>4, <2>1, <2>2 DEF StepOf, Untouched, At
  <1> QED
    BY <1>1, <1>2, <1>3, <1>4 DEF SettledBelow

\* A row that is inserted is the last of its lineage, and was not settled.
LEMMA NewRowsAreLast ==
  ASSUME OrderInv, NEW p \in Proc, StepOf(p), NEW t \in rows', t \notin rows
  PROVE  /\ ~Settled(t)
         /\ \A s \in rows : s[1] = t[1] => s[2] < t[2]
         /\ \/ At(p, "create") /\ req[p].tok = t /\ \A s \in rows : s[1] # t[1]
            \/ At(p, "rotate") /\ Replacement(req[p].tok) = t
  <1>1. t \in Token /\ t[2] \in Int /\ RowMoves(p, t)
    BY RowsAre, TokenFacts DEF StepOf
  <1>2. CASE At(p, "create") /\ req[p].tok = t
    BY <1>2 DEF OrderInv, NewLineagesAreEmpty, Settled, SettledBelow
  <1>3. CASE At(p, "rotate") /\ Replacement(req[p].tok) = t
    <2> DEFINE x == req[p].tok
    <2>1. x \in Token /\ x[2] < MaxGen
      BY <1>3 DEF OrderInv, RotatedTokens
    <2>2. x[1] = t[1] /\ x[2] = t[2] - 1
      BY <1>1, <1>3, <2>1, ReplacementFacts, TokenFacts
    <2>3. ~Settled(t)
      BY <1>1, <1>3, <2>2 DEF Settled, SettledBelow
    <2>4. ASSUME NEW s \in rows, s[1] = t[1]
          PROVE  s[2] < t[2]
      <3>1. s \in Token /\ s[2] \in Int
        BY RowsAre, TokenFacts
      <3>2. s[2] > x[2] => s[2] = x[2] + 1
        BY <1>3, <2>2, <2>4 DEF OrderInv, RotationInOrder
      <3>3. s[2] # t[2]
        BY <1>1, <2>4, <3>1, TokenFacts
      <3> QED
        BY <1>1, <2>2, <3>1, <3>2, <3>3
    <2> QED
      BY <1>3, <2>3, <2>4
  <1> QED
    BY <1>1, <1>2, <1>3 DEF RowMoves

\* A row that has expired is the end of all before it.
LEMMA ExpiredIsSettled ==
  ASSUME OrderInv, NEW t \in rows, expiresAt[t] <= clock
  PROVE  Settled(t)
  <1>1. t \in Token /\ t[2] \in Int /\ expiresAt[t] \in Nat /\ clock \in Nat
    BY RowsAre, TokenFacts DEF OrderInv, TypeOK
  <1>2. owner[t[1]] # NoUser /\ \A p \in Proc : At(p, "create") => req[p].tok[1] # t[1]
    BY DEF OrderInv, NewLineagesAreEmpty
  <1>3. \A s \in rows : s[1] = t[1] /\ s[2] < t[2] => ~Live(s)
    <2>1. ASSUME NEW s \in rows, s[1] = t[1], s[2] < t[2]
          PROVE  ~Live(s)
      <3>1. expiresAt[s] <= expiresAt[t] /\ expiresAt[s] \in Nat
        BY <2>1, RowsAre DEF OrderInv, LineageInOrder, TypeOK
      <3> QED
        BY <1>1, <3>1 DEF Live
    <2> QED
      BY <2>1
  <1>4. ASSUME NEW p \in Proc, At(p, "rotate"), req[p].tok[1] = t[1], req[p].tok[2] < t[2]
        PROVE  FALSE
    <2>1. expiresAt[t] > req[p].now + TxTime + Window /\ clock <= req[p].now + TxTime
          /\ req[p].now \in Nat
      BY <1>4, RequestFacts DEF OrderInv, RotationInOrder
    <2> QED
      BY <1>1, <2>1, SessionConstants
  <1> QED
    BY <1>2, <1>3, <1>4 DEF Settled, SettledBelow

\* What a request has seen stays seen while others step.
LEMMA SeenStays ==
  ASSUME OrderInv, OrderInv', NEW p \in Proc, StepOf(p), DeletedAreSettled,
         NEW t \in Token, t \in rows \/ Settled(t)
  PROVE  /\ t \in rows' \/ Settled(t)'
         /\ t \in rows' => t \in rows
  <1>1. t[1] \in Chain /\ t[2] \in Int
    BY TokenFacts
  <1>2. Settled(t) => Settled(t)'
    BY <1>1, SettledStays DEF Settled
  <1>3. t \in rows' => t \in rows
    BY NewRowsAreLast
  <1> QED
    BY <1>2, <1>3 DEF DeletedAreSettled

LEMMA OthersStay ==
  ASSUME LogoutInv, OrderInv, OrderInv', NEW p \in Proc, StepOf(p), DeletedAreSettled,
         NEW q \in Proc, Untouched(q)
  PROVE  RequestInv(q)'
  <1>0. PICK tok : tok = req[q].tok
    OBVIOUS
  <1>1. /\ OrderInv /\ RequestInv(q) /\ req'[q] = req[q] /\ Held(q)' = Held(q)
        /\ Hand(q)' = Hand(q) /\ q # NoProc /\ req[q].tok = tok /\ req'[q].tok = tok
    BY <1>0, SessionConstants DEF LogoutInv, Untouched, Held, Hand
  <1>2. /\ \A t \in req[q].todo : t \in Token /\ (t \in rows \/ Settled(t))
        /\ \A t \in Held(q) : t \in rows
        /\ Hand(q) \subseteq Token
    BY <1>1, RequestFacts DEF RequestInv, Remembers, InStep, OrderInv, Hand, Held
  <1>3. \A t \in Held(q) : t \in rows'
    BY <1>2 DEF Untouched, Held
  <1>4. \A t \in rows' : t \in Hand(q) => t \in rows
    BY <1>2, SeenStays DEF Hand
  <1>5. InStep(q)'
    <2>1. At(q, "create") => owner'[tok[1]] = owner[tok[1]]
      BY <1>1, TokenFacts DEF OrderInv, NewLineagesAreEmpty, StepOf
    <2>2. \A u \in User : userLock'[u] = q <=> userLock[u] = q
      BY DEF Untouched
    <2> QED
      BY <1>1, <1>3, <2>1, <2>2 DEF RequestInv, InStep, At
  <1>6. Remembers(q)'
    <2>1. \A t \in req[q].todo : t \in rows' \/ Settled(t)'
      BY <1>2, SeenStays
    <2>2. req[q].op = "logout" => tok \in Token /\ (tok \in rows' \/ Settled(tok)')
      BY <1>1, SeenStays DEF RequestInv, Remembers
    <2>3. ASSUME At(q, "purge")
          PROVE  /\ tok \in Token /\ Settled(tok)'
                 /\ Live(tok)' => Replacement(tok) \in rows'
      <3>1. /\ tok \in Token /\ Settled(tok)
            /\ Live(tok) => Replacement(tok) \in rows
        BY <1>1, <2>3 DEF RequestInv, Remembers
      <3>2. Settled(tok)'
        BY <3>1, TokenFacts, SettledStays DEF Settled
      <3>3. ASSUME Live(tok)'
            PROVE  Replacement(tok) \in rows'
        <4>1. tok \in rows' /\ tok \in rows /\ RowMoves(p, tok)
          BY <3>1, <3>3, NewRowsAreLast DEF Live, StepOf
        <4>2. CASE expiresAt'[tok] = expiresAt[tok]
          <5>1. Live(tok)
            <6>1. expiresAt[tok] \in Nat /\ clock \in Nat /\ clock' \in Nat /\ clock <= clock'
              BY <4>1, RowsAre DEF OrderInv, TypeOK, StepOf
            <6> QED
              BY <3>3, <4>1, <4>2, <6>1 DEF Live
          <5>2. SUFFICES ASSUME Replacement(tok) \notin rows'
                         PROVE  FALSE
            OBVIOUS
          <5>3. Settled(Replacement(tok))'
            BY <3>1, <5>1, <5>2 DEF DeletedAreSettled
          <5>4. Replacement(tok)[1] = tok[1] /\ tok[2] < Replacement(tok)[2]
            BY <3>1, TokenFacts DEF Replacement
          <5> QED
            BY <3>3, <4>1, <5>3, <5>4 DEF Settled, SettledBelow
        <4> QED
          BY <4>1, <4>2 DEF RowMoves
      <3> QED
        BY <3>1, <3>2, <3>3
    <2> QED
      BY <1>1, <2>1, <2>2, <2>3 DEF Remembers, At
  <1>7. NoGaps(q)'
    <2>1. SUFFICES ASSUME req[q].pc \in {"lock", "delete"},
                          NEW t \in rows', t \in Hand(q), NEW s \in rows',
                          s[1] = t[1], s[2] < t[2],
                          req[q].op = "logout" => s \in Lineage(tok)
                   PROVE  s \in Hand(q)
      BY <1>1 DEF NoGaps, Lineage
    <2>2. t \in rows /\ s \in Token /\ t \in Token
      BY <1>4, <2>1, RowsAre
    <2>3. s \in rows
      <3>1. SUFFICES ASSUME s \notin rows
                     PROVE  FALSE
        OBVIOUS
      <3>2. t[2] < s[2]
        BY <2>1, <2>2, <3>1, NewRowsAreLast
      <3> QED
        BY <2>1, <2>2, <3>2, TokenFacts
    <2> QED
      BY <1>1, <2>1, <2>2, <2>3 DEF RequestInv, NoGaps
  <1>8. LogoutInHand(q)'
    <2>1. SUFFICES ASSUME req[q].op = "logout"
                   PROVE  LogoutInHand(q)'
      BY <1>1 DEF LogoutInHand
    <2>2. tok \in rows' => tok \in rows
      BY <1>1, <2>1, SeenStays DEF RequestInv, Remembers
    <2>3. ASSUME At(q, "delete"), tok \in rows', NEW s \in rows', s \in Lineage(tok)
          PROVE  s \in Hand(q)
      <3>1. /\ tok \in rows /\ tok \in Held(q) /\ Lineage(tok) \cap rows \subseteq Hand(q)
            /\ tok \in Token /\ s \in Token
        BY <1>1, <2>1, <2>2, <2>3, RowsAre DEF RequestInv, LogoutInHand
      <3>2. s \in rows
        <4>1. SUFFICES ASSUME s \notin rows
                       PROVE  FALSE
          OBVIOUS
        <4>2. s[1] = tok[1] /\ s[2] \in {tok[2] - 1, tok[2], tok[2] + 1} /\ tok[2] < s[2]
          BY <2>3, <3>1, <4>1, NewRowsAreLast DEF Lineage
        <4>3. At(p, "rotate") /\ Replacement(req[p].tok) = s
          BY <3>1, <4>1, <4>2, NewRowsAreLast
        <4>4. req[p].tok \in Token /\ req[p].tok[2] < MaxGen /\ rowLock[req[p].tok] = p
          BY <4>3 DEF OrderInv, RotatedTokens, RotationInOrder
        <4>5. req[p].tok = tok
          BY <3>1, <4>2, <4>3, <4>4, ReplacementFacts, TokenFacts
        <4>6. p = q
          BY <3>1, <4>4, <4>5 DEF Held
        <4> QED
          BY <2>3, <4>3, <4>6 DEF At
      <3> QED
        BY <2>3, <3>1, <3>2
    <2>4. ASSUME At(q, "lock"), NEW s \in rows', s \in Lineage(tok), s[2] <= tok[2]
          PROVE  s \in Hand(q)
      <3>1. s \in Token /\ tok \in Token /\ s[1] = tok[1]
            /\ (tok \in rows \/ Settled(tok))
        BY <1>1, <2>1, <2>4, RowsAre DEF RequestInv, Remembers, Lineage
      <3>2. s \in rows
        <4>1. SUFFICES ASSUME s \notin rows
                       PROVE  FALSE
          OBVIOUS
        <4>2. ~Settled(s) /\ \A x \in rows : x[1] = s[1] => x[2] < s[2]
          BY <4>1, NewRowsAreLast
        <4>3. tok \notin rows
          BY <2>4, <3>1, <4>2, TokenFacts
        <4> QED
          BY <2>4, <3>1, <4>2, <4>3, SettledIsMonotone, TokenFacts DEF Settled
      <3> QED
        BY <1>1, <2>1, <2>4, <3>2 DEF RequestInv, LogoutInHand
    <2>5. /\ Hand(q) \subseteq Lineage(tok)
          /\ \A a \in req[q].todo, b \in Held(q) : b[2] < a[2]
          /\ At(q, "delete") => \A a \in req[q].todo : tok[2] < a[2]
          /\ At(q, "delete") /\ tok \in rows => tok \in Held(q)
      BY <1>1, <2>1 DEF RequestInv, LogoutInHand
    <2> QED
      BY <1>1, <2>2, <2>3, <2>4, <2>5 DEF LogoutInHand, Lineage, At
  <1>9. UserInHand(q)'
    <2> DEFINE u == req[q].user
    <2>0. ASSUME req[q].op \in {"revoke", "reset", "role"}, NEW t \in Hand(q)
          PROVE  owner'[t[1]] = req[q].user
      <3>1. owner[t[1]] = req[q].user /\ req[q].user \in User
        BY <1>1, <2>0 DEF RequestInv, InStep, UserInHand
      <3>2. owner[t[1]] # NoUser /\ t[1] \in Chain
        BY <1>2, <2>0, <3>1, TokenFacts, SessionConstants
      <3> QED
        BY <3>1, <3>2 DEF StepOf
    <2>1. SUFFICES ASSUME req[q].op \in {"reset", "role"}
                   PROVE  UserInHand(q)'
      BY <1>1, <2>0 DEF UserInHand
    <2>2. u \in User /\ (req[q].pc \in {"held", "delete"} => userLock[u] = q)
      BY <1>1, <2>1 DEF RequestInv, InStep, UserInHand
    <2>3. req[q].pc \in {"held", "delete"} => userLock'[u] = q
      BY <2>2 DEF Untouched
    <2>4. ASSUME At(q, "delete"), NEW t \in rows', owner'[t[1]] = u
          PROVE  t \in Hand(q)
      <3>1. RowsOf(u) \subseteq Hand(q) /\ userLock[u] # NoProc
        BY <1>1, <2>1, <2>2, <2>4 DEF RequestInv, UserInHand, At
      <3>2. CASE t \in rows
        <4>1. owner[t[1]] # NoUser /\ t[1] \in Chain
          BY <3>2, RowsAre, TokenFacts DEF OrderInv, NewLineagesAreEmpty
        <4>2. owner[t[1]] = u
          BY <2>4, <4>1 DEF StepOf
        <4> QED
          BY <3>1, <3>2, <4>2 DEF RowsOf
      <3>3. CASE t \notin rows
        <4>1. RowMoves(p, t) /\ t \in Token /\ t[1] \in Chain
          BY RowsAre, TokenFacts DEF StepOf
        <4>2. CASE At(p, "create") /\ req[p].tok = t /\ userLock[req[p].user] = NoProc
          <5>1. owner[t[1]] # NoUser /\ owner[t[1]] = req[p].user
            BY <4>2 DEF LogoutInv, OrderInv, NewLineagesAreEmpty, RequestInv, InStep
          <5> QED
            BY <2>4, <3>1, <4>1, <4>2, <5>1 DEF StepOf
        <4>3. CASE At(p, "rotate") /\ Replacement(req[p].tok) = t
                   /\ userLock[owner[t[1]]] = NoProc
          <5>1. req[p].tok \in rows /\ req[p].tok \in Token /\ req[p].tok[2] < MaxGen
            BY <4>3 DEF OrderInv, RotationInOrder, RotatedTokens
          <5>2. owner[t[1]] # NoUser
            BY <4>3, <5>1, ReplacementFacts DEF OrderInv, NewLineagesAreEmpty
          <5> QED
            BY <2>4, <3>1, <4>1, <4>3, <5>2 DEF StepOf
        <4> QED
          BY <3>3, <4>1, <4>2, <4>3 DEF RowMoves
      <3> QED
        BY <3>2, <3>3
    <2>5. At(q, "delete") => RowsOf(u)' \subseteq Hand(q)
      BY <1>1, <2>4 DEF RowsOf
    <2> QED
      BY <1>1, <2>0, <2>3, <2>5 DEF UserInHand, At, RowsOf
  <1> QED
    BY <1>5, <1>6, <1>7, <1>8, <1>9 DEF RequestInv

\* A step keeps the invariant if its own request is sound afterwards, and if
\* it has settled what it deleted and ended.
LEMMA StepKeepsLogoutInv ==
  ASSUME LogoutInv, OrderInv', NEW p \in Proc, StepOf(p), DeletedAreSettled,
         RequestInv(p)',
         \A c \in ended' \ ended : SettledBelow(c, MaxGen + 1)'
  PROVE  LogoutInv'
  <1>1. \A q \in Proc : RequestInv(q)'
    <2>1. ASSUME NEW q \in Proc, q # p
          PROVE  RequestInv(q)'
      BY <2>1, OthersStay DEF StepOf, LogoutInv
    <2> QED
      BY <2>1
  <1>2. EndedAreSettled'
    <2>1. ASSUME NEW c \in ended
          PROVE  SettledBelow(c, MaxGen + 1)'
      <3>1. c \in Chain /\ MaxGen + 1 \in Int /\ SettledBelow(c, MaxGen + 1)
        BY SessionConstants DEF LogoutInv, OrderInv, TypeOK, EndedAreSettled
      <3> QED
        BY <3>1, SettledStays DEF LogoutInv
    <2> QED
      BY <2>1 DEF EndedAreSettled
  <1>3. FirstGenerations'
    <2>1. SUFFICES ASSUME ~RotationSecret, NEW t \in rows'
                   PROVE  t[2] = 0
      BY DEF FirstGenerations
    <2>2. CASE t \in rows
      BY <2>1, <2>2 DEF LogoutInv, FirstGenerations
    <2>3. CASE t \notin rows
      <3>1. ~At(p, "rotate")
        BY <2>1 DEF LogoutInv, RequestInv, InStep, At
      <3>2. At(p, "create") /\ req[p].tok = t
        BY <2>3, <3>1, NewRowsAreLast DEF LogoutInv
      <3> QED
        BY <3>2 DEF LogoutInv, OrderInv, NewLineagesAreEmpty
    <2> QED
      BY <2>2, <2>3
  <1> QED
    BY <1>1, <1>2, <1>3 DEF LogoutInv

\* A request that is answered has let go of everything.
LEMMA AnsweredIsSound ==
  ASSUME TypeOK, NEW p \in Proc, Finish(p), Held(p)' = {},
         \A u \in User : userLock'[u] # p
  PROVE  RequestInv(p)'
  <1>1. req'[p] = Idle /\ Idle.op = "none" /\ Idle.pc = "idle" /\ Idle.todo = {}
    BY DEF Finish, TypeOK, Idle
  <1>2. InStep(p)' /\ Remembers(p)' /\ NoGaps(p)'
    BY <1>1 DEF InStep, Remembers, NoGaps, At
  <1>3. LogoutInHand(p)' /\ UserInHand(p)'
    BY <1>1 DEF LogoutInHand, UserInHand, At
  <1> QED
    BY <1>2, <1>3 DEF RequestInv

\* Only a transaction under way has rows or a user locked.
LEMMA NothingHeld ==
  ASSUME LogoutInv, NEW p \in Proc,
         req[p].pc \in {"idle", "create", "purge", "rotateLock"}
  PROVE  Held(p) = {} /\ \A u \in User : userLock[u] # p
  BY DEF LogoutInv, RequestInv, InStep, At

\* A request that begins, having locked and seen nothing yet.
LEMMA BeginsSoundly ==
  ASSUME LogoutInv, NEW p \in Proc, At(p, "idle"), UNCHANGED rowLock, OrderInv',
         StepOf(p), DeletedAreSettled, NEW t, req'[p].tok = t,
         req'[p].todo = {}, InStep(p)',
         req'[p].pc \in {"create", "purge", "rotateLock", "logout", "userLock"},
         req'[p].pc = "purge" =>
           t \in Token /\ Settled(t)' /\ (Live(t)' => Replacement(t) \in rows'),
         req'[p].op = "logout" => t \in Token /\ (t \in rows' \/ Settled(t)'),
         ended' = ended
  PROVE  LogoutInv'
  <1>1. Held(p)' = {}
    <2>1. Held(p) = {}
      BY DEF LogoutInv, RequestInv, InStep, At
    <2> QED
      BY <2>1 DEF Held
  <1>2. Remembers(p)' /\ NoGaps(p)'
    BY DEF Remembers, NoGaps, At
  <1>3. LogoutInHand(p)' /\ UserInHand(p)'
    BY <1>1 DEF LogoutInHand, UserInHand, Hand, At
  <1>4. RequestInv(p)'
    BY <1>2, <1>3 DEF RequestInv
  <1> QED
    BY <1>4, StepKeepsLogoutInv

\* Nothing is inserted, renewed or deleted, and only request p's locks change.
LEMMA QuietStep ==
  ASSUME LogoutInv, NEW p \in Proc, UNCHANGED <<clock, expiresAt>>,
         \A q \in Proc \ {p} :
           /\ req'[q] = req[q]
           /\ \A t \in Token : rowLock'[t] = q <=> rowLock[t] = q
           /\ \A u \in User : userLock'[u] = q <=> userLock[u] = q,
         \A c \in Chain : owner[c] # NoUser => owner'[c] = owner[c],
         At(p, "create")' => \/ At(p, "create") /\ req'[p].tok = req[p].tok
                             \/ owner[req'[p].tok[1]] = NoUser,
         At(p, "rotate")' => \/ At(p, "rotate") /\ req'[p].tok = req[p].tok
                             \/ Live(req'[p].tok)
  PROVE  StepOf(p) /\ DeletedAreSettled /\ rows' = rows
  <1>1. rows' = rows
    BY DEF rows
  <1>2. clock <= clock'
    BY DEF LogoutInv, OrderInv, TypeOK
  <1> QED
    BY <1>1, <1>2 DEF StepOf, Untouched, RowMoves, DeletedAreSettled

LEMMA StartKeepsLogoutInv ==
  ASSUME LogoutInv, OrderInv', NEW p \in Proc, Start(p)
  PROVE  LogoutInv'
  <1>0. TypeOK /\ OrderInv /\ clock \in Nat
    BY DEF LogoutInv, OrderInv, TypeOK
  <1>1. ASSUME NEW u \in User, Login(p, u)
        PROVE  LogoutInv'
    <2>1. PICK c \in Fresh : /\ owner' = [owner EXCEPT ![c] = u]
                             /\ Begin(p, "login", "create", <<c, 0>>, u, {})
      BY <1>1 DEF Login
    <2>2. /\ At(p, "idle") /\ UNCHANGED <<clock, expiresAt, rowLock, userLock, ended>>
          /\ req'[p].op = "login" /\ req'[p].pc = "create" /\ req'[p].todo = {}
          /\ req'[p].tok = <<c, 0>> /\ req'[p].user = u
          /\ \A q \in Proc \ {p} : req'[q] = req[q]
          /\ c \in Chain /\ owner[c] = NoUser /\ owner'[c] = u
          /\ \A d \in Chain : owner[d] # NoUser => owner'[d] = owner[d]
      BY <1>0, <1>1, <2>1 DEF Login, Begin, TypeOK, Fresh
    <2>3. StepOf(p) /\ DeletedAreSettled /\ rows' = rows
      BY <2>2, QuietStep DEF At
    <2>4. InStep(p)'
      <3>1. Held(p)' = {} /\ \A v \in User : userLock'[v] # p
        BY <2>2, NothingHeld DEF At, Held
      <3> QED
        BY <2>2, <3>1 DEF InStep, At
    <2> QED
      BY <2>2, <2>3, <2>4, BeginsSoundly DEF At
  <1>2. ASSUME NEW u \in User, RevokeAll(p, u)
        PROVE  LogoutInv'
    <2>1. /\ At(p, "idle") /\ UNCHANGED <<clock, expiresAt, owner, rowLock, userLock, ended>>
          /\ req'[p].op = "revoke" /\ req'[p].pc = "delete" /\ req'[p].todo = RowsOf(u)
          /\ req'[p].user = u
          /\ \A q \in Proc \ {p} : req'[q] = req[q]
      BY <1>0, <1>2 DEF RevokeAll, Begin, TypeOK
    <2>2. StepOf(p) /\ DeletedAreSettled /\ rows' = rows
      BY <2>1, QuietStep DEF At
    <2>3. Held(p)' = {} /\ Hand(p)' = RowsOf(u) /\ \A v \in User : userLock'[v] # p
      BY <2>1, NothingHeld DEF At, Held, Hand
    <2>4. InStep(p)' /\ Remembers(p)'
      BY <2>1, <2>2, <2>3 DEF InStep, Remembers, RowsOf, At
    <2>5. NoGaps(p)' /\ LogoutInHand(p)' /\ UserInHand(p)'
      BY <2>1, <2>2, <2>3 DEF NoGaps, LogoutInHand, UserInHand, RowsOf, At
    <2>6. RequestInv(p)'
      BY <2>4, <2>5 DEF RequestInv
    <2> QED
      BY <2>1, <2>2, <2>6, StepKeepsLogoutInv
  <1>3. ASSUME NEW u \in User, NEW op \in {"reset", "role"}, OpenUserTransaction(p, u, op)
        PROVE  LogoutInv'
    <2>1. /\ At(p, "idle") /\ UNCHANGED <<clock, expiresAt, owner, rowLock, userLock, ended>>
          /\ req'[p].op = op /\ req'[p].pc = "userLock" /\ req'[p].todo = {}
          /\ req'[p].user = u
          /\ \A q \in Proc \ {p} : req'[q] = req[q]
      BY <1>0, <1>3 DEF OpenUserTransaction, Begin, TypeOK
    <2>2. StepOf(p) /\ DeletedAreSettled /\ rows' = rows
      BY <2>1, QuietStep DEF At
    <2>3. InStep(p)'
      <3>1. Held(p)' = {} /\ \A v \in User : userLock'[v] # p
        BY <2>1, NothingHeld DEF At, Held
      <3> QED
        BY <2>1, <3>1 DEF InStep, At
    <2> QED
      BY <2>1, <2>2, <2>3, BeginsSoundly DEF At
  <1>4. ASSUME NEW t \in Token, ResolveExpired(p, t)
        PROVE  LogoutInv'
    <2>1. /\ At(p, "idle") /\ UNCHANGED <<clock, expiresAt, owner, rowLock, userLock, ended>>
          /\ req'[p].op = "resolve" /\ req'[p].pc = "purge" /\ req'[p].todo = {}
          /\ req'[p].tok = t /\ t \in rows /\ expiresAt[t] <= clock
          /\ \A q \in Proc \ {p} : req'[q] = req[q]
      BY <1>0, <1>4 DEF ResolveExpired, Begin, TypeOK
    <2>2. StepOf(p) /\ DeletedAreSettled /\ rows' = rows
      BY <2>1, QuietStep DEF At
    <2>3. InStep(p)'
      <3>1. Held(p)' = {} /\ \A u \in User : userLock'[u] # p
        BY <2>1, NothingHeld DEF At, Held
      <3> QED
        BY <2>1, <3>1 DEF InStep, At
    <2>4. Settled(t)' /\ ~Live(t)'
      <3>1. Settled(t)
        BY <1>0, <2>1, ExpiredIsSettled
      <3>2. Settled(t)'
        BY <1>0, <2>2, <3>1, TokenFacts, SettledStays DEF Settled
      <3>3. expiresAt[t] \in Nat
        BY <1>0, <2>1, RowsAre DEF TypeOK
      <3> QED
        BY <1>0, <2>1, <3>2, <3>3 DEF Live
    <2> QED
      BY <2>1, <2>2, <2>3, <2>4, BeginsSoundly DEF At
  <1>5. ASSUME NEW t \in Token, ResolveAgeing(p, t)
        PROVE  LogoutInv'
    <2>1. /\ At(p, "idle") /\ UNCHANGED <<clock, expiresAt, owner, rowLock, userLock, ended>>
          /\ req'[p].op = "resolve" /\ req'[p].pc = "rotateLock" /\ req'[p].todo = {}
          /\ RotationSecret
          /\ \A q \in Proc \ {p} : req'[q] = req[q]
      BY <1>0, <1>5 DEF ResolveAgeing, Begin, TypeOK
    <2>2. StepOf(p) /\ DeletedAreSettled /\ rows' = rows
      BY <2>1, QuietStep DEF At
    <2>3. InStep(p)'
      <3>1. Held(p)' = {} /\ \A u \in User : userLock'[u] # p
        BY <2>1, NothingHeld DEF At, Held
      <3> QED
        BY <2>1, <3>1 DEF InStep, At
    <2> QED
      BY <2>1, <2>2, <2>3, BeginsSoundly DEF At
  <1>6. ASSUME NEW t \in Token, Logout(p, t)
        PROVE  LogoutInv'
    <2>1. /\ At(p, "idle") /\ UNCHANGED <<clock, owner, rowLock, userLock, ended>>
          /\ req'[p].op = "logout" /\ req'[p].pc = "logout" /\ req'[p].todo = {}
          /\ req'[p].tok = t /\ CanPresent(t)
          /\ \A q \in Proc \ {p} : req'[q] = req[q]
          /\ \/ expiresAt' = expiresAt
             \/ /\ t \in rows /\ expiresAt[t] < clock /\ rowLock[t] = NoProc
                /\ expiresAt' = Without({t})
      BY <1>0, <1>6 DEF Logout, Begin, TypeOK
    <2>2. \A s \in rows' : s \in rows /\ expiresAt'[s] = expiresAt[s]
      BY <2>1, RowsAre DEF Without
    <2>3. \A s \in rows \ rows' : s = t /\ rowLock[t] = NoProc /\ expiresAt[t] <= clock
      <3>1. \A s \in rows : expiresAt[s] \in Nat
        BY <1>0, RowsAre DEF TypeOK
      <3> QED
        BY <1>0, <2>1, <3>1, RowsAre DEF Without
    <2>4. StepOf(p)
      <3>1. \A q \in Proc \ {p} : Untouched(q)
        BY <2>1, <2>3, SessionConstants DEF Untouched
      <3> QED
        BY <1>0, <2>1, <2>2, <3>1 DEF StepOf, RowMoves, At
    <2>5. t[1] \in Chain /\ t[2] \in Int
      BY TokenFacts
    <2>6. t \in rows \/ Settled(t)
      <3>1. SUFFICES ASSUME Replacement(t) \in rows
                     PROVE  Settled(t)
        BY <2>1 DEF CanPresent
      <3> DEFINE r == Replacement(t)
      <3>2. r[1] = t[1] /\ r[2] = t[2] + 1
        BY <2>5 DEF Replacement
      <3>3. owner[t[1]] # NoUser /\ \A q \in Proc : At(q, "create") => req[q].tok[1] # t[1]
        BY <1>0, <3>1, <3>2 DEF OrderInv, NewLineagesAreEmpty
      <3>4. ASSUME NEW s \in rows, s[1] = t[1], s[2] < t[2]
            PROVE  ~Live(s)
        <4>1. s[2] \in Int /\ expiresAt[s] \in Nat
          BY <1>0, RowsAre, TokenFacts DEF TypeOK
        <4>2. expiresAt[s] <= clock
          <5>1. s[1] = r[1] /\ s[2] < r[2] /\ r[2] >= s[2] + 2
            BY <2>5, <3>2, <3>4, <4>1
          <5> QED
            BY <1>0, <3>1, <5>1 DEF OrderInv, LineageInOrder
        <4> QED
          BY <1>0, <4>1, <4>2 DEF Live
      <3>5. ASSUME NEW q \in Proc, At(q, "rotate"), req[q].tok[1] = t[1], req[q].tok[2] < t[2]
            PROVE  FALSE
        <4>1. req[q].tok[2] \in Int
          BY <1>0, <3>5, TokenFacts DEF OrderInv, RotatedTokens
        <4>2. r[1] = req[q].tok[1] /\ r[2] > req[q].tok[2]
          BY <2>5, <3>2, <3>5, <4>1
        <4>3. r[2] = req[q].tok[2] + 1
          BY <1>0, <3>1, <3>5, <4>2 DEF OrderInv, RotationInOrder
        <4> QED
          BY <2>5, <3>2, <3>5, <4>1, <4>3
      <3> QED
        BY <3>3, <3>4, <3>5 DEF Settled, SettledBelow
    <2>7. Settled(t) => Settled(t)'
      BY <1>0, <2>4, <2>5, SettledStays DEF Settled
    <2>8. DeletedAreSettled /\ (t \in rows' \/ Settled(t)')
      BY <1>0, <2>3, <2>6, <2>7, ExpiredIsSettled DEF DeletedAreSettled
    <2>9. InStep(p)'
      <3>1. Held(p)' = {} /\ \A u \in User : userLock'[u] # p
        BY <2>1, NothingHeld DEF At, Held
      <3> QED
        BY <2>1, <3>1 DEF InStep, At
    <2> QED
      BY <2>1, <2>4, <2>8, <2>9, BeginsSoundly DEF At
  <1> QED
    BY <1>1, <1>2, <1>3, <1>4, <1>5, <1>6 DEF Start

\* Rows are deleted that no other request has locked.
LEMMA DeletingStep ==
  ASSUME LogoutInv, NEW p \in Proc, UNCHANGED clock, NEW S,
         expiresAt' = Without(S),
         \A t \in S \cap rows : rowLock[t] \in {p, NoProc},
         \A q \in Proc \ {p} :
           /\ req'[q] = req[q]
           /\ \A t \in Token : rowLock'[t] = q <=> rowLock[t] = q
           /\ \A u \in User : userLock'[u] = q <=> userLock[u] = q,
         \A c \in Chain : owner[c] # NoUser => owner'[c] = owner[c],
         At(p, "create")' => owner[req'[p].tok[1]] = NoUser,
         ~At(p, "rotate")'
  PROVE  StepOf(p) /\ rows' = rows \ S
  <1>1. TypeOK /\ clock \in Nat
    BY DEF LogoutInv, OrderInv, TypeOK
  <1>2. rows' = rows \ S /\ \A t \in rows' : t \in rows /\ expiresAt'[t] = expiresAt[t]
    BY RowsAre DEF Without, rows
  <1>3. \A q \in Proc \ {p} : Untouched(q)
    BY <1>2, SessionConstants DEF Untouched
  <1> QED
    BY <1>1, <1>2, <1>3 DEF StepOf, RowMoves, At

\* A new session is the first row of its lineage.
LEMMA CreateSessionKeepsLogoutInv ==
  ASSUME LogoutInv, OrderInv', NEW p \in Proc, CreateSession(p)
  PROVE  LogoutInv'
  <1>1. PICK t : t = req[p].tok
    OBVIOUS
  <1>2. /\ TypeOK /\ At(p, "create") /\ t \in Token /\ clock \in Nat
        /\ userLock[req[p].user] = NoProc
        /\ expiresAt' = [expiresAt EXCEPT ![t] = req[p].now + TTL]
        /\ \A s \in rows : s[1] # t[1]
        /\ UNCHANGED <<clock, owner, rowLock, userLock, ended>>
    BY <1>1 DEF CreateSession, LogoutInv, OrderInv, NewLineagesAreEmpty, TypeOK
  <1>3. Finish(p)
    BY DEF CreateSession
  <1>4. \A q \in Proc \ {p} : req'[q] = req[q]
    BY <1>2, <1>3, FinishFacts
  <1>5. req'[p].pc = "idle"
    BY <1>2, <1>3, FinishFacts
  <1>6. t \notin rows /\ rows \subseteq rows'
        /\ \A s \in rows' \ {t} : s \in rows /\ expiresAt'[s] = expiresAt[s]
    BY <1>2 DEF rows, TypeOK
  <1>7. \A s \in rows' : RowMoves(p, s)
    BY <1>1, <1>2, <1>6 DEF RowMoves
  <1>8. StepOf(p)
    BY <1>2, <1>4, <1>5, <1>6, <1>7 DEF StepOf, Untouched, At
  <1>9. RequestInv(p)'
    <2>1. Held(p)' = {} /\ \A u \in User : userLock'[u] # p
      BY <1>2, NothingHeld DEF At, Held
    <2> QED
      BY <1>2, <1>3, <2>1, AnsweredIsSound
  <1> QED
    BY <1>2, <1>6, <1>8, <1>9, StepKeepsLogoutInv DEF DeletedAreSettled

\* A resolve deletes a row that is settled.
LEMMA PurgeKeepsLogoutInv ==
  ASSUME LogoutInv, OrderInv', NEW p \in Proc,
         PurgeExpired(p) \/ RotationNotNeeded(p)
  PROVE  LogoutInv'
  <1>1. PICK t : t = req[p].tok
    OBVIOUS
  <1>2. /\ TypeOK /\ OrderInv /\ rowLock[t] = NoProc /\ Finish(p)
        /\ req[p].pc \in {"purge", "rotateLock"}
        /\ UNCHANGED <<clock, owner, rowLock, userLock, ended>>
    BY <1>1 DEF PurgeExpired, RotationNotNeeded, LogoutInv, OrderInv, At
  <1>3. PICK S : /\ expiresAt' = Without(S) /\ S \subseteq {t}
                 /\ S # {} => At(p, "purge") \/ ~Live(t)
    <2>1. CASE expiresAt' = expiresAt
      <3>1. expiresAt = Without({})
        BY <1>2 DEF Without, TypeOK
      <3> QED
        BY <2>1, <3>1
    <2>2. CASE expiresAt' = Without({t}) /\ (At(p, "purge") \/ ~Live(t))
      BY <2>2
    <2> QED
      BY <1>1, <2>1, <2>2 DEF PurgeExpired, RotationNotNeeded
  <1>4. req'[p].pc = "idle" /\ \A q \in Proc \ {p} : req'[q] = req[q]
    BY <1>2, FinishFacts
  <1>5. StepOf(p) /\ rows' = rows \ S
    <2>1. \A s \in S \cap rows : rowLock[s] \in {p, NoProc}
      BY <1>2, <1>3
    <2>2. ~At(p, "rotate")' /\ ~At(p, "create")'
      BY <1>4 DEF At
    <2> QED
      BY <1>2, <1>3, <1>4, <2>1, <2>2, DeletingStep
  <1>6. DeletedAreSettled
    <2>1. SUFFICES ASSUME t \in rows, S # {}
                   PROVE  Settled(t)'
      BY <1>3, <1>5 DEF DeletedAreSettled
    <2>2. Settled(t)
      <3>1. CASE At(p, "purge")
        BY <1>1, <3>1 DEF LogoutInv, RequestInv, Remembers
      <3>2. CASE ~Live(t)
        <4>1. expiresAt[t] \in Nat /\ clock \in Nat
          BY <1>2, <2>1, RowsAre DEF TypeOK
        <4>2. expiresAt[t] <= clock
          BY <2>1, <3>2, <4>1 DEF Live
        <4> QED
          BY <1>2, <2>1, <4>2, ExpiredIsSettled
      <3> QED
        BY <1>3, <2>1, <3>1, <3>2
    <2>3. t[1] \in Chain /\ t[2] \in Int
      BY <2>1, RowsAre, TokenFacts
    <2> QED
      BY <1>2, <1>5, <2>2, <2>3, SettledStays DEF Settled
  <1>7. RequestInv(p)'
    <2>1. Held(p)' = {} /\ \A u \in User : userLock'[u] # p
      BY <1>2, NothingHeld DEF Held
    <2> QED
      BY <1>2, <2>1, AnsweredIsSound
  <1> QED
    BY <1>2, <1>5, <1>6, <1>7, StepKeepsLogoutInv

\* The rotation's lock is its first.
LEMMA LockForRotationKeepsLogoutInv ==
  ASSUME LogoutInv, OrderInv', NEW p \in Proc, LockForRotation(p)
  PROVE  LogoutInv'
  <1>1. PICK t : t = req[p].tok
    OBVIOUS
  <1>2. /\ TypeOK /\ OrderInv /\ rowLock[t] = NoProc /\ At(p, "rotateLock") /\ Live(t)
        /\ rowLock' = [rowLock EXCEPT ![t] = p]
        /\ req' = [req EXCEPT ![p].pc = "rotate", ![p].now = clock]
        /\ UNCHANGED <<clock, expiresAt, owner, userLock, ended>>
    BY <1>1 DEF LockForRotation, LogoutInv, OrderInv
  <1>3. /\ req'[p].pc = "rotate" /\ req'[p].op = req[p].op /\ req'[p].tok = t
        /\ req'[p].todo = req[p].todo
        /\ \A q \in Proc \ {p} : req'[q] = req[q]
    BY <1>1, <1>2 DEF TypeOK, Request
  <1>4. t \in rows /\ t \in Token
    BY <1>2, RowsAre DEF Live
  <1>5. \A q \in Proc \ {p} : \A s \in Token : rowLock'[s] = q <=> rowLock[s] = q
    BY <1>2, SessionConstants DEF TypeOK
  <1>6. StepOf(p) /\ DeletedAreSettled /\ rows' = rows
    BY <1>2, <1>3, <1>5, QuietStep DEF At
  <1>7. Held(p)' = {t} /\ \A u \in User : userLock'[u] # p
    <2>1. Held(p) = {} /\ \A u \in User : userLock[u] # p
      BY <1>2, NothingHeld DEF At
    <2> QED
      BY <1>2, <1>4, <2>1 DEF Held, TypeOK
  <1>8. req[p].op = "resolve" /\ RotationSecret /\ req[p].todo = {}
    BY <1>2 DEF LogoutInv, RequestInv, InStep, At
  <1>9. InStep(p)'
    BY <1>3, <1>4, <1>6, <1>7, <1>8 DEF InStep, At
  <1>10. Remembers(p)' /\ NoGaps(p)' /\ LogoutInHand(p)' /\ UserInHand(p)'
    BY <1>3, <1>8 DEF Remembers, NoGaps, LogoutInHand, UserInHand, At
  <1> QED
    BY <1>2, <1>6, <1>9, <1>10, StepKeepsLogoutInv DEF RequestInv

\* Rotating leaves every row in place and adds at most the next generation.
LEMMA RotateKeepsLogoutInv ==
  ASSUME LogoutInv, OrderInv', NEW p \in Proc,
         ReissueReplacement(p) \/ MintReplacement(p) \/ AbortDeadlocked(p)
  PROVE  LogoutInv'
  <1>1. /\ TypeOK /\ OrderInv /\ Finish(p) /\ Unlock(p) /\ clock \in Nat
        /\ UNCHANGED <<clock, owner, ended>>
    BY DEF ReissueReplacement, MintReplacement, AbortDeadlocked, LogoutInv, OrderInv,
           TypeOK
  <1>2. req'[p].pc = "idle" /\ \A q \in Proc \ {p} : req'[q] = req[q]
    BY <1>1, FinishFacts
  <1>3. \A q \in Proc \ {p} :
          /\ \A t \in Token : rowLock'[t] = q <=> rowLock[t] = q
          /\ \A u \in User : userLock'[u] = q <=> userLock[u] = q
    BY <1>1, SessionConstants DEF Unlock
  <1>4. RequestInv(p)'
    <2>1. Held(p)' = {} /\ \A u \in User : userLock'[u] # p
      BY <1>1, SessionConstants DEF Held, Unlock
    <2> QED
      BY <1>1, <2>1, AnsweredIsSound
  <1>5. StepOf(p) /\ DeletedAreSettled
    <2>1. CASE expiresAt' = expiresAt
      BY <1>1, <1>2, <1>3, <2>1, QuietStep DEF At
    <2>2. CASE MintReplacement(p)
      <3>1. PICK t, r, n : t = req[p].tok /\ r = Replacement(t) /\ n = req[p].now
        OBVIOUS
      <3>2. /\ At(p, "rotate") /\ t \in rows /\ r \in Token /\ r # t /\ r[1] = t[1]
            /\ t \in Token /\ n \in Nat
        <4>1. At(p, "rotate")
          BY <2>2 DEF MintReplacement
        <4>2. t \in Token /\ t[2] < MaxGen /\ t \in rows /\ n \in Nat
          BY <1>1, <3>1, <4>1, RequestFacts DEF OrderInv, RotatedTokens, RotationInOrder
        <4> QED
          BY <3>1, <4>1, <4>2, ReplacementFacts, TokenFacts
      <3>3. r \in rows => HasActiveReplacement(p)
        <4>1. SUFFICES ASSUME r \in rows
                       PROVE  expiresAt[r] > n
          BY <3>1 DEF HasActiveReplacement
        <4>2. r[2] = t[2] + 1 /\ t[2] \in Int
          BY <3>1, <3>2, TokenFacts DEF Replacement
        <4>3. expiresAt[r] > n + TxTime + Window /\ expiresAt[r] \in Nat
          BY <1>1, <3>1, <3>2, <4>1, <4>2, RowsAre DEF OrderInv, RotationInOrder, TypeOK
        <4> QED
          BY <3>2, <4>3, SessionConstants
      <3>4. CASE HasActiveReplacement(p)
        <4>1. r \in rows /\ expiresAt' = [expiresAt EXCEPT ![r] = @, ![t] = n + Grace]
          BY <2>2, <3>1, <3>4 DEF MintReplacement, HasActiveReplacement
        <4>2. rows' = rows /\ \A s \in rows' \ {t} : expiresAt'[s] = expiresAt[s]
          BY <1>1, <3>2, <4>1, SessionConstants DEF rows, NoRow, TypeOK
        <4>3. \A s \in rows' : RowMoves(p, s)
          BY <3>1, <3>2, <4>1, <4>2 DEF RowMoves
        <4> QED
          BY <1>1, <1>2, <1>3, <4>2, <4>3 DEF StepOf, Untouched, DeletedAreSettled, At
      <3>5. CASE ~HasActiveReplacement(p)
        <4>1. /\ r \notin rows /\ userLock[owner[r[1]]] = NoProc
              /\ expiresAt' = [expiresAt EXCEPT ![r] = n + TTL, ![t] = n + Grace]
          BY <2>2, <3>1, <3>2, <3>3, <3>5 DEF MintReplacement
        <4>2. /\ rows' = rows \cup {r}
              /\ \A s \in rows' : s # t /\ s # r => expiresAt'[s] = expiresAt[s]
          BY <1>1, <3>2, <4>1, SessionConstants DEF rows, NoRow, TypeOK
        <4>3. \A s \in rows' : RowMoves(p, s)
          BY <3>1, <3>2, <4>1, <4>2 DEF RowMoves
        <4> QED
          BY <1>1, <1>2, <1>3, <4>2, <4>3 DEF StepOf, Untouched, DeletedAreSettled, At
      <3> QED
        BY <3>4, <3>5
    <2> QED
      BY <2>1, <2>2 DEF ReissueReplacement, AbortDeadlocked
  <1> QED
    BY <1>1, <1>4, <1>5, StepKeepsLogoutInv

\* A logout's request as it steps from selecting its lineage to deleting it.
LEMMA SelectingKeepsLogoutInv ==
  ASSUME LogoutInv, OrderInv', NEW p \in Proc, SelectLineage(p) \/ DeleteLineage(p)
  PROVE  LogoutInv'
  <1>1. PICK t : t = req[p].tok
    OBVIOUS
  <1>2. /\ TypeOK /\ OrderInv
        /\ UNCHANGED <<clock, expiresAt, owner, rowLock, userLock, ended>>
        /\ req[p].pc \in {"logout", "lock"} /\ p # NoProc
    BY SessionConstants
    DEF SelectLineage, DeleteLineage, LogoutInv, OrderInv, At
  <1>3. /\ req'[p].op = req[p].op /\ req'[p].tok = t /\ req'[p].user = req[p].user
        /\ \A q \in Proc \ {p} : req'[q] = req[q]
        /\ req'[p].pc \in {"lock", "delete"}
    BY <1>1, <1>2 DEF SelectLineage, DeleteLineage, TypeOK, Request
  <1>4. StepOf(p) /\ DeletedAreSettled /\ rows' = rows /\ Held(p)' = Held(p)
    BY <1>2, <1>3, QuietStep DEF At, Held
  <1>5. req[p].op = "logout" /\ InStep(p)
    BY <1>2 DEF LogoutInv, RequestInv, InStep, At
  <1>6. t \in Token /\ t[1] \in Chain /\ t[2] \in Int /\ (t \in rows \/ Settled(t))
    BY <1>1, <1>5, TokenFacts DEF LogoutInv, RequestInv, Remembers
  <1>7. t \in rows' \/ Settled(t)'
    BY <1>2, <1>4, <1>6, SettledStays DEF Settled
  <1>8. UserInHand(p)'
    BY <1>3, <1>5 DEF UserInHand
  <1>9. CASE SelectLineage(p)
    <2>1. At(p, "logout") /\ req'[p].pc = "lock" /\ req'[p].todo = Lineage(t) \cap rows
      BY <1>1, <1>2, <1>9 DEF SelectLineage, TypeOK
    <2>2. Held(p)' = {} /\ Hand(p)' = Lineage(t) \cap rows
      BY <1>4, <1>5, <2>1 DEF InStep, At, Held, Hand
    <2>3. InStep(p)'
      BY <1>2, <1>3, <1>5, <2>1, <2>2 DEF InStep, At
    <2>4. Remembers(p)'
      BY <1>3, <1>4, <1>6, <1>7, <2>1 DEF Remembers, At
    <2>5. NoGaps(p)'
      BY <1>3, <1>4, <1>5, <2>2 DEF NoGaps, Lineage
    <2>6. LogoutInHand(p)'
      BY <1>3, <1>4, <2>1, <2>2 DEF LogoutInHand, Lineage, At
    <2> QED
      BY <1>2, <1>4, <1>8, <2>3, <2>4, <2>5, <2>6, StepKeepsLogoutInv DEF RequestInv
  <1>10. CASE DeleteLineage(p)
    <2>1. /\ At(p, "lock") /\ req[p].todo = {} /\ req'[p].pc = "delete"
          /\ req'[p].todo = (Lineage(t) \cap rows) \ Held(p)
      BY <1>1, <1>2, <1>10 DEF DeleteLineage, TypeOK
    <2>2. /\ Held(p) = Hand(p) /\ Held(p) \subseteq Lineage(t) /\ Held(p) \subseteq rows
          /\ \A s \in Lineage(t) \cap rows : s[2] <= t[2] => s \in Held(p)
      BY <1>1, <1>5, <2>1 DEF LogoutInv, RequestInv, LogoutInHand, InStep, Hand
    <2>3. Hand(p)' = Lineage(t) \cap rows
      BY <1>4, <2>1, <2>2 DEF Hand
    <2>4. InStep(p)'
      BY <1>2, <1>3, <1>4, <1>5, <2>1 DEF InStep, At
    <2>5. Remembers(p)'
      BY <1>3, <1>4, <1>6, <1>7, <2>1 DEF Remembers, At
    <2>6. NoGaps(p)'
      BY <1>3, <1>4, <1>5, <2>3 DEF NoGaps, Lineage
    <2>7. \A a \in req'[p].todo : t[2] < a[2] /\ a = Replacement(t)
      <3>1. ASSUME NEW a \in Lineage(t), a \in rows, a \notin Held(p)
            PROVE  t[2] < a[2] /\ a = Replacement(t)
        <4>1. a \in Token /\ a[1] = t[1] /\ a[2] \in {t[2] - 1, t[2], t[2] + 1}
          BY <1>6, <3>1 DEF Lineage
        <4>2. a[2] = t[2] + 1
          BY <1>6, <2>2, <3>1, <4>1
        <4>3. a = <<a[1], a[2]>>
          BY <4>1, TokenFacts
        <4>4. a = Replacement(t)
          BY <4>1, <4>2, <4>3 DEF Replacement
        <4> QED
          BY <1>6, <4>2, <4>4
      <3> QED
        BY <2>1, <3>1
    <2>8. \A a \in req'[p].todo, b \in Held(p) : b[2] < a[2]
      <3>1. SUFFICES ASSUME NEW a \in req'[p].todo, NEW b \in Held(p)
                     PROVE  b[2] < a[2]
        OBVIOUS
      <3>2. a = Replacement(t) /\ a # b /\ a \in Token
        BY <2>1, <2>7 DEF Lineage
      <3>3. b \in Token /\ b[1] = t[1] /\ b[2] \in {t[2] - 1, t[2], t[2] + 1}
        BY <1>6, <2>2 DEF Lineage
      <3>4. b[2] # t[2] + 1 /\ a[2] = t[2] + 1
        BY <3>2, <3>3, TokenFacts DEF Replacement
      <3> QED
        BY <1>6, <3>3, <3>4
    <2>9. LogoutInHand(p)'
      <3>1. t \in rows => t \in Held(p)
        BY <1>6, <2>2 DEF Lineage
      <3> QED
        BY <1>3, <1>4, <2>1, <2>3, <2>7, <2>8, <3>1 DEF LogoutInHand, Lineage, At
    <2> QED
      BY <1>2, <1>4, <1>8, <2>4, <2>5, <2>6, <2>9, StepKeepsLogoutInv DEF RequestInv
  <1> QED
    BY <1>9, <1>10

\* A request acquires the rows it set out to take, one after the other.
LEMMA AcquireKeepsLogoutInv ==
  ASSUME LogoutInv, OrderInv', NEW p \in Proc, LockLineage(p) \/ DeleteNextRow(p)
  PROVE  LogoutInv'
  <1>0. TypeOK /\ OrderInv /\ p # NoProc /\ RequestInv(p) /\ req[p].todo \subseteq Token
    BY SessionConstants, RequestFacts DEF LogoutInv, OrderInv
  <1>1. PICK x \in req[p].todo : Acquire(p, x) /\ (At(p, "lock") => x \in NextToLock(req[p].todo))
    BY DEF LockLineage, DeleteNextRow, NextToLock, At
  <1>2. /\ req[p].pc \in {"lock", "delete"} /\ x \in Token /\ rowLock[x] = NoProc
        /\ UNCHANGED <<clock, expiresAt, owner, userLock, ended>>
        /\ rowLock' = IF x \in rows THEN [rowLock EXCEPT ![x] = p] ELSE rowLock
    BY <1>0, <1>1 DEF LockLineage, DeleteNextRow, Acquire, At
  <1>3. /\ req'[p].op = req[p].op /\ req'[p].tok = req[p].tok /\ req'[p].user = req[p].user
        /\ req'[p].pc = req[p].pc /\ req'[p].todo = req[p].todo \ {x}
        /\ \A q \in Proc \ {p} : req'[q] = req[q]
    BY <1>0, <1>1 DEF Acquire, TypeOK, Request
  <1>4. \A q \in Proc \ {p} : \A t \in Token : rowLock'[t] = q <=> rowLock[t] = q
    BY <1>0, <1>2, SessionConstants DEF TypeOK
  <1>5. StepOf(p) /\ DeletedAreSettled /\ rows' = rows
    BY <1>2, <1>3, <1>4, QuietStep DEF At
  <1>6. Held(p)' = Held(p) \cup ({x} \cap rows)
    <2>1. CASE x \in rows
      BY <1>0, <1>2, <2>1 DEF Held, TypeOK
    <2>2. CASE x \notin rows
      BY <1>0, <1>2, <2>2 DEF Held
    <2> QED
      BY <2>1, <2>2
  <1>7. Hand(p)' \subseteq Hand(p) /\ Hand(p)' \cap rows = Hand(p) \cap rows
        /\ \A t \in Held(p)' : t \in rows
    <2>1. \A t \in Held(p) : t \in rows
      BY <1>0 DEF RequestInv, InStep
    <2> QED
      BY <1>1, <1>3, <1>6, <2>1 DEF Hand
  <1>8. InStep(p)'
    BY <1>0, <1>2, <1>3, <1>5, <1>7 DEF RequestInv, InStep, At
  <1>9. PICK t : t = req[p].tok /\ t = req'[p].tok
    BY <1>3
  <1>10. Remembers(p)'
    <2>1. \A y \in req[p].todo : y \in Token /\ (y \in rows \/ Settled(y))
      BY <1>0 DEF RequestInv, Remembers
    <2>2. \A y \in req[p].todo : y \in rows' \/ Settled(y)'
      BY <1>0, <1>5, <2>1, SeenStays
    <2>3. req[p].op = "logout" => t \in Token /\ (t \in rows' \/ Settled(t)')
      BY <1>0, <1>5, <1>9, SeenStays DEF RequestInv, Remembers
    <2> QED
      BY <1>2, <1>3, <1>9, <2>2, <2>3 DEF Remembers, At
  <1>11. NoGaps(p)'
    <2>1. SUFFICES ASSUME NEW y \in Hand(p), y \in rows, NEW s \in rows, s[1] = y[1],
                          s[2] < y[2], req[p].op = "logout" => s \in Lineage(t)
                   PROVE  s \in Hand(p)'
      BY <1>3, <1>5, <1>7, <1>9 DEF NoGaps, Lineage
    <2>2. s \in Hand(p)
      BY <1>0, <1>2, <1>9, <2>1 DEF RequestInv, NoGaps
    <2> QED
      BY <1>7, <2>1, <2>2
  <1>12. LogoutInHand(p)'
    <2>1. SUFFICES ASSUME req[p].op = "logout"
                   PROVE  LogoutInHand(p)'
      BY <1>3 DEF LogoutInHand
    <2>2. /\ Hand(p) \subseteq Lineage(t)
          /\ \A a \in req[p].todo, b \in Held(p) : b[2] < a[2]
          /\ At(p, "lock") => \A s \in Lineage(t) \cap rows : s[2] <= t[2] => s \in Hand(p)
          /\ At(p, "delete") => \A a \in req[p].todo : t[2] < a[2]
          /\ At(p, "delete") /\ t \in rows => t \in Held(p) /\ Lineage(t) \cap rows \subseteq Hand(p)
      BY <1>0, <1>9, <2>1 DEF RequestInv, LogoutInHand
    <2>3. t \in Token /\ t[2] \in Int
      BY <1>0, <1>9, <2>1, TokenFacts DEF RequestInv, Remembers
    <2>4. ASSUME NEW a \in req[p].todo, a # x
          PROVE  x[2] < a[2]
      <3>1. /\ a \in Token /\ x \in Token /\ a[1] = t[1] /\ x[1] = t[1]
            /\ x[2] \in {t[2] - 1, t[2], t[2] + 1} /\ a[2] \in {t[2] - 1, t[2], t[2] + 1}
        BY <1>1, <2>2, <2>3 DEF Hand, Lineage
      <3>2. a[2] # x[2]
        BY <2>4, <3>1, TokenFacts
      <3>3. CASE At(p, "lock")
        <4>1. x[2] <= a[2]
          BY <1>1, <3>3 DEF NextToLock
        <4>2. x[2] \in Int /\ a[2] \in Int
          BY <3>1, TokenFacts
        <4> QED
          BY <3>2, <4>1, <4>2
      <3>4. CASE At(p, "delete")
        <4>1. t[2] < a[2] /\ t[2] < x[2]
          BY <1>1, <2>2, <3>4
        <4> QED
          BY <2>3, <3>1, <3>2, <4>1
      <3> QED
        BY <1>2, <3>3, <3>4 DEF At
    <2>5. \A a \in req'[p].todo, b \in Held(p)' : b[2] < a[2]
      BY <1>3, <1>6, <2>2, <2>4
    <2>6. Lineage(t)' = Lineage(t)
      BY DEF Lineage
    <2> QED
      BY <1>2, <1>3, <1>5, <1>6, <1>7, <1>9, <2>2, <2>5, <2>6 DEF LogoutInHand, At
  <1>13. UserInHand(p)'
    <2>0. req[p].op \in {"revoke", "reset", "role"} =>
            \A y \in Hand(p)' : owner'[y[1]] = req[p].user
      BY <1>0, <1>2, <1>7 DEF RequestInv, UserInHand
    <2>1. SUFFICES ASSUME req[p].op \in {"reset", "role"}
                   PROVE  UserInHand(p)'
      BY <1>3, <2>0 DEF UserInHand
    <2>2. PICK u : u = req[p].user /\ u = req'[p].user
      BY <1>3
    <2>3. RowsOf(u)' = RowsOf(u) /\ RowsOf(u) \subseteq rows
      BY <1>2, <1>5 DEF RowsOf
    <2>4. At(p, "delete") => RowsOf(u) \subseteq Hand(p)
      BY <1>0, <2>1, <2>2 DEF RequestInv, UserInHand
    <2>5. req[p].pc \in {"held", "delete"} => userLock[u] = p
      BY <1>0, <2>1, <2>2 DEF RequestInv, UserInHand
    <2>6. At(p, "delete") => RowsOf(u)' \subseteq Hand(p)'
      BY <1>7, <2>3, <2>4
    <2> QED
      BY <1>2, <1>3, <2>0, <2>2, <2>5, <2>6 DEF UserInHand, RowsOf, At
  <1> QED
    BY <1>0, <1>2, <1>5, <1>8, <1>10, <1>11, <1>12, <1>13, StepKeepsLogoutInv
    DEF RequestInv

\* The transaction that drops a user's sessions locks the user, then takes
\* every row there is.
LEMMA UserTransactionKeepsLogoutInv ==
  ASSUME LogoutInv, OrderInv', NEW p \in Proc, LockUser(p) \/ DeleteUnderUserLock(p)
  PROVE  LogoutInv'
  <1>0. PICK u : u = req[p].user
    OBVIOUS
  <1>1. /\ TypeOK /\ OrderInv /\ RequestInv(p)
        /\ req[p].pc \in {"userLock", "held"}
        /\ UNCHANGED <<clock, expiresAt, owner, rowLock, ended>>
    BY DEF LockUser, DeleteUnderUserLock, LogoutInv, OrderInv, At
  <1>2. /\ req'[p].op = req[p].op /\ req'[p].tok = req[p].tok /\ req'[p].user = u
        /\ req'[p].pc \in {"held", "delete"}
        /\ \A q \in Proc \ {p} : req'[q] = req[q]
    BY <1>0, <1>1 DEF LockUser, DeleteUnderUserLock, TypeOK, Request
  <1>3. /\ req[p].op \in {"reset", "role"} /\ u \in User /\ req[p].todo = {}
        /\ Held(p) = {} /\ Held(p)' = {}
    BY <1>0, <1>1 DEF RequestInv, InStep, At, Held
  <1>4. \A q \in Proc \ {p} : \A v \in User : userLock'[v] = q <=> userLock[v] = q
    BY <1>0, <1>1, <1>3, SessionConstants DEF LockUser, DeleteUnderUserLock, TypeOK
  <1>5. StepOf(p) /\ DeletedAreSettled /\ rows' = rows
    BY <1>1, <1>2, <1>4, QuietStep DEF At
  <1>6. InStep(p)'
    <2>1. At(p, "held")' => req'[p].todo = {}
      BY <1>0, <1>1, <1>3 DEF LockUser, DeleteUnderUserLock, TypeOK, Request, At
    <2> QED
      BY <1>1, <1>2, <1>3, <2>1 DEF InStep, At
  <1>7. LogoutInHand(p)'
    BY <1>2, <1>3 DEF LogoutInHand
  <1>8. CASE LockUser(p)
    <2>1. req'[p].pc = "held" /\ req'[p].todo = {} /\ userLock'[u] = p
      BY <1>0, <1>1, <1>3, <1>8 DEF LockUser, TypeOK, Request, At
    <2>2. Remembers(p)' /\ NoGaps(p)' /\ UserInHand(p)'
      BY <1>2, <1>3, <2>1 DEF Remembers, NoGaps, UserInHand, Hand, At
    <2> QED
      BY <1>1, <1>5, <1>6, <1>7, <2>2, StepKeepsLogoutInv DEF RequestInv
  <1>9. CASE DeleteUnderUserLock(p)
    <2>1. /\ req'[p].pc = "delete" /\ req'[p].todo = RowsOf(u) /\ userLock' = userLock
          /\ At(p, "held")
      BY <1>0, <1>1, <1>9 DEF DeleteUnderUserLock, TypeOK, Request
    <2>2. userLock'[u] = p
      BY <1>0, <1>1, <1>3, <2>1 DEF RequestInv, UserInHand, At
    <2>3. Hand(p)' = RowsOf(u) /\ RowsOf(u)' = RowsOf(u)
      BY <1>1, <1>3, <1>5, <2>1 DEF Hand, RowsOf
    <2>4. Remembers(p)'
      BY <1>2, <1>3, <1>5, <2>1 DEF Remembers, RowsOf, At
    <2>5. NoGaps(p)'
      BY <1>1, <1>2, <1>3, <1>5, <2>3 DEF NoGaps, RowsOf
    <2>6. UserInHand(p)'
      BY <1>1, <1>2, <1>5, <2>1, <2>2, <2>3 DEF UserInHand, RowsOf
    <2> QED
      BY <1>1, <1>5, <1>6, <1>7, <2>4, <2>5, <2>6, StepKeepsLogoutInv DEF RequestInv
  <1> QED
    BY <1>8, <1>9

\* What a finished DELETE leaves of a lineage below a row that it deletes: a
\* logout's reach ends two generations down, and those are dead.
LEMMA LeftBehindIsOld ==
  ASSUME LogoutInv, NEW p \in Proc, At(p, "delete"), req[p].todo = {},
         NEW s \in Held(p), NEW x \in rows, x \notin Held(p),
         x[1] = s[1], x[2] < s[2]
  PROVE  /\ ~Live(x)
         /\ \A q \in Proc : ~(At(q, "rotate") /\ req[q].tok = x)
  <1>0. PICK t : t = req[p].tok
    OBVIOUS
  <1>1. /\ TypeOK /\ OrderInv /\ FirstGenerations /\ RequestInv(p) /\ Hand(p) = Held(p)
        /\ s \in rows
    BY DEF LogoutInv, OrderInv, RequestInv, InStep, Hand
  <1>2. req[p].op = "logout" /\ x \notin Lineage(t)
    BY <1>0, <1>1 DEF RequestInv, NoGaps, At
  <1>3. /\ t \in Token /\ (t \in rows \/ Settled(t)) /\ s \in Lineage(t)
    BY <1>0, <1>1, <1>2 DEF RequestInv, Remembers, LogoutInHand
  <1>4. /\ x \in Token /\ s \in Token /\ s[1] = t[1] /\ t[2] \in Int /\ x[2] \in Int
        /\ s[2] \in {t[2] - 1, t[2], t[2] + 1}
    BY <1>1, <1>3, RowsAre, TokenFacts DEF Lineage
  <1>5. RotationSecret
    <2>1. SUFFICES ASSUME ~RotationSecret
                   PROVE  FALSE
      OBVIOUS
    <2>2. x[2] = 0 /\ s[2] = 0
      BY <1>1, <2>1 DEF FirstGenerations
    <2> QED
      BY <2>2
  <1>6. x[2] <= t[2] - 2
    <2>1. x[2] \notin {t[2] - 1, t[2], t[2] + 1}
      BY <1>2, <1>4, <1>5 DEF Lineage
    <2> QED
      BY <1>4, <2>1
  <1>7. CASE t \in rows
    <2>1. expiresAt[x] <= clock
      <3>1. x[1] = t[1] /\ x[2] < t[2] /\ t[2] >= x[2] + 2
        BY <1>4, <1>6
      <3> QED
        BY <1>1, <1>7, <3>1 DEF OrderInv, LineageInOrder
    <2>2. expiresAt[x] \in Nat /\ clock \in Nat
      BY <1>1, RowsAre DEF TypeOK
    <2>3. ASSUME NEW q \in Proc, At(q, "rotate"), req[q].tok = x
          PROVE  FALSE
      <3>1. t[1] = x[1] /\ t[2] > x[2]
        BY <1>4, <1>6
      <3>2. t[2] = x[2] + 1
        BY <1>1, <1>7, <2>3, <3>1 DEF OrderInv, RotationInOrder
      <3> QED
        BY <1>4, <1>6, <3>2
    <2> QED
      BY <2>1, <2>2, <2>3 DEF Live
  <1>8. CASE Settled(t)
    <2>1. x[1] = t[1] /\ x[2] < t[2]
      BY <1>4, <1>6
    <2> QED
      BY <1>8, <2>1 DEF Settled, SettledBelow
  <1> QED
    BY <1>3, <1>7, <1>8

\* A finished DELETE has seen every row of the lineages it ends, except what
\* is dead.
LEMMA EndedIsEmpty ==
  ASSUME LogoutInv, NEW p \in Proc, At(p, "delete"), req[p].todo = {},
         NEW c \in EndedBy(p), NEW x \in rows, x \notin Held(p), x[1] = c
  PROVE  /\ ~Live(x)
         /\ \A q \in Proc : ~(At(q, "rotate") /\ req[q].tok = x)
  <1>0. PICK t : t = req[p].tok
    OBVIOUS
  <1>1. /\ TypeOK /\ OrderInv /\ FirstGenerations /\ RequestInv(p) /\ Hand(p) = Held(p)
    BY DEF LogoutInv, OrderInv, Hand
  <1>2. CASE req[p].op \in {"reset", "role"}
    <2>1. owner[c] = req[p].user
      BY <1>2 DEF EndedBy
    <2> QED
      BY <1>1, <1>2, <2>1 DEF RequestInv, UserInHand, RowsOf
  <1>3. CASE req[p].op = "logout" /\ Live(t) /\ c = t[1]
    <2>1. t \in rows /\ t \in Held(p) /\ Lineage(t) \cap rows \subseteq Held(p)
      BY <1>0, <1>1, <1>3 DEF RequestInv, LogoutInHand, Live
    <2>2. x \in Token /\ t \in Token /\ x[1] = t[1] /\ x[2] \in Int /\ t[2] \in Int
          /\ expiresAt[x] \in Nat /\ expiresAt[t] \in Nat /\ clock \in Nat
          /\ expiresAt[t] > clock
      BY <1>1, <1>3, <2>1, RowsAre, TokenFacts DEF TypeOK, Live
    <2>3. RotationSecret
      <3>1. SUFFICES ASSUME ~RotationSecret
                     PROVE  FALSE
        OBVIOUS
      <3>2. x[2] = 0 /\ t[2] = 0
        BY <1>1, <2>1, <3>1 DEF FirstGenerations
      <3>3. x = t
        BY <2>2, <3>2, TokenFacts
      <3> QED
        BY <2>1, <3>3
    <2>4. x[2] <= t[2] - 2 \/ x[2] >= t[2] + 2
      <3>1. x[2] \notin {t[2] - 1, t[2], t[2] + 1}
        BY <2>1, <2>2, <2>3 DEF Lineage
      <3> QED
        BY <2>2, <3>1
    <2>5. CASE x[2] >= t[2] + 2
      <3>1. t[2] < x[2]
        BY <2>2, <2>5
      <3>2. expiresAt[t] <= clock
        BY <1>1, <2>1, <2>2, <2>5, <3>1 DEF OrderInv, LineageInOrder
      <3> QED
        BY <2>2, <3>2
    <2>6. CASE x[2] <= t[2] - 2
      <3>1. x[2] < t[2] /\ t[2] >= x[2] + 2
        BY <2>2, <2>6
      <3>2. expiresAt[x] <= clock
        BY <1>1, <2>1, <2>2, <3>1 DEF OrderInv, LineageInOrder
      <3>3. ASSUME NEW q \in Proc, At(q, "rotate"), req[q].tok = x
            PROVE  FALSE
        <4>1. t[2] > x[2] /\ t[1] = x[1]
          BY <2>2, <2>6
        <4>2. t[2] = x[2] + 1
          BY <1>1, <2>1, <3>3, <4>1 DEF OrderInv, RotationInOrder
        <4> QED
          BY <2>2, <2>6, <4>2
      <3> QED
        BY <2>2, <3>2, <3>3 DEF Live
    <2> QED
      BY <2>4, <2>5, <2>6
  <1> QED
    BY <1>0, <1>2, <1>3 DEF EndedBy

\* A finished DELETE settles what it deletes, and the lineages it ends.
LEMMA CommitDeleteKeepsLogoutInv ==
  ASSUME LogoutInv, OrderInv', NEW p \in Proc, CommitDelete(p)
  PROVE  LogoutInv'
  <1>1. /\ TypeOK /\ OrderInv /\ RequestInv(p) /\ p # NoProc
        /\ At(p, "delete") /\ req[p].todo = {} /\ Unlock(p)
        /\ expiresAt' = Without(Held(p)) /\ ended' = ended \cup EndedBy(p)
        /\ clock' = clock /\ clock \in Nat
    BY SessionConstants DEF CommitDelete, LogoutInv, OrderInv, TypeOK
  <1>2. /\ \A q \in Proc \ {p} :
             /\ \A t \in Token : rowLock'[t] = q <=> rowLock[t] = q
             /\ \A u \in User : userLock'[u] = q <=> userLock[u] = q
        /\ Held(p)' = {} /\ \A u \in User : userLock'[u] # p
        /\ \A t \in Held(p) : t \in rows /\ rowLock[t] = p
    BY <1>1, SessionConstants DEF Unlock, Held, RequestInv, InStep
  <1>3. /\ \A q \in Proc \ {p} : req'[q] = req[q]
        /\ \A c \in Chain : owner[c] # NoUser => owner'[c] = owner[c]
        /\ \/ Finish(p)
           \/ /\ req'[p].op = "login" /\ req'[p].pc = "create" /\ req'[p].todo = {}
              /\ owner[req'[p].tok[1]] = NoUser
              /\ owner'[req'[p].tok[1]] = req'[p].user
    <2>1. CASE Finish(p) /\ UNCHANGED owner
      BY <1>1, <2>1, FinishFacts
    <2>2. ASSUME NEW c \in Fresh, owner' = [owner EXCEPT ![c] = req[p].user],
                 Begin(p, "login", "create", <<c, 0>>, req[p].user, {})
          PROVE  /\ \A q \in Proc \ {p} : req'[q] = req[q]
                 /\ \A d \in Chain : owner[d] # NoUser => owner'[d] = owner[d]
                 /\ req'[p].op = "login" /\ req'[p].pc = "create" /\ req'[p].todo = {}
                 /\ owner[req'[p].tok[1]] = NoUser
                 /\ owner'[req'[p].tok[1]] = req'[p].user
      BY <1>1, <2>2 DEF Begin, Fresh, TypeOK
    <2> QED
      BY <2>1, <2>2 DEF CommitDelete
  <1>4. ~At(p, "rotate")' /\ (At(p, "create")' => owner[req'[p].tok[1]] = NoUser)
    BY <1>1, <1>3, FinishFacts DEF At
  <1>5. StepOf(p) /\ rows' = rows \ Held(p)
    BY <1>1, <1>2, <1>3, <1>4, DeletingStep
  <1>6. RequestInv(p)'
    <2>1. CASE Finish(p)
      BY <1>1, <1>2, <2>1, AnsweredIsSound
    <2>2. CASE /\ req'[p].op = "login" /\ req'[p].pc = "create" /\ req'[p].todo = {}
               /\ owner'[req'[p].tok[1]] = req'[p].user
      <3>1. InStep(p)' /\ Remembers(p)' /\ NoGaps(p)'
        BY <1>2, <2>2 DEF InStep, Remembers, NoGaps, At
      <3>2. LogoutInHand(p)' /\ UserInHand(p)'
        BY <2>2 DEF LogoutInHand, UserInHand
      <3> QED
        BY <3>1, <3>2 DEF RequestInv
    <2> QED
      BY <1>3, <2>1, <2>2
  <1>7. ASSUME NEW c \in Chain, owner[c] # NoUser, NEW g \in Int,
               \A q \in Proc : At(q, "create") => req[q].tok[1] # c,
               \A x \in rows : x \notin Held(p) /\ x[1] = c /\ x[2] < g =>
                 ~Live(x) /\ \A q \in Proc : ~(At(q, "rotate") /\ req[q].tok = x)
        PROVE  SettledBelow(c, g)'
    <2>1. owner'[c] # NoUser /\ \A q \in Proc : At(q, "create")' => req'[q].tok[1] # c
      BY <1>3, <1>4, <1>7 DEF At
    <2>2. \A x \in rows' : x[1] = c /\ x[2] < g => ~Live(x)'
      <3>1. \A x \in rows' : x \in rows /\ x \notin Held(p) /\ expiresAt'[x] = expiresAt[x]
        BY <1>1, <1>5, RowsAre DEF Without
      <3> QED
        BY <1>1, <1>7, <3>1 DEF Live
    <2>3. ASSUME NEW q \in Proc, At(q, "rotate")', req'[q].tok[1] = c, req'[q].tok[2] < g
          PROVE  FALSE
      <3>1. q # p /\ At(q, "rotate") /\ req'[q].tok = req[q].tok
        BY <1>3, <1>4, <2>3 DEF At
      <3>2. req[q].tok \in rows /\ rowLock[req[q].tok] = q
        BY <1>1, <3>1 DEF OrderInv, RotationInOrder
      <3>3. req[q].tok \notin Held(p)
        BY <3>1, <3>2 DEF Held
      <3> QED
        BY <1>7, <2>3, <3>1, <3>2, <3>3
    <2> QED
      BY <2>1, <2>2, <2>3 DEF SettledBelow
  <1>8. DeletedAreSettled
    <2>1. ASSUME NEW s \in Held(p)
          PROVE  SettledBelow(s[1], s[2])'
      <3>1. s \in rows /\ s[1] \in Chain /\ s[2] \in Int
        BY <1>2, RowsAre, TokenFacts
      <3>2. owner[s[1]] # NoUser /\ \A q \in Proc : At(q, "create") => req[q].tok[1] # s[1]
        BY <1>1, <3>1 DEF OrderInv, NewLineagesAreEmpty
      <3>3. \A x \in rows : x \notin Held(p) /\ x[1] = s[1] /\ x[2] < s[2] =>
              ~Live(x) /\ \A q \in Proc : ~(At(q, "rotate") /\ req[q].tok = x)
        BY <1>1, LeftBehindIsOld
      <3> QED
        BY <1>7, <3>1, <3>2, <3>3
    <2> QED
      BY <1>5, <2>1 DEF DeletedAreSettled, Settled
  <1>9. ASSUME NEW c \in EndedBy(p)
        PROVE  SettledBelow(c, MaxGen + 1)'
    <2>1. c \in Chain /\ MaxGen + 1 \in Int
      BY SessionConstants DEF EndedBy
    <2>2. owner[c] # NoUser /\ \A q \in Proc : At(q, "create") => req[q].tok[1] # c
      <3>1. CASE req[p].op = "logout" /\ Live(req[p].tok) /\ c = req[p].tok[1]
        BY <1>1, <3>1 DEF OrderInv, NewLineagesAreEmpty, Live
      <3>2. CASE req[p].op \in {"reset", "role"}
        BY <1>1, <3>2, SessionConstants DEF EndedBy, RequestInv, InStep, At
      <3> QED
        BY <3>1, <3>2 DEF EndedBy
    <2>3. \A x \in rows : x \notin Held(p) /\ x[1] = c /\ x[2] < MaxGen + 1 =>
            ~Live(x) /\ \A q \in Proc : ~(At(q, "rotate") /\ req[q].tok = x)
      BY <1>1, EndedIsEmpty
    <2> QED
      BY <1>7, <2>1, <2>2, <2>3
  <1> QED
    BY <1>1, <1>5, <1>6, <1>8, <1>9, StepKeepsLogoutInv

\* Time only makes sessions older.
LEMMA TickKeepsLogoutInv ==
  ASSUME LogoutInv, OrderInv', clock' \in Nat, clock <= clock',
         UNCHANGED <<expiresAt, owner, rowLock, userLock, req, ended>>
  PROVE  LogoutInv'
  <1>1. OrderInv /\ FirstGenerations /\ rows' = rows /\ clock \in Nat
        /\ \A t \in rows : expiresAt[t] \in Nat
    BY RowsAre DEF LogoutInv, OrderInv, TypeOK, rows
  <1>2. ASSUME NEW c, NEW g, SettledBelow(c, g)
        PROVE  SettledBelow(c, g)'
    BY <1>1, <1>2 DEF SettledBelow, Live, At
  <1>3. ASSUME NEW q \in Proc
        PROVE  RequestInv(q)'
    <2>1. StepOf(q) /\ Untouched(q)
      BY <1>1 DEF StepOf, Untouched, RowMoves, At
    <2>2. DeletedAreSettled
      BY <1>1 DEF DeletedAreSettled
    <2> QED
      BY <1>1, <2>1, <2>2, OthersStay
  <1>4. EndedAreSettled'
    <2>1. SUFFICES ASSUME NEW c \in ended
                   PROVE  SettledBelow(c, MaxGen + 1)'
      BY DEF EndedAreSettled
    <2>2. SettledBelow(c, MaxGen + 1)
      BY DEF LogoutInv, EndedAreSettled
    <2> QED
      BY <1>2, <2>2
  <1>5. FirstGenerations'
    BY <1>1 DEF FirstGenerations
  <1> QED
    BY <1>3, <1>4, <1>5 DEF LogoutInv

\* The invariant holds at first, when there is no row and no request.
THEOREM InitLogoutInv == Init => LogoutInv
  <1> SUFFICES ASSUME Init
               PROVE  LogoutInv
    OBVIOUS
  <1>1. OrderInv
    BY InitOrderInv
  <1>2. rows = {} /\ ended = {}
    BY DEF Init, rows
  <1>3. ASSUME NEW p \in Proc
        PROVE  RequestInv(p)
    <2>1. /\ req[p].op = "none" /\ req[p].pc = "idle" /\ req[p].todo = {}
          /\ Held(p) = {} /\ \A u \in User : userLock[u] # p
      BY <1>1, RequestFacts DEF Init, Idle, Held, OrderInv
    <2>2. InStep(p) /\ Remembers(p) /\ NoGaps(p)
      BY <2>1 DEF InStep, Remembers, NoGaps, At
    <2>3. LogoutInHand(p) /\ UserInHand(p)
      BY <2>1 DEF LogoutInHand, UserInHand
    <2> QED
      BY <2>2, <2>3 DEF RequestInv
  <1> QED
    BY <1>1, <1>2, <1>3 DEF LogoutInv, FirstGenerations, EndedAreSettled

\* Every step keeps it.
THEOREM NextLogoutInv == LogoutInv /\ [Next]_vars => LogoutInv'
  <1> SUFFICES ASSUME LogoutInv, [Next]_vars
               PROVE  LogoutInv'
    OBVIOUS
  <1>1. OrderInv' /\ clock \in Nat
    BY NextOrderInv DEF LogoutInv, OrderInv, TypeOK
  <1>2. CASE Tick \/ UNCHANGED vars
    <2>1. /\ clock' \in Nat /\ clock <= clock'
          /\ UNCHANGED <<expiresAt, owner, rowLock, userLock, req, ended>>
      BY <1>1, <1>2 DEF Tick, vars
    <2> QED
      BY <1>1, <2>1, TickKeepsLogoutInv
  <1>3. ASSUME NEW p \in Proc, Start(p)
        PROVE  LogoutInv'
    BY <1>1, <1>3, StartKeepsLogoutInv
  <1>4. ASSUME NEW p \in Proc, Continue(p)
        PROVE  LogoutInv'
    BY <1>1, <1>4, CreateSessionKeepsLogoutInv, PurgeKeepsLogoutInv,
       LockForRotationKeepsLogoutInv, RotateKeepsLogoutInv, SelectingKeepsLogoutInv,
       AcquireKeepsLogoutInv, UserTransactionKeepsLogoutInv, CommitDeleteKeepsLogoutInv
    DEF Continue
  <1> QED
    BY <1>2, <1>3, <1>4 DEF Next

\* What is known of every request, of the deleted rows and of the ended
\* lineages, in every reachable state.
THEOREM RequestsAreInOrder == Spec => []LogoutInv
  BY InitLogoutInv, NextLogoutInv, PTL DEF Spec

\* A logout of a live token, a password reset and a role change end every
\* session of the lineages they are about, for good, whatever rotation, login
\* or deletion is in flight (users.service.ts:529-561, 674-708).
THEOREM LogoutsAreFinal == Spec => []EndedLineagesStayDead
  <1>1. LogoutInv => EndedLineagesStayDead
    <2>1. SUFFICES ASSUME LogoutInv, NEW t \in rows, t[1] \in ended
                   PROVE  ~Live(t)
      BY DEF EndedLineagesStayDead
    <2>2. t[2] \in Int /\ t[2] < MaxGen + 1
      BY RowsAre, TokenFacts, SessionConstants
    <2> QED
      BY <2>1, <2>2 DEF LogoutInv, EndedAreSettled, SettledBelow
  <1> QED
    BY <1>1, RequestsAreInOrder, PTL

\* The replacement that a rotation hands out is there and unexpired: it was
\* found so or has just been inserted, and the transaction is short
\* (users.service.ts:502-526).
THEOREM HandedOutTokensAreLive == Spec => HandedOutTokenIsLive
  <1>1. ASSUME OrderInv, OrderInv', [Next]_vars, NEW p \in Proc, At(p, "rotate"),
               At(p, "idle")', ~Deadlocked(p)
        PROVE  \E t \in Token : t = Replacement(req[p].tok) /\ Live(t)'
    <2>1. PICK t, r, n : t = req[p].tok /\ r = Replacement(t) /\ n = req[p].now
      OBVIOUS
    <2>2. /\ TypeOK /\ t \in Token /\ t[2] < MaxGen /\ n \in Nat /\ t \in rows
          /\ n <= clock /\ clock <= n + TxTime /\ clock \in Nat
      BY <1>1, <2>1, RequestFacts DEF OrderInv, RotatedTokens, RotationInOrder, TypeOK
    <2>3. r \in Token /\ r # t /\ r[1] = t[1] /\ r[2] = t[2] + 1 /\ r[2] > t[2]
      <3>1. r \in Token /\ t[2] \in Int
        BY <2>1, <2>2, TokenFacts
      <3>2. r[1] = t[1] /\ r[2] = t[2] + 1
        BY <2>1 DEF Replacement
      <3> QED
        BY <3>1, <3>2
    <2>4. r \in rows => expiresAt[r] \in Nat /\ expiresAt[r] > n + TxTime + Window
      BY <1>1, <2>1, <2>2, <2>3, RowsAre DEF OrderInv, RotationInOrder, TypeOK
    <2>5. ReissueReplacement(p) \/ MintReplacement(p)
      <3>1. req'[p] # req[p]
        BY <1>1 DEF At
      <3>2. \A q \in Proc \ {p} : ~(Start(q) \/ Continue(q))
        <4>1. ASSUME NEW q \in Proc \ {p}, Start(q) \/ Continue(q)
              PROVE  req'[p] = req[p]
          BY <4>1, <2>2 DEF Start, Continue, Login, RevokeAll, OpenUserTransaction,
             ResolveExpired, ResolveAgeing, Logout, CreateSession, PurgeExpired,
             LockForRotation, RotationNotNeeded, ReissueReplacement, MintReplacement,
             SelectLineage, LockLineage, DeleteLineage, LockUser, DeleteUnderUserLock,
             DeleteNextRow, CommitDelete, AbortDeadlocked, Acquire, Begin, Finish, TypeOK
        <4> QED
          BY <3>1, <4>1
      <3>3. Start(p) \/ Continue(p)
        BY <1>1, <3>1, <3>2 DEF Next, Tick, vars
      <3> QED
        BY <1>1, <3>3 DEF Start, Continue, Login, RevokeAll, OpenUserTransaction,
           ResolveExpired, ResolveAgeing, Logout, CreateSession, PurgeExpired,
           LockForRotation, RotationNotNeeded, SelectLineage, LockLineage,
           DeleteLineage, LockUser, DeleteUnderUserLock, DeleteNextRow, CommitDelete,
           AbortDeadlocked, At
    <2>6. clock' = clock
      BY <2>5 DEF ReissueReplacement, MintReplacement
    <2>7. r \in rows' /\ expiresAt'[r] > clock
      <3>1. CASE r \in rows /\ expiresAt'[r] = expiresAt[r]
        <4>1. expiresAt[r] > clock
          BY <2>2, <2>4, <3>1, SessionConstants
        <4> QED
          BY <2>3, <3>1, <4>1 DEF rows
      <3>2. CASE expiresAt'[r] = n + TTL
        <4>1. n + TTL > clock /\ n + TTL # NoRow
          BY <2>2, SessionConstants, RotationsAreFarApart DEF NoRow
        <4> QED
          BY <2>3, <3>2, <4>1 DEF rows
      <3>3. CASE ReissueReplacement(p)
        BY <2>1, <3>1, <3>3 DEF ReissueReplacement, HasActiveReplacement
      <3>4. CASE MintReplacement(p)
        <4>1. CASE HasActiveReplacement(p)
          <5>1. r \in rows /\ expiresAt' = [expiresAt EXCEPT ![r] = @, ![t] = n + Grace]
            BY <2>1, <3>4, <4>1 DEF MintReplacement, HasActiveReplacement
          <5> QED
            BY <2>2, <2>3, <3>1, <5>1 DEF TypeOK
        <4>2. CASE ~HasActiveReplacement(p)
          <5>1. expiresAt' = [expiresAt EXCEPT ![r] = n + TTL, ![t] = n + Grace]
            BY <2>1, <3>4, <4>2 DEF MintReplacement
          <5> QED
            BY <2>2, <2>3, <3>2, <5>1 DEF TypeOK
        <4> QED
          BY <4>1, <4>2
      <3> QED
        BY <2>5, <3>3, <3>4
    <2> QED
      BY <2>1, <2>3, <2>6, <2>7 DEF Live
  <1>2. OrderInv /\ OrderInv' /\ [Next]_vars =>
          [\A p \in Proc : At(p, "rotate") /\ At(p, "idle")' /\ ~Deadlocked(p)
             => \E t \in Token : t = Replacement(req[p].tok) /\ Live(t)']_vars
    BY <1>1
  <1>3. Spec => []OrderInv
    BY InitOrderInv, NextOrderInv, PTL DEF Spec
  <1> QED
    BY <1>2, <1>3, PTL DEF Spec, HandedOutTokenIsLive

\* A session disappears only because it expired, or its own lineage was logged
\* out, or its own user's sessions were dropped, or, renewed for the grace
\* period after it was found expired, because its replacement serves
\* (users.service.ts:445-449, 527-561).
THEOREM SiblingsStay == Spec => OnlyOwnSessionsAreDeleted
  <1>1. ASSUME LogoutInv, [Next]_vars, NEW t \in rows, t \notin rows'
        PROVE  \/ expiresAt[t] <= clock
               \/ \E p \in Proc :
                    \/ req[p].op = "logout" /\ req[p].tok[1] = t[1]
                    \/ req[p].op \in {"revoke", "reset", "role"}
                       /\ req[p].user = owner[t[1]]
                    \/ At(p, "purge") /\ req[p].tok = t /\ Live(Replacement(t))
    <2>1. /\ TypeOK /\ OrderInv /\ t \in Token /\ expiresAt[t] \in Nat /\ clock \in Nat
      BY <1>1, RowsAre DEF LogoutInv, OrderInv, TypeOK
    <2>2. PICK S : expiresAt' = Without(S) /\ t \in S /\ \E p \in Proc :
            \/ PurgeExpired(p) /\ S = {req[p].tok}
            \/ RotationNotNeeded(p) /\ S = {req[p].tok} /\ ~Live(req[p].tok)
            \/ CommitDelete(p) /\ S = Held(p)
            \/ S = {t} /\ expiresAt[t] < clock
      <3>1. ASSUME expiresAt' = expiresAt
            PROVE  FALSE
        BY <1>1, <3>1 DEF rows
      <3>2. ASSUME NEW S, expiresAt' = Without(S)
            PROVE  t \in S
        BY <1>1, <2>1, <3>2 DEF Without, rows
      <3>3. ASSUME NEW s \in Token, NEW m \in Nat, expiresAt' = [expiresAt EXCEPT ![s] = m]
            PROVE  FALSE
        BY <1>1, <2>1, <3>3 DEF rows, NoRow, TypeOK
      <3>4. PICK p \in Proc : Start(p) \/ Continue(p)
        BY <1>1, <3>1 DEF Next, Tick, vars
      <3>5. CASE Start(p)
        <4>1. PICK s \in Token : Logout(p, s)
          BY <3>1, <3>5 DEF Start, Login, RevokeAll, OpenUserTransaction, ResolveExpired,
             ResolveAgeing
        <4>2. expiresAt' = Without({s}) /\ expiresAt[s] < clock
          BY <3>1, <4>1 DEF Logout
        <4> QED
          BY <3>2, <4>2
      <3>6. CASE Continue(p)
        <4>1. ~CreateSession(p)
          <5>1. ASSUME CreateSession(p)
                PROVE  req[p].tok \in Token /\ req[p].now + TTL \in Nat
            BY <2>1, <5>1, RequestFacts, SessionConstants
            DEF CreateSession, OrderInv, NewLineagesAreEmpty
          <5> QED
            BY <3>3, <5>1 DEF CreateSession
        <4>2. ~MintReplacement(p)
          <5>1. SUFFICES ASSUME MintReplacement(p)
                         PROVE  t \in rows'
            BY <1>1
          <5>2. PICK x, r, n : x = req[p].tok /\ r = Replacement(x) /\ n = req[p].now
            OBVIOUS
          <5>3. n + TTL \in Nat /\ n + Grace \in Nat
            BY <2>1, <5>2, RequestFacts, SessionConstants
          <5>4. CASE HasActiveReplacement(p)
            <6>1. expiresAt' = [expiresAt EXCEPT ![r] = @, ![x] = n + Grace]
              BY <5>1, <5>2, <5>4 DEF MintReplacement
            <6> QED
              BY <1>1, <2>1, <5>3, <6>1 DEF rows, NoRow, TypeOK
          <5>5. CASE ~HasActiveReplacement(p)
            <6>1. expiresAt' = [expiresAt EXCEPT ![r] = n + TTL, ![x] = n + Grace]
              BY <5>1, <5>2, <5>5 DEF MintReplacement
            <6> QED
              BY <1>1, <2>1, <5>3, <6>1 DEF rows, NoRow, TypeOK
          <5> QED
            BY <5>4, <5>5
        <4>3. PurgeExpired(p) \/ RotationNotNeeded(p) \/ CommitDelete(p)
          BY <3>1, <3>6, <4>1, <4>2 DEF Continue, LockForRotation, ReissueReplacement,
             SelectLineage, LockLineage, DeleteLineage, LockUser, DeleteUnderUserLock,
             DeleteNextRow, AbortDeadlocked, Acquire
        <4>4. CASE PurgeExpired(p)
          <5>1. expiresAt' = Without({req[p].tok})
            BY <4>4 DEF PurgeExpired
          <5> QED
            BY <3>2, <4>4, <5>1
        <4>5. CASE RotationNotNeeded(p)
          <5>1. ~Live(req[p].tok) /\ expiresAt' = Without({req[p].tok})
            BY <3>1, <4>5 DEF RotationNotNeeded
          <5> QED
            BY <3>2, <4>5, <5>1
        <4>6. CASE CommitDelete(p)
          BY <3>2, <4>6 DEF CommitDelete
        <4> QED
          BY <4>3, <4>4, <4>5, <4>6
      <3> QED
        BY <3>4, <3>5, <3>6
    <2>3. PICK p \in Proc :
            \/ PurgeExpired(p) /\ S = {req[p].tok}
            \/ RotationNotNeeded(p) /\ S = {req[p].tok} /\ ~Live(req[p].tok)
            \/ CommitDelete(p) /\ S = Held(p)
            \/ S = {t} /\ expiresAt[t] < clock
      BY <2>2
    <2>4. RequestInv(p)
      BY <1>1 DEF LogoutInv
    <2>5. CASE PurgeExpired(p) /\ S = {req[p].tok}
      <3>1. At(p, "purge") /\ req[p].tok = t
        BY <2>2, <2>5 DEF PurgeExpired
      <3>2. CASE expiresAt[t] > clock
        <4>1. Live(t)
          BY <1>1, <3>2 DEF Live
        <4>2. Replacement(t) \in rows
          BY <2>4, <3>1, <4>1 DEF RequestInv, Remembers
        <4>3. Replacement(t)[1] = t[1] /\ t[2] < Replacement(t)[2]
          <5>1. t[2] \in Int
            BY <2>1, TokenFacts
          <5> QED
            BY <5>1 DEF Replacement
        <4>4. expiresAt[t] <= expiresAt[Replacement(t)] /\ expiresAt[Replacement(t)] \in Nat
          BY <1>1, <2>1, <4>2, <4>3, RowsAre DEF OrderInv, LineageInOrder, TypeOK
        <4> QED
          BY <2>1, <3>1, <3>2, <4>2, <4>4 DEF Live
      <3> QED
        BY <2>1, <3>2
    <2>6. CASE RotationNotNeeded(p) /\ S = {req[p].tok} /\ ~Live(req[p].tok)
      <3>1. ~Live(t)
        BY <2>2, <2>6
      <3> QED
        BY <1>1, <2>1, <3>1 DEF Live
    <2>7. CASE CommitDelete(p) /\ S = Held(p)
      <3>1. At(p, "delete") /\ t \in Hand(p)
        BY <2>2, <2>7 DEF CommitDelete, Hand
      <3>2. req[p].op \in {"logout", "revoke", "reset", "role"}
        BY <2>4, <3>1 DEF RequestInv, InStep, At
      <3>3. CASE req[p].op = "logout"
        BY <2>4, <3>1, <3>3 DEF RequestInv, LogoutInHand, Lineage
      <3>4. CASE req[p].op \in {"revoke", "reset", "role"}
        BY <2>4, <3>1, <3>4 DEF RequestInv, UserInHand
      <3> QED
        BY <3>2, <3>3, <3>4
    <2>8. CASE S = {t} /\ expiresAt[t] < clock
      BY <2>1, <2>8
    <2> QED
      BY <2>3, <2>5, <2>6, <2>7, <2>8
  <1>2. LogoutInv /\ [Next]_vars =>
          [\A t \in rows \ rows' :
             \/ expiresAt[t] <= clock
             \/ \E p \in Proc :
                  \/ req[p].op = "logout" /\ req[p].tok[1] = t[1]
                  \/ req[p].op \in {"revoke", "reset", "role"}
                     /\ req[p].user = owner[t[1]]
                  \/ At(p, "purge") /\ req[p].tok = t /\ Live(Replacement(t))]_vars
    BY <1>1
  <1> QED
    BY <1>2, RequestsAreInOrder, PTL DEF Spec, OnlyOwnSessionsAreDeleted

\* A set of tokens has one of the highest generation.
LEMMA LatestToken ==
  ASSUME NEW W \in SUBSET Token, W # {}
  PROVE  \E x \in W : \A y \in W : y[2] <= x[2]
  <1> DEFINE T == {MaxGen - x[2] : x \in W}
  <1>1. \A x \in W : x[2] \in Int /\ x[2] <= MaxGen /\ MaxGen - x[2] \in Nat
    BY TokenFacts, SessionConstants
  <1>2. T \subseteq Nat /\ T # {}
    BY <1>1
  <1>3. PICK m \in T : \A n \in T : ~(<<n, m>> \in OpToRel(<, Nat))
    BY <1>2, NatLessThanWellFounded, WFMin, Zenon
  <1>4. ASSUME NEW n \in T
        PROVE  m <= n
    <2>1. n \in Nat /\ m \in Nat
      BY <1>2
    <2>2. n < m => <<n, m>> \in OpToRel(<, Nat)
      BY <2>1 DEF OpToRel
    <2>3. ~(n < m)
      BY <1>3, <2>2, Zenon
    <2> QED
      BY <2>1, <2>3
  <1>5. PICK x \in W : m = MaxGen - x[2]
    OBVIOUS
  <1>6. ASSUME NEW y \in W
        PROVE  y[2] <= x[2]
    <2>1. m <= MaxGen - y[2]
      BY <1>4
    <2> QED
      BY <1>1, <1>5, <2>1, SessionConstants
  <1> QED
    BY <1>6

\* Rotations and logouts never wait for each other in a cycle: who holds a row
\* and waits for another holds an earlier generation of the same lineage, so a
\* wait for the latest row that is waited for leads out of the cycle
\* (users.service.ts:549-550, session-rotation.spec.ts:352).
THEOREM LogoutsNeverDeadlock == Spec => []NoLogoutDeadlock
  <1>1. LogoutInv => NoLogoutDeadlock
    <2>1. SUFFICES ASSUME LogoutInv,
                          NEW S \in SUBSET {p \in Proc : req[p].op \in {"resolve", "logout"}},
                          S # {}, \A a \in S : \E b \in S : WaitsFor(a, b)
                   PROVE  FALSE
      BY DEF NoLogoutDeadlock
    <2> DEFINE Wanted == {x \in Token : \E a \in S, b \in S : rowLock[x] = b /\ WantsRow(a, x)}
    <2>2. ASSUME NEW a \in S, NEW b \in S, WaitsFor(a, b)
          PROVE  \E x \in Wanted : rowLock[x] = b /\ WantsRow(a, x)
      <3>1. \A u \in User : userLock[u] # b
        BY <2>1 DEF LogoutInv, RequestInv, InStep
      <3> QED
        BY <2>2, <3>1 DEF WaitsFor
    <2>3. Wanted # {}
      BY <2>1, <2>2
    <2>4. PICK x \in Wanted : \A y \in Wanted : y[2] <= x[2]
      <3>1. Wanted \in SUBSET Token
        OBVIOUS
      <3> HIDE DEF Wanted
      <3> QED
        BY <2>3, <3>1, LatestToken
    <2>5. PICK b \in S : rowLock[x] = b
      OBVIOUS
    <2>6. PICK c \in S : WaitsFor(b, c)
      BY <2>1
    <2>7. PICK y \in Wanted : WantsRow(b, y)
      BY <2>2, <2>6
    <2>8. x \in Held(b) /\ RequestInv(b) /\ req[b].op \in {"resolve", "logout"}
      BY <2>1, <2>5 DEF Held, LogoutInv
    <2>9. req[b].op = "logout" /\ y \in req[b].todo
      BY <2>7, <2>8 DEF RequestInv, InStep, WantsRow, NextToLock, At
    <2>10. x[2] < y[2]
      BY <2>8, <2>9 DEF RequestInv, LogoutInHand
    <2>11. x[2] \in Int /\ y[2] \in Int /\ y[2] <= x[2]
      BY <2>4, TokenFacts
    <2> QED
      BY <2>10, <2>11
  <1> QED
    BY <1>1, RequestsAreInOrder, PTL
=============================================================================
