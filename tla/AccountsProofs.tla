--------------------------- MODULE AccountsProofs ---------------------------
(***************************************************************************)
(* Proofs about Accounts for every number of requests, users, tokens and   *)
(* avatars.                                                                *)
(***************************************************************************)
EXTENDS Accounts, FiniteSetTheorems, TLAPS

-----------------------------------------------------------------------------
(* Rows and requests.                                                      *)

\* The columns of a row.
LEMMA AccountFields ==
  ASSUME NEW a \in Account
  PROVE  /\ a["verified"] \in BOOLEAN /\ a["role"] \in Role
         /\ a["verifyToken"] \in Token \cup {None}
         /\ a["resetToken"] \in Token \cup {None}
         /\ a["avatar"] \in Key \cup {None}
  BY DEF Account

\* An UPDATE changes the columns it names and leaves the others.
LEMMA UpdatedIs ==
  ASSUME NEW row \in Account, NEW new \in Account, NEW cols \in SUBSET Columns
  PROVE  /\ Updated(row, new, cols) \in Account
         /\ \A c \in Columns :
              Updated(row, new, cols)[c] = IF c \in cols THEN new[c] ELSE row[c]
  <1> DEFINE value(c) == IF c \in cols THEN new[c] ELSE row[c]
  <1>1. /\ value("verified") \in BOOLEAN /\ value("role") \in Role
        /\ value("verifyToken") \in Token \cup {None}
        /\ value("resetToken") \in Token \cup {None}
        /\ value("avatar") \in Key \cup {None}
    BY AccountFields
  <1> HIDE DEF value
  <1>2. Updated(row, new, cols) =
          [verified |-> value("verified"), verifyToken |-> value("verifyToken"),
           resetToken |-> value("resetToken"), role |-> value("role"),
           avatar |-> value("avatar")]
    BY DEF Updated, value
  <1>3. Updated(row, new, cols) \in Account
    BY <1>1, <1>2 DEF Account
  <1>4. /\ Updated(row, new, cols)["verified"] = value("verified")
        /\ Updated(row, new, cols)["verifyToken"] = value("verifyToken")
        /\ Updated(row, new, cols)["resetToken"] = value("resetToken")
        /\ Updated(row, new, cols)["role"] = value("role")
        /\ Updated(row, new, cols)["avatar"] = value("avatar")
    BY <1>2
  <1>5. \A c \in Columns : Updated(row, new, cols)[c] = value(c)
    BY <1>4 DEF Columns
  <1> QED
    BY <1>3, <1>5 DEF value

\* Rows that are changed in one column.
LEMMA RowsWithOneChange ==
  ASSUME NEW a \in Account
  PROVE  /\ \A v \in BOOLEAN : LET b == [a EXCEPT !.verified = v] IN
              b \in Account /\ \A c \in Columns \ {"verified"} : b[c] = a[c]
         /\ \A t \in Token \cup {None} : LET b == [a EXCEPT !.verifyToken = t] IN
              /\ b \in Account /\ b["verifyToken"] = t
              /\ \A c \in Columns \ {"verifyToken"} : b[c] = a[c]
         /\ \A t \in Token \cup {None} : LET b == [a EXCEPT !.resetToken = t] IN
              /\ b \in Account /\ b["resetToken"] = t
              /\ \A c \in Columns \ {"resetToken"} : b[c] = a[c]
         /\ \A r \in Role : LET b == [a EXCEPT !.role = r] IN
              /\ b \in Account /\ b["role"] = r
              /\ \A c \in Columns \ {"role"} : b[c] = a[c]
         /\ \A k \in Key \cup {None} : LET b == [a EXCEPT !.avatar = k] IN
              /\ b \in Account /\ b["avatar"] = k
              /\ \A c \in Columns \ {"avatar"} : b[c] = a[c]
  BY DEF Account, Columns

\* A new row.
LEMMA NewAccountIs ==
  /\ NewAccount \in Account
  /\ NewAccount["verifyToken"] = None /\ NewAccount["resetToken"] = None
  /\ NewAccount["avatar"] = None /\ NewAccount["role"] = "user"
  BY DEF NewAccount, Account, Role

LEMMA IdleIs ==
  /\ Idle \in Request /\ Idle.pc = "idle" /\ Idle.user = NoUser /\ Idle.actor = NoUser
  /\ Idle.role = "user" /\ Idle.entity = NewAccount /\ Idle.own = {}
  /\ Idle.differ = {} /\ Idle.key = None /\ Idle.token = None
  BY NewAccountIs DEF Idle, Request, Role

\* The requests that actions make.
RegisterOf(u) == [Idle EXCEPT !.pc = "register", !.user = u]
SaveOf(u, e, own, t) ==
  [Idle EXCEPT !.pc = "save", !.user = u, !.entity = e, !.own = own, !.token = t]
UploadOf(u, e, own, k) ==
  [Idle EXCEPT !.pc = "upload", !.user = u, !.entity = e, !.own = own, !.key = k]
CleanOf(k) == [Idle EXCEPT !.pc = "clean", !.key = k]
RoleOf(u, a, role) ==
  [Idle EXCEPT !.pc = "role", !.user = u, !.actor = a, !.role = role]

LEMMA RegisterRequest ==
  ASSUME NEW u \in User, NEW r, r = RegisterOf(u)
  PROVE  /\ r \in Request /\ r.pc = "register" /\ r.user = u
         /\ r.entity = NewAccount /\ r.key = None /\ r.token = None
  BY IdleIs DEF Request, RegisterOf

LEMMA SaveRequest ==
  ASSUME NEW u \in User, NEW e \in Account, NEW own \in SUBSET Columns,
         NEW t \in Token \cup {None}, NEW r, r = SaveOf(u, e, own, t)
  PROVE  /\ r \in Request /\ r.pc = "save" /\ r.user = u /\ r.entity = e
         /\ r.own = own /\ r.key = None /\ r.token = t
  BY IdleIs DEF Request, SaveOf

LEMMA UploadRequest ==
  ASSUME NEW u \in User, NEW e \in Account, NEW own \in SUBSET Columns,
         NEW k \in Key \cup {None}, NEW r, r = UploadOf(u, e, own, k)
  PROVE  /\ r \in Request /\ r.pc = "upload" /\ r.user = u /\ r.entity = e
         /\ r.own = own /\ r.key = k /\ r.token = None
  BY IdleIs DEF Request, UploadOf

LEMMA CleanRequest ==
  ASSUME NEW k \in Key \cup {None}, NEW r, r = CleanOf(k)
  PROVE  /\ r \in Request /\ r.pc = "clean" /\ r.user = NoUser
         /\ r.entity = NewAccount /\ r.key = k /\ r.token = None
  BY IdleIs DEF Request, CleanOf

LEMMA RoleRequest ==
  ASSUME NEW u \in User, NEW a \in User, NEW role \in Role, NEW r, r = RoleOf(u, a, role)
  PROVE  /\ r \in Request /\ r.pc = "role" /\ r.user = u /\ r.role = role
         /\ r.entity = NewAccount /\ r.key = None /\ r.token = None
  BY IdleIs DEF Request, RoleOf

\* How they go on.
Saving(r, e) == [r EXCEPT !.pc = "save", !.entity = e]
Writing(r, d, e) == [r EXCEPT !.pc = "write", !.differ = d, !.entity = e]

LEMMA SaveNext ==
  ASSUME NEW r \in Request, NEW e \in Account, NEW s, s = Saving(r, e)
  PROVE  /\ s \in Request /\ s.pc = "save" /\ s.user = r.user /\ s.entity = e
         /\ s.own = r.own /\ s.key = r.key /\ s.token = r.token
  BY DEF Request, Saving

LEMMA WriteNext ==
  ASSUME NEW r \in Request, NEW e \in Account, NEW d \in SUBSET Columns, NEW s,
         s = Writing(r, d, e)
  PROVE  /\ s \in Request /\ s.pc = "write" /\ s.user = r.user /\ s.entity = e
         /\ s.own = r.own /\ s.differ = d /\ s.key = r.key /\ s.token = r.token
  BY DEF Request, Writing

LEMMA ChangeNext ==
  ASSUME NEW r \in Request, NEW s, s = [r EXCEPT !.pc = "change"]
  PROVE  /\ s \in Request /\ s.pc = "change" /\ s.user = r.user /\ s.role = r.role
         /\ s.entity = r.entity /\ s.key = r.key /\ s.token = r.token
  BY DEF Request

-----------------------------------------------------------------------------
(* What every request looks like.                                          *)

Handling == {{}, {"verified"}, {"verified", "verifyToken"}, {"verifyToken"},
             {"resetToken"}, {"avatar"}}

Shape(r) ==
  /\ r.pc \in {"register", "upload", "save", "write", "role", "change"} => r.user \in User
  /\ r.pc = "upload" => r.own = {"avatar"}
  /\ r.pc \in {"save", "write"} =>
       /\ r.own \in Handling
       /\ r.token # None => r.own = {"verified", "verifyToken"}
       /\ r.own = {"verified", "verifyToken"} => r.entity["verifyToken"] = None
       /\ r.key # None => r.own = {"avatar"}
  /\ r.pc \notin {"save", "write"} => r.token = None
  /\ r.pc \notin {"upload", "save", "write", "clean"} => r.key = None
  /\ r.pc = "clean" => r.user = NoUser

BaseInv == TypeOK /\ \A p \in Proc : Shape(req[p])

\* The columns whose values are drawn, and what a request copies of them.
Given == {"verifyToken", "resetToken", "avatar"}
TokenColumn == {"verifyToken", "resetToken"}
Carries(p, r, c) ==
  \/ r.entity[c] = None
  \/ r.user \in User /\ r.entity[c] = account[r.user][c]
  \/ r.user = req[p].user /\ r.entity[c] = req[p].entity[c]

\* A request that saves an avatar it has stored.
Names(r) == r.pc \in {"save", "write"} /\ "avatar" \in r.own

\* One request moves on and the others stay where they are.
Moves(p, r) ==
  /\ r \in Request /\ Shape(r) /\ req'[p] = r
  /\ \A q \in Proc : q # p => req'[q] = req[q]

LEMMA BecomeMoves ==
  ASSUME BaseInv, NEW p \in Proc, NEW r \in Request, Shape(r), Become(p, r)
  PROVE  /\ Moves(p, r) /\ req' \in [Proc -> Request]
         /\ \A q \in Proc : Shape(req'[q])
  BY DEF BaseInv, TypeOK, Become, Moves

LEMMA IdleHasShape == Shape(Idle)
  BY IdleIs DEF Shape

LEMMA NewCarriesNothing ==
  ASSUME NEW r, r.entity = NewAccount
  PROVE  /\ \A c \in Given : r.entity[c] = None
         /\ \A p \in Proc, c \in Given : Carries(p, r, c)
  BY NewAccountIs DEF Given, Carries

\* The rows of users are accounts.
LEMMA RowsAre ==
  ASSUME BaseInv
  PROVE  /\ \A u \in User : account[u] \in Account
         /\ \A p \in Proc : /\ req[p] \in Request /\ Shape(req[p])
                            /\ req[p].entity \in Account /\ req[p].own \in SUBSET Columns
                            /\ req[p].differ \in SUBSET Columns
                            /\ req[p].key \in Key \cup {None}
                            /\ req[p].token \in Token \cup {None} /\ req[p].role \in Role
  BY DEF BaseInv, TypeOK, Request

-----------------------------------------------------------------------------
(* What each action does.                                                  *)

\* A request that carries no token and no key, and means no column that
\* matters here.
Harmless(r) ==
  /\ r.token = None /\ r.key = None /\ r.pc # "clean"
  /\ r.pc \in {"save", "write"} => r.own \subseteq {"verified"}

rows == <<registered, account, lastToken>>

LEMMA QuietSteps ==
  ASSUME BaseInv, NEW p \in Proc,
         \/ BeginRegister(p) \/ BeginRoleChange(p) \/ LockRole(p)
         \/ \E u \in Client : UpdateProfile(p, u) \/ UpdateUserStatus(p, u)
  PROVE  /\ BaseInv' /\ UNCHANGED <<rows, storage, history>>
         /\ \E r : /\ Moves(p, r) /\ Harmless(r) /\ (r.pc = "change" => LockRole(p))
                   /\ \A c \in Given : Carries(p, r, c)
  <1> USE AccountsConstants
  <1>0. UNCHANGED <<rows, storage, history>>
    BY DEF BeginRegister, BeginRoleChange, LockRole, UpdateProfile, UpdateUserStatus, rows
  <1>1. ASSUME NEW r \in Request, Shape(r), Become(p, r), Harmless(r),
               r.pc = "change" => LockRole(p), \A c \in Given : Carries(p, r, c)
        PROVE  /\ BaseInv'
               /\ \E s : /\ Moves(p, s) /\ Harmless(s) /\ (s.pc = "change" => LockRole(p))
                         /\ \A c \in Given : Carries(p, s, c)
    BY <1>0, <1>1, BecomeMoves DEF BaseInv, TypeOK, rows, storage, history
  <1>2. CASE BeginRegister(p)
    <2>1. PICK u \in User : Become(p, RegisterOf(u))
      BY <1>2 DEF BeginRegister, RegisterOf
    <2>2. PICK r : r = RegisterOf(u)
      OBVIOUS
    <2>3. /\ r \in Request /\ r.pc = "register" /\ r.user = u
          /\ r.entity = NewAccount /\ r.key = None /\ r.token = None
      BY <2>2, RegisterRequest
    <2>4. Shape(r) /\ Harmless(r) /\ \A c \in Given : Carries(p, r, c)
      BY <2>3, NewCarriesNothing DEF Shape, Harmless
    <2> QED
      BY <1>0, <1>1, <2>1, <2>2, <2>3, <2>4
  <1>3. CASE BeginRoleChange(p)
    <2>1. PICK a \in User, u \in User, role \in Role :
            Become(p, RoleOf(u, a, role))
      BY <1>3 DEF BeginRoleChange, RoleOf, BaseInv, TypeOK
    <2>2. PICK r : r = RoleOf(u, a, role)
      OBVIOUS
    <2>3. /\ r \in Request /\ r.pc = "role" /\ r.user = u
          /\ r.entity = NewAccount /\ r.key = None /\ r.token = None
      BY <2>2, RoleRequest
    <2>4. Shape(r) /\ Harmless(r) /\ \A c \in Given : Carries(p, r, c)
      BY <2>3, NewCarriesNothing DEF Shape, Harmless
    <2> QED
      BY <1>0, <1>1, <2>1, <2>2, <2>3, <2>4
  <1>4. CASE LockRole(p)
    <2>1. Become(p, Idle) \/ Become(p, [req[p] EXCEPT !.pc = "change"])
      BY <1>4 DEF LockRole
    <2>2. /\ req[p] \in Request /\ Shape(req[p]) /\ req[p].pc = "role"
      BY <1>4, RowsAre DEF LockRole, At
    <2>3. PICK r : r = [req[p] EXCEPT !.pc = "change"]
      OBVIOUS
    <2>4. /\ r \in Request /\ r.pc = "change" /\ r.user = req[p].user
          /\ r.entity = req[p].entity /\ r.key = req[p].key /\ r.token = req[p].token
      BY <2>2, <2>3, ChangeNext
    <2>5. Shape(r) /\ Harmless(r) /\ \A c \in Given : Carries(p, r, c)
      BY <2>2, <2>4 DEF Shape, Harmless, Carries
    <2>6. /\ Shape(Idle) /\ Harmless(Idle) /\ Idle \in Request
          /\ \A c \in Given : Carries(p, Idle, c)
      BY IdleHasShape, IdleIs, NewCarriesNothing DEF Harmless
    <2> QED
      BY <1>0, <1>1, <1>4, <2>1, <2>3, <2>4, <2>5, <2>6
  <1>5. ASSUME NEW u \in Client, UpdateProfile(p, u) \/ UpdateUserStatus(p, u)
        PROVE  /\ BaseInv'
               /\ \E s : /\ Moves(p, s) /\ Harmless(s) /\ (s.pc = "change" => LockRole(p))
                         /\ \A c \in Given : Carries(p, s, c)
    <2>1. PICK e \in Account, own \in {{}, {"verified"}} :
            /\ Become(p, SaveOf(u, e, own, None))
            /\ \A c \in Given : e[c] = account[u][c]
      <3>1. account[u] \in Account
        BY RowsAre
      <3>2. \A v \in BOOLEAN : LET e == [account[u] EXCEPT !.verified = v] IN
              e \in Account /\ \A c \in Given : e[c] = account[u][c]
        BY <3>1, RowsWithOneChange DEF Given, Columns
      <3>3. CASE UpdateProfile(p, u)
        BY <3>1, <3>3 DEF UpdateProfile, StartSave, SaveOf
      <3>4. CASE UpdateUserStatus(p, u)
        <4>1. PICK v \in BOOLEAN :
                Become(p, SaveOf(u, [account[u] EXCEPT !.verified = v], {"verified"}, None))
          BY <3>4 DEF UpdateUserStatus, StartSave, SaveOf
        <4>2. PICK e : e = [account[u] EXCEPT !.verified = v]
          OBVIOUS
        <4> QED
          BY <3>2, <4>1, <4>2
      <3> QED
        BY <1>5, <3>3, <3>4
    <2>2. PICK r : r = SaveOf(u, e, own, None)
      OBVIOUS
    <2>3. own \in SUBSET Columns
      BY DEF Columns
    <2>4. /\ r \in Request /\ r.pc = "save" /\ r.user = u /\ r.own = own
          /\ r.entity = e /\ r.key = None /\ r.token = None
      BY <2>2, <2>3, SaveRequest
    <2>5. Shape(r) /\ Harmless(r) /\ \A c \in Given : Carries(p, r, c)
      BY <2>1, <2>4 DEF Shape, Harmless, Handling, Carries
    <2> QED
      BY <1>0, <1>1, <2>1, <2>2, <2>4, <2>5
  <1> QED
    BY <1>0, <1>2, <1>3, <1>4, <1>5

\* A request for an account ends, with a new row or without one.
LEMMA CreateSteps ==
  ASSUME BaseInv, NEW p \in Proc, CreateUser(p) \/ CreateOAuthUser(p)
  PROVE  /\ BaseInv' /\ UNCHANGED <<storage, history>> /\ Moves(p, Idle)
         /\ registered \subseteq registered'
         /\ \/ UNCHANGED rows
            \/ \E u \in User \ registered :
                 /\ \A v \in User : v # u => account'[v] = account[v]
                 /\ account'[u]["avatar"] = None /\ account'[u]["resetToken"] = None
                 /\ account'[u]["role"] = "user"
                 /\ registered' = registered \cup {u}
                 /\ \/ account'[u]["verifyToken"] = None /\ lastToken' = lastToken
                    \/ /\ account'[u]["verifyToken"] = lastToken + 1
                       /\ lastToken' = lastToken + 1
  <1> USE AccountsConstants
  <1>0. UNCHANGED <<storage, history>> /\ Become(p, Idle) /\ req[p].user \in User
    BY RowsAre DEF CreateUser, CreateOAuthUser, Finish, Shape, At
  <1>1. Moves(p, Idle) /\ req' \in [Proc -> Request] /\ \A q \in Proc : Shape(req'[q])
    BY <1>0, BecomeMoves, IdleHasShape, IdleIs
  <1>2. PICK u : u = req[p].user
    OBVIOUS
  <1>3. CASE UNCHANGED rows
    BY <1>0, <1>1, <1>3 DEF BaseInv, TypeOK, rows, storage, history
  <1>4. ASSUME u \notin registered, NEW t \in {None, lastToken + 1}, NEW a \in Account,
               a["avatar"] = None, a["resetToken"] = None, a["role"] = "user",
               a["verifyToken"] = t, account' = [account EXCEPT ![u] = a],
               registered' = registered \cup {u},
               lastToken' = IF t = None THEN lastToken ELSE lastToken + 1,
               t # None => lastToken < MaxToken
        PROVE  /\ BaseInv' /\ registered \subseteq registered'
               /\ \E x \in User \ registered :
                    /\ \A v \in User : v # x => account'[v] = account[v]
                    /\ account'[x]["avatar"] = None /\ account'[x]["resetToken"] = None
                    /\ account'[x]["role"] = "user"
                    /\ registered' = registered \cup {x}
                    /\ \/ account'[x]["verifyToken"] = None /\ lastToken' = lastToken
                       \/ /\ account'[x]["verifyToken"] = lastToken + 1
                          /\ lastToken' = lastToken + 1
    <2>1. /\ registered \subseteq User /\ account \in [User -> Account]
          /\ lastToken \in 0 .. MaxToken /\ u \in User
      BY <1>0, <1>2 DEF BaseInv, TypeOK
    <2>2. account' \in [User -> Account] /\ account'[u] = a
          /\ \A v \in User : v # u => account'[v] = account[v]
      BY <1>4, <2>1
    <2>3. lastToken' \in 0 .. MaxToken
      BY <1>4, <2>1 DEF None
    <2>4. BaseInv'
      BY <1>0, <1>1, <1>4, <2>1, <2>2, <2>3 DEF BaseInv, TypeOK, storage, history
    <2> QED
      BY <1>4, <2>1, <2>2, <2>4
  <1>5. CASE CreateUser(p) /\ ~UNCHANGED rows
    <2>1. /\ u \notin registered /\ lastToken < MaxToken /\ lastToken' = lastToken + 1
          /\ registered' = registered \cup {u}
          /\ account' = [account EXCEPT ![u] = [NewAccount EXCEPT !.verifyToken = lastToken + 1]]
      BY <1>2, <1>5 DEF CreateUser, rows
    <2>2. lastToken + 1 \in Token \cup {None} /\ lastToken + 1 # None
      BY <2>1 DEF BaseInv, TypeOK, Token, None
    <2>3. PICK a : a = [NewAccount EXCEPT !.verifyToken = lastToken + 1]
      OBVIOUS
    <2>4. /\ a \in Account /\ a["avatar"] = None /\ a["resetToken"] = None
          /\ a["role"] = "user" /\ a["verifyToken"] = lastToken + 1
      BY <2>2, <2>3, NewAccountIs, RowsWithOneChange DEF Columns
    <2> QED
      BY <1>0, <1>1, <1>4, <2>1, <2>2, <2>3, <2>4
  <1>6. CASE CreateOAuthUser(p)
    <2>1. /\ u \notin registered /\ lastToken' = lastToken
          /\ registered' = registered \cup {u}
          /\ account' = [account EXCEPT ![u] = [NewAccount EXCEPT !.verified = TRUE]]
      BY <1>2, <1>6 DEF CreateOAuthUser
    <2>3. PICK a : a = [NewAccount EXCEPT !.verified = TRUE]
      OBVIOUS
    <2>4. /\ a \in Account /\ a["avatar"] = None /\ a["resetToken"] = None
          /\ a["role"] = "user" /\ a["verifyToken"] = None
      BY <2>3, NewAccountIs DEF Account
    <2> QED
      BY <1>0, <1>1, <1>4, <2>1, <2>3, <2>4
  <1>7. registered \subseteq registered'
    BY <1>3, <1>5, <1>6 DEF CreateUser, CreateOAuthUser, rows
  <1> QED
    BY <1>0, <1>1, <1>3, <1>5, <1>6, <1>7

\* A new token is drawn for one column of a user.
LEMMA IssueSteps ==
  ASSUME BaseInv, NEW p \in Proc, NEW u \in Client,
         ResendVerificationEmail(p, u) \/ RequestPasswordReset(p, u)
  PROVE  /\ BaseInv'
         /\ UNCHANGED <<registered, account, storage, history>>
         /\ lastToken' = lastToken + 1 /\ lastToken + 1 \in Token
         /\ \E r, c : /\ Moves(p, r) /\ c \in TokenColumn /\ r.pc = "save"
                      /\ r.user = u /\ r.own = {c} /\ r.entity[c] = lastToken + 1
                      /\ \A d \in Given : d # c => r.entity[d] = account[u][d]
                      /\ r.token = None /\ r.key = None
  <1> USE AccountsConstants
  <1>0. /\ UNCHANGED <<registered, account, storage, history>>
        /\ lastToken < MaxToken /\ lastToken' = lastToken + 1 /\ u \in User
    BY DEF ResendVerificationEmail, RequestPasswordReset, DrawToken
  <1>1. lastToken + 1 \in Token /\ lastToken' \in 0 .. MaxToken
    BY <1>0 DEF BaseInv, TypeOK, Token
  <1>2. PICK e \in Account, c \in TokenColumn :
          /\ Become(p, SaveOf(u, e, {c}, None)) /\ e[c] = lastToken + 1
          /\ \A d \in Given : d # c => e[d] = account[u][d]
    <2>1. account[u] \in Account
      BY <1>0, RowsAre
    <2>2. CASE ResendVerificationEmail(p, u)
      <3>1. PICK e : e = [account[u] EXCEPT !.verifyToken = lastToken + 1]
        OBVIOUS
      <3>2. /\ e \in Account /\ e["verifyToken"] = lastToken + 1
            /\ \A d \in Given : d # "verifyToken" => e[d] = account[u][d]
        BY <1>1, <2>1, <3>1, RowsWithOneChange DEF Given, Columns
      <3>3. Become(p, SaveOf(u, e, {"verifyToken"}, None))
        BY <2>2, <3>1 DEF ResendVerificationEmail, StartSave, SaveOf
      <3> QED
        BY <3>2, <3>3 DEF TokenColumn
    <2>3. CASE RequestPasswordReset(p, u)
      <3>1. PICK e : e = [account[u] EXCEPT !.resetToken = lastToken + 1]
        OBVIOUS
      <3>2. /\ e \in Account /\ e["resetToken"] = lastToken + 1
            /\ \A d \in Given : d # "resetToken" => e[d] = account[u][d]
        BY <1>1, <2>1, <3>1, RowsWithOneChange DEF Given, Columns
      <3>3. Become(p, SaveOf(u, e, {"resetToken"}, None))
        BY <2>3, <3>1 DEF RequestPasswordReset, StartSave, SaveOf
      <3> QED
        BY <3>2, <3>3 DEF TokenColumn
    <2> QED
      BY <2>2, <2>3
  <1>3. PICK r : r = SaveOf(u, e, {c}, None)
    OBVIOUS
  <1>4. /\ r \in Request /\ r.pc = "save" /\ r.user = u /\ r.entity = e
        /\ r.own = {c} /\ r.key = None /\ r.token = None
    BY <1>0, <1>3, SaveRequest DEF TokenColumn, Columns
  <1>5. Shape(r)
    BY <1>0, <1>4 DEF Shape, Handling, TokenColumn
  <1>6. Moves(p, r) /\ req' \in [Proc -> Request] /\ \A q \in Proc : Shape(req'[q])
    BY <1>2, <1>3, <1>4, <1>5, BecomeMoves
  <1> QED
    BY <1>0, <1>1, <1>2, <1>4, <1>6 DEF BaseInv, TypeOK, storage, history

\* A request that verifies an address carries the token it was given.
LEMMA VerifySteps ==
  ASSUME BaseInv, NEW p \in Proc, NEW u \in Client, VerifyEmail(p, u)
  PROVE  /\ BaseInv' /\ UNCHANGED <<rows, storage, history>>
         /\ \E r : /\ Moves(p, r) /\ r.pc = "save" /\ r.user = u
                   /\ r.own = {"verified", "verifyToken"} /\ r.entity["verifyToken"] = None
                   /\ r.token = account[u]["verifyToken"] /\ r.token # None
                   /\ r.key = None /\ \A c \in Given : Carries(p, r, c)
  <1> USE AccountsConstants
  <1> DEFINE own == {"verified", "verifyToken"}
  <1>0. /\ UNCHANGED <<rows, storage, history>> /\ u \in User
        /\ account[u]["verifyToken"] # None
    BY DEF VerifyEmail, rows
  <1>1. account[u] \in Account /\ account[u]["verifyToken"] \in Token \cup {None}
    BY <1>0, RowsAre, AccountFields
  <1>2. PICK e : e = [account[u] EXCEPT !.verified = TRUE, !.verifyToken = None]
    OBVIOUS
  <1>3. /\ e \in Account /\ e["verifyToken"] = None
        /\ e["resetToken"] = account[u]["resetToken"] /\ e["avatar"] = account[u]["avatar"]
    BY <1>1, <1>2 DEF Account
  <1>4. PICK r : r = SaveOf(u, e, own, account[u]["verifyToken"])
    OBVIOUS
  <1>5. Become(p, r)
    BY <1>2, <1>4 DEF VerifyEmail, StartSave, SaveOf
  <1>6. own \in SUBSET Columns
    BY DEF Columns
  <1> HIDE DEF own
  <1>7. /\ r \in Request /\ r.pc = "save" /\ r.user = u /\ r.entity = e
        /\ r.own = own /\ r.key = None /\ r.token = account[u]["verifyToken"]
    BY <1>0, <1>1, <1>3, <1>4, <1>6, SaveRequest
  <1>8. Shape(r)
    BY <1>0, <1>3, <1>7 DEF Shape, Handling, own
  <1>9. Moves(p, r) /\ req' \in [Proc -> Request] /\ \A q \in Proc : Shape(req'[q])
    BY <1>5, <1>7, <1>8, BecomeMoves
  <1>10. \A c \in Given : Carries(p, r, c)
    BY <1>0, <1>3, <1>7 DEF Carries, Given
  <1> QED
    BY <1>0, <1>3, <1>7, <1>9, <1>10 DEF BaseInv, TypeOK, rows, storage, history, own

\* An upload begins with the avatar the row names.
LEMMA UploadSteps ==
  ASSUME BaseInv, NEW p \in Proc, NEW u \in Client, UpdateAvatar(p, u)
  PROVE  /\ BaseInv' /\ UNCHANGED <<rows, storage, history>>
         /\ \E r : /\ Moves(p, r) /\ r.pc = "upload" /\ r.user = u
                   /\ r.key = account[u]["avatar"] /\ \A c \in Given : Carries(p, r, c)
  <1> USE AccountsConstants
  <1>0. UNCHANGED <<rows, storage, history>> /\ u \in User
    BY DEF UpdateAvatar, rows
  <1>1. account[u] \in Account /\ account[u]["avatar"] \in Key \cup {None}
    BY <1>0, RowsAre, AccountFields
  <1>4. PICK r : r = UploadOf(u, account[u], {"avatar"}, account[u]["avatar"])
    OBVIOUS
  <1>5. Become(p, r)
    BY <1>4 DEF UpdateAvatar, UploadOf
  <1>6. {"avatar"} \in SUBSET Columns
    BY DEF Columns
  <1>7. /\ r \in Request /\ r.pc = "upload" /\ r.user = u
        /\ r.entity = account[u]
        /\ r.own = {"avatar"} /\ r.key = account[u]["avatar"] /\ r.token = None
    BY <1>0, <1>1, <1>4, <1>6, UploadRequest
  <1>8. Shape(r) /\ \A c \in Given : Carries(p, r, c)
    BY <1>0, <1>7 DEF Shape, Carries
  <1>9. Moves(p, r) /\ req' \in [Proc -> Request] /\ \A q \in Proc : Shape(req'[q])
    BY <1>5, <1>7, <1>8, BecomeMoves
  <1> QED
    BY <1>0, <1>7, <1>8, <1>9 DEF BaseInv, TypeOK, rows, storage, history

\* It stores a file that nobody has named.
LEMMA StoreSteps ==
  ASSUME BaseInv, NEW p \in Proc, StoreAvatar(p)
  PROVE  /\ BaseInv' /\ UNCHANGED <<rows, history>>
         /\ lastKey' = lastKey + 1 /\ files' = files \cup {lastKey + 1}
         /\ lastKey + 1 \in Key
         /\ \E r : /\ Moves(p, r) /\ r.pc = "save" /\ r.user = req[p].user
                   /\ r.key = req[p].key /\ r.token = None /\ r.own = {"avatar"}
                   /\ r.entity["avatar"] = lastKey + 1
                   /\ \A c \in TokenColumn : r.entity[c] = req[p].entity[c]
  <1> USE AccountsConstants
  <1>0. /\ UNCHANGED <<rows, history>> /\ req[p].pc = "upload" /\ lastKey < MaxKey
        /\ lastKey' = lastKey + 1 /\ files' = files \cup {lastKey + 1}
    BY DEF StoreAvatar, rows, At
  <1>1. lastKey + 1 \in Key /\ lastKey' \in 0 .. MaxKey
    BY <1>0 DEF BaseInv, TypeOK, Key
  <1>2. PICK e : e = [req[p].entity EXCEPT !.avatar = lastKey + 1]
    OBVIOUS
  <1>3. /\ e \in Account /\ e["avatar"] = lastKey + 1
        /\ \A c \in TokenColumn : e[c] = req[p].entity[c]
    BY <1>1, <1>2, RowsAre, RowsWithOneChange DEF TokenColumn, Columns
  <1>4. PICK r : r = Saving(req[p], e)
    OBVIOUS
  <1>5. Become(p, r)
    <2>1. r = [req[p] EXCEPT !.pc = "save", !.entity.avatar = lastKey + 1]
      BY <1>2, <1>4, RowsAre DEF Request, Saving
    <2> QED
      BY <2>1 DEF StoreAvatar
  <1>6. req[p] \in Request /\ Shape(req[p])
    BY RowsAre
  <1>7. /\ r \in Request /\ r.pc = "save" /\ r.user = req[p].user /\ r.entity = e
        /\ r.own = req[p].own /\ r.key = req[p].key /\ r.token = req[p].token
    BY <1>3, <1>4, <1>6, SaveNext
  <1>8. Shape(r) /\ r.own = {"avatar"} /\ r.token = None
    BY <1>0, <1>6, <1>7 DEF Shape, Handling
  <1>9. Moves(p, r) /\ req' \in [Proc -> Request] /\ \A q \in Proc : Shape(req'[q])
    BY <1>5, <1>7, <1>8, BecomeMoves
  <1> QED
    BY <1>0, <1>1, <1>3, <1>7, <1>8, <1>9 DEF BaseInv, TypeOK, rows, history

\* A save finds nothing to write, or goes on with the columns that differ.
LEMMA ReloadSteps ==
  ASSUME BaseInv, NEW p \in Proc, Reload(p)
  PROVE  /\ BaseInv' /\ UNCHANGED <<rows, storage, history>>
         /\ req[p].pc = "save" /\ req[p].user \in User
         /\ \/ Moves(p, Idle)
            \/ \E r : /\ Moves(p, r) /\ r.pc = "write" /\ r.user = req[p].user
                      /\ r.own = req[p].own /\ r.key = req[p].key /\ r.token = req[p].token
                      /\ \A c \in Given : Carries(p, r, c)
                      /\ r.differ \subseteq Columns
                      /\ \A c \in Columns :
                           /\ c \in r.differ <=> account[r.user][c] # req[p].entity[c]
                           /\ r.entity[c] = IF c \in r.differ THEN req[p].entity[c]
                                            ELSE NewAccount[c]
  <1>0. UNCHANGED <<rows, storage, history>> /\ req[p].pc = "save"
    BY DEF Reload, rows, At
  <1>1. req[p] \in Request /\ Shape(req[p]) /\ req[p].entity \in Account
    BY RowsAre
  <1>2. PICK d : d = {c \in Columns : account[req[p].user][c] # req[p].entity[c]}
    OBVIOUS
  <1>3. PICK e : e = Updated(NewAccount, req[p].entity, d)
    OBVIOUS
  <1>4. PICK r : r = Writing(req[p], d, e)
    OBVIOUS
  <1>5. Become(p, Idle) \/ Become(p, r)
    BY <1>1, <1>2, <1>3, <1>4 DEF Reload, Request, Writing
  <1>6. d \in SUBSET Columns
    BY <1>2
  <1>7. e \in Account /\ \A c \in Columns : e[c] = IF c \in d THEN req[p].entity[c] ELSE NewAccount[c]
    BY <1>1, <1>3, <1>6, NewAccountIs, UpdatedIs
  <1>8. /\ r \in Request /\ r.pc = "write" /\ r.user = req[p].user /\ r.entity = e
        /\ r.own = req[p].own /\ r.differ = d /\ r.key = req[p].key /\ r.token = req[p].token
    BY <1>1, <1>4, <1>6, <1>7, WriteNext
  <1>9. r.own = {"verified", "verifyToken"} => r.entity["verifyToken"] = None
    BY <1>0, <1>1, <1>7, <1>8, NewAccountIs DEF Shape, Columns
  <1>10. Shape(r) /\ r.user \in User
    BY <1>0, <1>1, <1>8, <1>9 DEF Shape
  <1>11. /\ Moves(p, Idle) \/ Moves(p, r)
         /\ req' \in [Proc -> Request] /\ \A q \in Proc : Shape(req'[q])
    BY <1>5, <1>8, <1>10, BecomeMoves, IdleHasShape, IdleIs
  <1>12. \A c \in Given : Carries(p, r, c)
    BY <1>7, <1>8, NewAccountIs DEF Carries, Given, Columns
  <1> QED
    BY <1>0, <1>2, <1>6, <1>7, <1>8, <1>10, <1>11, <1>12
    DEF BaseInv, TypeOK, rows, storage, history

\* The UPDATE of a save, whether its answer arrives or not: an avatar that the
\* error path deletes is one that the request has stored.
LEMMA UpdateSteps ==
  ASSUME BaseInv, NEW p \in Proc, Write(p) \/ AnswerLost(p)
  PROVE  /\ BaseInv' /\ UNCHANGED <<registered, lastToken, lastKey>>
         /\ req[p].pc = "write" /\ req[p].user \in User
         /\ \A u \in User : u # req[p].user => account'[u] = account[u]
         /\ \A c \in Columns :
              account'[req[p].user][c] = IF c \in req[p].differ THEN req[p].entity[c]
                                         ELSE account[req[p].user][c]
         /\ \A c \in Kept : /\ lost[c] \subseteq lost'[c]
                            /\ c \in req[p].differ \ req[p].own => req[p].entity[c] \in lost'[c]
         /\ used' = (used \cup {req[p].token}) \ {None}
         /\ files' \subseteq files /\ unsure \subseteq unsure'
         /\ \A k \in files : \/ k \in files'
                             \/ k \in unsure' /\ Names(req[p]) /\ k = req[p].entity["avatar"]
         /\ \E r : /\ Moves(p, r) /\ r.pc \in {"idle", "clean"} /\ r.user = NoUser
                   /\ r.token = None /\ (\A c \in Given : r.entity[c] = None)
                   /\ r.key = None \/ (r.pc = "clean" /\ r.key = req[p].key)
  <1> USE AccountsConstants
  <1> DEFINE Returned(c) == {v \in {req[p].entity[c]} : c \in req[p].differ \ req[p].own}
  <1>0. /\ UNCHANGED <<scene, registered, lastToken, lastKey>> /\ req[p].pc = "write"
        /\ account' = [account EXCEPT ![req[p].user] =
                         Updated(account[req[p].user], req[p].entity, req[p].differ)]
        /\ lost' = [c \in Kept |-> lost[c] \cup Returned(c)]
        /\ used' = (used \cup {req[p].token}) \ {None}
    BY DEF Write, AnswerLost, Update, At, storage
  <1>1. /\ req[p] \in Request /\ Shape(req[p]) /\ req[p].entity \in Account
        /\ req[p].differ \in SUBSET Columns /\ req[p].key \in Key \cup {None}
        /\ req[p].token \in Token \cup {None}
        /\ account \in [User -> Account]
    BY RowsAre DEF BaseInv, TypeOK
  <1>2. req[p].user \in User
    BY <1>0, <1>1 DEF Shape
  <1>3. PICK a : a = Updated(account[req[p].user], req[p].entity, req[p].differ)
    OBVIOUS
  <1>4. /\ a \in Account
        /\ \A c \in Columns : a[c] = IF c \in req[p].differ THEN req[p].entity[c]
                                     ELSE account[req[p].user][c]
    BY <1>1, <1>2, <1>3, UpdatedIs
  <1>5. /\ account' \in [User -> Account] /\ account'[req[p].user] = a
        /\ \A u \in User : u # req[p].user => account'[u] = account[u]
    BY <1>0, <1>1, <1>2, <1>3, <1>4
  <1>6. PICK r : r = CleanOf(req[p].key)
    OBVIOUS
  <1>7. Become(p, Idle) \/ Become(p, r)
    BY <1>6 DEF Write, AnswerLost, Finish, CleanOf
  <1>8. /\ r \in Request /\ r.pc = "clean" /\ r.user = NoUser /\ r.key = req[p].key
        /\ r.entity = NewAccount /\ r.token = None
    BY <1>1, <1>6, CleanRequest
  <1>9. Shape(r)
    BY <1>8 DEF Shape
  <1>10. /\ Moves(p, Idle) \/ Moves(p, r)
         /\ req' \in [Proc -> Request] /\ \A q \in Proc : Shape(req'[q])
    BY <1>7, <1>8, <1>9, BecomeMoves, IdleHasShape, IdleIs
  <1>11. \E s : /\ Moves(p, s) /\ s.pc \in {"idle", "clean"} /\ s.user = NoUser
                /\ s.token = None /\ (\A c \in Given : s.entity[c] = None)
                /\ s.key = None \/ (s.pc = "clean" /\ s.key = req[p].key)
    BY <1>8, <1>10, IdleIs, NewCarriesNothing
  <1>12. /\ lost' \in [Kept -> SUBSET (Token \cup Key \cup Role \cup {None})]
         /\ \A c \in Kept : /\ lost[c] \subseteq lost'[c]
                            /\ c \in req[p].differ \ req[p].own => req[p].entity[c] \in lost'[c]
    <2>1. \A c \in Kept : Returned(c) \subseteq Token \cup Key \cup Role \cup {None}
      BY <1>1, AccountFields DEF Kept, Columns
    <2>2. lost \in [Kept -> SUBSET (Token \cup Key \cup Role \cup {None})]
      BY DEF BaseInv, TypeOK
    <2> QED
      BY <1>0, <2>1, <2>2
  <1>13. /\ files' \subseteq files /\ unsure \subseteq unsure' /\ unsure' \subseteq Key
         /\ \A k \in files : k \in files' \/ (k \in unsure' /\ k \in StoredFor(req[p]))
    <2>1. files \subseteq Key /\ unsure \subseteq Key
      BY DEF BaseInv, TypeOK
    <2>2. CASE Write(p)
      BY <2>1, <2>2 DEF Write, storage
    <2>3. CASE AnswerLost(p)
      BY <2>1, <2>3 DEF AnswerLost
    <2> QED
      BY <2>2, <2>3
  <1>14. /\ used' \subseteq Token /\ files' \subseteq Key
    BY <1>0, <1>1, <1>13 DEF BaseInv, TypeOK
  <1>15. BaseInv'
    BY <1>0, <1>5, <1>10, <1>12, <1>13, <1>14 DEF BaseInv, TypeOK
  <1> HIDE DEF Returned
  <1> QED
    BY <1>0, <1>2, <1>4, <1>5, <1>11, <1>12, <1>13, <1>15 DEF StoredFor, Names

\* Requests that end: after the previous avatar, by a failure, or with a role.
LEMMA CleanSteps ==
  ASSUME BaseInv, NEW p \in Proc, DeletePrevious(p)
  PROVE  /\ BaseInv' /\ UNCHANGED <<rows, lastKey, history>> /\ Moves(p, Idle)
         /\ req[p].pc = "clean" /\ files' = files \ {req[p].key}
  <1>1. Become(p, Idle)
    BY DEF DeletePrevious, Finish
  <1>2. Moves(p, Idle) /\ req' \in [Proc -> Request] /\ \A q \in Proc : Shape(req'[q])
    BY <1>1, BecomeMoves, IdleHasShape, IdleIs
  <1> QED
    BY <1>2 DEF DeletePrevious, At, BaseInv, TypeOK, rows, history

LEMMA FailSteps ==
  ASSUME BaseInv, NEW p \in Proc, Fail(p)
  PROVE  /\ BaseInv' /\ UNCHANGED <<rows, lastKey, history>> /\ Moves(p, Idle)
         /\ files' \subseteq files
         /\ \A k \in files : k \in files' \/ (Names(req[p]) /\ k = req[p].entity["avatar"])
  <1>1. Become(p, Idle) /\ UNCHANGED <<rows, lastKey, history>>
    BY DEF Fail, Finish, rows
  <1>2. Moves(p, Idle) /\ req' \in [Proc -> Request] /\ \A q \in Proc : Shape(req'[q])
    BY <1>1, BecomeMoves, IdleHasShape, IdleIs
  <1>3. /\ files' \subseteq files
        /\ \A k \in files : k \in files' \/ k \in StoredFor(req[p])
    BY DEF Fail
  <1>4. BaseInv'
    BY <1>1, <1>2, <1>3 DEF BaseInv, TypeOK, rows, history
  <1> QED
    BY <1>1, <1>2, <1>3, <1>4 DEF StoredFor, Names

LEMMA ChangeSteps ==
  ASSUME BaseInv, NEW p \in Proc, ChangeRole(p)
  PROVE  /\ BaseInv' /\ UNCHANGED <<registered, lastToken, storage, history>>
         /\ Moves(p, Idle) /\ req[p].pc = "change" /\ req[p].user \in User
         /\ \A u \in User : u # req[p].user => account'[u] = account[u]
         /\ account'[req[p].user]["role"] = req[p].role
         /\ \A c \in Columns \ {"role"} : account'[req[p].user][c] = account[req[p].user][c]
  <1>0. /\ Become(p, Idle) /\ UNCHANGED <<registered, lastToken, storage, history>>
        /\ req[p].pc = "change"
        /\ account' = [account EXCEPT ![req[p].user].role = req[p].role]
    BY DEF ChangeRole, Finish, At
  <1>1. /\ Shape(req[p]) /\ req[p].role \in Role /\ account \in [User -> Account]
    BY RowsAre DEF BaseInv, TypeOK
  <1>2. req[p].user \in User
    BY <1>0, <1>1 DEF Shape
  <1>3. PICK a : a = [account[req[p].user] EXCEPT !.role = req[p].role]
    OBVIOUS
  <1>4. /\ a \in Account /\ a["role"] = req[p].role
        /\ \A c \in Columns \ {"role"} : a[c] = account[req[p].user][c]
    BY <1>1, <1>2, <1>3, RowsWithOneChange
  <1>5. /\ account' \in [User -> Account] /\ account'[req[p].user] = a
        /\ \A u \in User : u # req[p].user => account'[u] = account[u]
    BY <1>0, <1>1, <1>2, <1>3, <1>4
  <1>6. Moves(p, Idle) /\ req' \in [Proc -> Request] /\ \A q \in Proc : Shape(req'[q])
    BY <1>0, BecomeMoves, IdleHasShape, IdleIs
  <1>7. BaseInv'
    BY <1>0, <1>5, <1>6 DEF BaseInv, TypeOK, storage, history
  <1> QED
    BY <1>0, <1>2, <1>4, <1>5, <1>6, <1>7

\* Single statements.
LEMMA MarkSteps ==
  ASSUME BaseInv, NEW u \in Client, MarkAsVerified(u)
  PROVE  /\ BaseInv' /\ UNCHANGED <<registered, lastToken, storage, req, history>>
         /\ u \in User
         /\ \A v \in User : v # u => account'[v] = account[v]
         /\ \A c \in Columns \ {"verified"} : account'[u][c] = account[u][c]
  <1>0. /\ u \in User /\ account \in [User -> Account]
        /\ UNCHANGED <<registered, lastToken, storage, req, history>>
        /\ account' = [account EXCEPT ![u].verified = TRUE]
    BY AccountsConstants DEF MarkAsVerified, BaseInv, TypeOK
  <1>1. PICK a : a = [account[u] EXCEPT !.verified = TRUE]
    OBVIOUS
  <1>2. a \in Account /\ \A c \in Columns \ {"verified"} : a[c] = account[u][c]
    <2>1. account[u] \in Account
      BY <1>0
    <2>2. \A v \in BOOLEAN : LET b == [account[u] EXCEPT !.verified = v] IN
            b \in Account /\ \A c \in Columns \ {"verified"} : b[c] = account[u][c]
      BY <2>1, RowsWithOneChange
    <2> QED
      BY <1>1, <2>2
  <1>3. /\ account' \in [User -> Account] /\ account'[u] = a
        /\ \A v \in User : v # u => account'[v] = account[v]
    BY <1>0, <1>1, <1>2
  <1>4. BaseInv'
    BY <1>0, <1>3 DEF BaseInv, TypeOK, storage, history
  <1> QED
    BY <1>0, <1>2, <1>3, <1>4

LEMMA ResetSteps ==
  ASSUME BaseInv, NEW u \in Client, ResetPassword(u)
  PROVE  /\ BaseInv' /\ UNCHANGED <<registered, lastToken, storage, req, lost, unsure>>
         /\ u \in User
         /\ \A v \in User : v # u => account'[v] = account[v]
         /\ account'[u]["resetToken"] = None
         /\ \A c \in Columns \ {"resetToken"} : account'[u][c] = account[u][c]
         /\ account[u]["resetToken"] # None
         /\ used' = used \cup {account[u]["resetToken"]}
  <1>0. /\ u \in User /\ account \in [User -> Account]
        /\ UNCHANGED <<registered, lastToken, storage, req, scene, lost, unsure>>
        /\ account' = [account EXCEPT ![u].resetToken = None]
        /\ account[u]["resetToken"] # None
        /\ used' = used \cup {account[u]["resetToken"]}
    BY AccountsConstants DEF ResetPassword, BaseInv, TypeOK
  <1>1. PICK a : a = [account[u] EXCEPT !.resetToken = None]
    OBVIOUS
  <1>2. /\ a \in Account /\ a["resetToken"] = None
        /\ \A c \in Columns \ {"resetToken"} : a[c] = account[u][c]
    BY <1>0, <1>1, RowsWithOneChange
  <1>3. /\ account' \in [User -> Account] /\ account'[u] = a
        /\ \A v \in User : v # u => account'[v] = account[v]
    BY <1>0, <1>1, <1>2
  <1>4. account[u]["resetToken"] \in Token
    BY <1>0, AccountFields
  <1>5. BaseInv'
    BY <1>0, <1>3, <1>4 DEF BaseInv, TypeOK, storage
  <1> QED
    BY <1>0, <1>2, <1>3, <1>5

\* Initially.
LEMMA InitBaseInv == Init => BaseInv
  <1> SUFFICES ASSUME Init
               PROVE  BaseInv
    OBVIOUS
  <1>1. PICK f : f = [NewAccount EXCEPT !.role = "admin", !.verified = TRUE]
    OBVIOUS
  <1>2. f \in Account
    BY <1>1, NewAccountIs DEF Account, Role
  <1>3. account \in [User -> Account]
    BY <1>1, <1>2, NewAccountIs DEF Init
  <1>4. req \in [Proc -> Request] /\ \A p \in Proc : Shape(req[p])
    <2>1. req = [p \in Proc |-> Idle] /\ Idle \in Request
      BY IdleIs DEF Init
    <2> QED
      BY <2>1, IdleHasShape
  <1> QED
    BY <1>3, <1>4, AccountsConstants DEF Init, BaseInv, TypeOK

-----------------------------------------------------------------------------
(***************************************************************************)
(* An administrator remains.  Whoever holds the lock for role changes is   *)
(* alone, and leaves an administrator behind.                              *)
(***************************************************************************)
Leaves(p) ==
  At(p, "change") /\ req[p].role # "admin" => Administrators \ {req[p].user} # {}

AdminInv ==
  /\ BaseInv
  /\ \A p, q \in Proc : At(p, "change") /\ At(q, "change") => p = q
  /\ AnAdministratorRemains
  /\ lost["role"] # {} \/ \A p \in Proc : Leaves(p)

\* No save means the role.
LEMMA RolesAreNotMeant ==
  ASSUME BaseInv, NEW p \in Proc, req[p].pc \in {"save", "write"}
  PROVE  "role" \notin req[p].own
  BY RowsAre DEF Shape, Handling

\* Steps that change no role and take no lock.
LEMMA RolesStay ==
  ASSUME AdminInv, BaseInv', NEW p \in Proc, lost["role"] \subseteq lost'["role"],
         Administrators' = Administrators,
         \A q \in Proc : At(q, "change")' => At(q, "change") /\ req'[q] = req[q]
  PROVE  AdminInv'
  BY DEF AdminInv, AnAdministratorRemains, Leaves, At

LEMMA NextAdminInv == AdminInv /\ [Next]_vars => AdminInv'
  <1> SUFFICES ASSUME AdminInv, [Next]_vars
               PROVE  AdminInv'
    OBVIOUS
  <1>0. BaseInv /\ registered \subseteq User /\ Idle.pc = "idle"
    BY IdleIs DEF AdminInv, BaseInv, TypeOK
  <1>1. ASSUME UNCHANGED <<registered, account>>
        PROVE  Administrators' = Administrators
    BY <1>1 DEF Administrators
  <1>2. ASSUME NEW u \in User, registered' = registered,
               \A v \in User : v # u => account'[v] = account[v],
               account'[u]["role"] = account[u]["role"]
        PROVE  Administrators' = Administrators
    BY <1>0, <1>2 DEF Administrators
  <1>3. ASSUME NEW p \in Proc, NEW r, Moves(p, r), r.pc # "change"
        PROVE  \A q \in Proc : At(q, "change")' => At(q, "change") /\ req'[q] = req[q]
    BY <1>3 DEF Moves, At
  <1>4. ASSUME NEW p \in Proc, NEW r, Moves(p, r), r.pc # "change", BaseInv',
               lost["role"] \subseteq lost'["role"], Administrators' = Administrators
        PROVE  AdminInv'
    BY <1>3, <1>4, RolesStay
  <1>5. CASE UNCHANGED vars
    BY <1>0, <1>5 DEF vars, storage, history, AdminInv, BaseInv, TypeOK, AnAdministratorRemains, Administrators,
                      Leaves, At
  <1>6. ASSUME NEW p \in Proc,
               \/ BeginRegister(p) \/ BeginRoleChange(p) \/ LockRole(p)
               \/ \E u \in Client : UpdateProfile(p, u) \/ UpdateUserStatus(p, u)
        PROVE  AdminInv'
    <2>1. /\ BaseInv' /\ UNCHANGED <<rows, storage, history>>
          /\ \E r : Moves(p, r) /\ Harmless(r) /\ (r.pc = "change" => LockRole(p))
      BY <1>0, <1>6, QuietSteps
    <2>2. Administrators' = Administrators /\ lost' = lost
      BY <1>1, <2>1 DEF rows, history
    <2>3. PICK r : Moves(p, r) /\ (r.pc = "change" => LockRole(p))
      BY <2>1
    <2>4. CASE r.pc # "change"
      BY <1>4, <2>1, <2>2, <2>3, <2>4
    <2>5. CASE r.pc = "change"
      <3>1. LockRole(p) /\ Idle.pc # "change"
        BY <2>3, <2>5, IdleIs
      <3>2. /\ \A q \in Proc : ~At(q, "change")
            /\ req'[p] = r /\ \A q \in Proc : q # p => req'[q] = req[q]
        BY <2>3, <3>1 DEF LockRole, RolesAreFree, Moves
      <3>3. /\ req[p] \in Request
            /\ Become(p, [req[p] EXCEPT !.pc = "change"])
            /\ ~ (/\ account[req[p].user].role = "admin" /\ req[p].role # "admin"
                  /\ req[p].actor = req[p].user \/ Cardinality(Administrators) <= 1)
        <4>1. req \in [Proc -> Request] /\ req[p] \in Request
          BY <1>0 DEF BaseInv, TypeOK
        <4>2. ~Become(p, Idle)
          <5>1. ASSUME Become(p, Idle)
                PROVE  FALSE
            <6>1. req'[p] = Idle
              BY <4>1, <5>1 DEF Become
            <6> QED
              BY <2>5, <3>1, <3>2, <6>1
          <5> QED
            BY <5>1
        <4> QED
          BY <3>1, <4>1, <4>2 DEF LockRole
      <3>4. r.role = req[p].role /\ r.user = req[p].user
        BY <1>0, <3>2, <3>3 DEF Become, BaseInv, TypeOK, Request
      <3>5. ASSUME r.role # "admin", Administrators # {}
            PROVE  Administrators \ {r.user} # {}
        <4>1. SUFFICES ASSUME Administrators = {r.user}
                       PROVE  FALSE
          BY <3>5
        <4>2. Cardinality(Administrators) = 1
          BY <4>1, FS_Singleton
        <4>3. account[r.user].role = "admin"
          BY <4>1 DEF Administrators
        <4> QED
          BY <3>3, <3>4, <3>5, <4>2, <4>3
      <3>6. lost["role"] = {} => Leaves(p)'
        BY <2>2, <3>2, <3>5 DEF AdminInv, AnAdministratorRemains, Leaves, At
      <3>7. \A q \in Proc : q # p => ~At(q, "change")'
        BY <3>2 DEF At
      <3> QED
        BY <2>1, <2>2, <3>6, <3>7 DEF AdminInv, AnAdministratorRemains, Leaves
    <2> QED
      BY <2>4, <2>5
  <1>7. ASSUME NEW p \in Proc, CreateUser(p) \/ CreateOAuthUser(p)
        PROVE  AdminInv'
    <2>1. BaseInv' /\ UNCHANGED history /\ Moves(p, Idle)
      BY <1>0, <1>7, CreateSteps
    <2>2. Administrators' = Administrators
      <3>1. CASE UNCHANGED rows
        BY <1>1, <3>1 DEF rows
      <3>2. ASSUME NEW u \in User \ registered,
                   \A v \in User : v # u => account'[v] = account[v],
                   account'[u]["role"] = "user", registered' = registered \cup {u}
            PROVE  Administrators' = Administrators
        BY <1>0, <3>2 DEF Administrators
      <3> QED
        BY <1>0, <1>7, <3>1, <3>2, CreateSteps
    <2> QED
      BY <1>0, <1>4, <2>1, <2>2 DEF history
  <1>8. ASSUME NEW p \in Proc, NEW u \in Client,
               \/ ResendVerificationEmail(p, u) \/ RequestPasswordReset(p, u)
               \/ VerifyEmail(p, u) \/ UpdateAvatar(p, u)
        PROVE  AdminInv'
    <2>1. /\ BaseInv' /\ UNCHANGED <<registered, account, lost>>
          /\ \E r : Moves(p, r) /\ r.pc # "change"
      BY <1>0, <1>8, IssueSteps, VerifySteps, UploadSteps DEF rows, history
    <2> QED
      BY <1>1, <1>4, <2>1
  <1>9. ASSUME NEW p \in Proc, StoreAvatar(p) \/ Reload(p) \/ DeletePrevious(p) \/ Fail(p)
        PROVE  AdminInv'
    <2>1. /\ BaseInv' /\ UNCHANGED <<registered, account, lost>>
          /\ \E r : Moves(p, r) /\ r.pc # "change"
      BY <1>0, <1>9, StoreSteps, ReloadSteps, CleanSteps, FailSteps DEF rows, history
    <2> QED
      BY <1>1, <1>4, <2>1
  <1>10. ASSUME NEW p \in Proc, Write(p) \/ AnswerLost(p)
         PROVE  AdminInv'
    <2>1. /\ BaseInv' /\ registered' = registered /\ req[p].user \in User
          /\ req[p].pc = "write"
          /\ \A u \in User : u # req[p].user => account'[u] = account[u]
          /\ \A c \in Columns :
               account'[req[p].user][c] = IF c \in req[p].differ THEN req[p].entity[c]
                                          ELSE account[req[p].user][c]
          /\ \A c \in Kept :
               /\ lost[c] \subseteq lost'[c]
               /\ c \in req[p].differ \ req[p].own => req[p].entity[c] \in lost'[c]
      BY <1>0, <1>10, UpdateSteps
    <2>2. \E r : Moves(p, r) /\ r.pc # "change"
      BY <1>0, <1>10, UpdateSteps
    <2>3. "role" \in Kept
      BY DEF Kept, Columns
    <2>4. CASE "role" \in req[p].differ
      <3>1. lost'["role"] # {}
        BY <1>0, <2>1, <2>4, <2>3, RolesAreNotMeant
      <3>2. \A q \in Proc : At(q, "change")' => At(q, "change") /\ req'[q] = req[q]
        BY <1>3, <2>2
      <3> QED
        BY <2>1, <3>1, <3>2 DEF AdminInv, AnAdministratorRemains
    <2>5. CASE "role" \notin req[p].differ
      <3>1. account'[req[p].user]["role"] = account[req[p].user]["role"]
        BY <2>1, <2>5 DEF Columns
      <3>2. Administrators' = Administrators
        BY <1>2, <2>1, <3>1
      <3> QED
        BY <1>4, <2>1, <2>2, <2>3, <3>2
    <2> QED
      BY <2>4, <2>5
  <1>11. ASSUME NEW p \in Proc, ChangeRole(p)
         PROVE  AdminInv'
    <2>1. /\ BaseInv' /\ registered' = registered /\ lost' = lost /\ Moves(p, Idle)
          /\ req[p].pc = "change" /\ req[p].user \in User
          /\ \A u \in User : u # req[p].user => account'[u] = account[u]
          /\ account'[req[p].user]["role"] = req[p].role
      BY <1>0, <1>11, ChangeSteps DEF history
    <2>2. \A q \in Proc : ~At(q, "change")'
      BY <1>0, <2>1 DEF Moves, At, AdminInv
    <2>3. lost["role"] = {} => Administrators' # {}
      <3>1. ASSUME lost["role"] = {}, req[p].role # "admin"
            PROVE  Administrators' # {}
        <4>1. PICK a \in Administrators : a # req[p].user
          BY <2>1, <3>1 DEF AdminInv, Leaves, At
        <4>2. a \in Administrators'
          BY <1>0, <2>1, <4>1 DEF Administrators
        <4> QED
          BY <4>2
      <3>2. ASSUME lost["role"] = {}, req[p].role = "admin"
            PROVE  Administrators' # {}
        <4>1. PICK a : a \in Administrators
          BY <3>2 DEF AdminInv, AnAdministratorRemains
        <4>2. a \in Administrators'
          BY <1>0, <2>1, <3>2, <4>1 DEF Administrators
        <4> QED
          BY <4>2
      <3> QED
        BY <3>1, <3>2
    <2> QED
      BY <2>1, <2>2, <2>3 DEF AdminInv, AnAdministratorRemains, Leaves
  <1>12. ASSUME NEW u \in Client, MarkAsVerified(u) \/ ResetPassword(u)
         PROVE  AdminInv'
    <2>1. /\ BaseInv' /\ u \in User /\ registered' = registered /\ req' = req /\ lost' = lost
          /\ \A v \in User : v # u => account'[v] = account[v]
          /\ account'[u]["role"] = account[u]["role"]
      BY <1>0, <1>12, MarkSteps, ResetSteps DEF Columns, history
    <2>2. Administrators' = Administrators
      BY <1>2, <2>1
    <2> QED
      BY <2>1, <2>2 DEF AdminInv, AnAdministratorRemains, Leaves, At
  <1> QED
    BY <1>5, <1>6, <1>7, <1>8, <1>9, <1>10, <1>11, <1>12 DEF Next, Step

LEMMA InitAdminInv == Init => AdminInv
  <1> SUFFICES ASSUME Init
               PROVE  AdminInv
    OBVIOUS
  <1>1. BaseInv
    BY InitBaseInv
  <1>2. \A p \in Proc : ~At(p, "change")
    BY IdleIs DEF Init, At
  <1>3. account[Founder]["role"] = "admin"
    BY AccountsConstants, NewAccountIs DEF Init, Account
  <1>4. Founder \in Administrators
    BY <1>3 DEF Init, Administrators
  <1> QED
    BY <1>1, <1>2, <1>4 DEF AdminInv, AnAdministratorRemains, Leaves

LEMMA AdministratorsInvariant == Spec => []AdminInv
  BY InitAdminInv, NextAdminInv, PTL DEF Spec

\* Every variable keeps its type, through every save of a whole entity.
THEOREM AccountsTypeCorrect == Spec => []TypeOK
  <1>1. AdminInv => TypeOK
    BY DEF AdminInv, BaseInv
  <1> QED
    BY <1>1, AdministratorsInvariant, PTL

\* However many administrators change roles at the same time, one of them
\* remains as long as no save takes a role from an older reading
\* (admin.service.ts:276-300).
THEOREM AnAdministratorAlwaysRemains == Spec => []AnAdministratorRemains
  <1>1. AdminInv => AnAdministratorRemains
    BY DEF AdminInv
  <1> QED
    BY <1>1, AdministratorsInvariant, PTL

-----------------------------------------------------------------------------
(***************************************************************************)
(* Used tokens are gone.  A token is seen in one column of one user only,  *)
(* by the row or by requests that have read it: so only saves of that user *)
(* can write it, and they mean it only when they issue it.                 *)
(***************************************************************************)
SeesToken(r, u, c, t) ==
  /\ r.user = u
  /\ r.entity[c] = t \/ (c = "verifyToken" /\ r.token = t)
TokenAt(u, c, t) == account[u][c] = t \/ \E p \in Proc : SeesToken(req[p], u, c, t)

\* What a request means to write in a column.
MeantBy(r, c) ==
  IF r.pc \in {"save", "write"} /\ c \in r.own THEN r.entity[c] ELSE None

TokensAreDrawn ==
  /\ used \subseteq 0 .. lastToken /\ None \notin used
  /\ \A u \in User, c \in TokenColumn : account[u][c] \in 0 .. lastToken
  /\ \A p \in Proc : /\ req[p].token \in 0 .. lastToken
                     /\ \A c \in TokenColumn : req[p].entity[c] \in 0 .. lastToken

TokensHaveAHome ==
  \A u, v \in User, c, d \in TokenColumn, t \in 1 .. lastToken :
    TokenAt(u, c, t) /\ TokenAt(v, d, t) => u = v /\ c = d

\* A request that uses a token and finds it in the row is going to clear it.
UsesFound(r) ==
  r.pc = "write" /\ r.token # None /\ account[r.user]["verifyToken"] = r.token =>
    "verifyToken" \in r.differ \/ r.token \in lost["verifyToken"]

\* A request that is about to issue the token t in column c.
IssuesAlone(p, c, t) ==
  /\ t \notin used
  /\ \A u \in User, d \in TokenColumn : account[u][d] # t
  /\ \A q \in Proc : req[q].token # t
  /\ \A q \in Proc, d \in TokenColumn : req[q].entity[d] = t => q = p /\ d = c

TokenInv ==
  /\ BaseInv /\ TokensAreDrawn /\ TokensHaveAHome /\ UsedTokensAreGone
  /\ \A p \in Proc : UsesFound(req[p])
  /\ \A p \in Proc, c \in TokenColumn :
       MeantBy(req[p], c) # None => IssuesAlone(p, c, MeantBy(req[p], c))

\* The token a request goes on with is its own, or the one its user's row holds.
CarriesToken(p, r) ==
  \/ r.token = None
  \/ r.user \in User /\ r.token = account[r.user]["verifyToken"]
  \/ r.user = req[p].user /\ r.token = req[p].token

\* What a request copies is seen where it was.
LEMMA TokensStayHome ==
  ASSUME NEW p \in Proc, NEW r, Moves(p, r), CarriesToken(p, r),
         \A c \in TokenColumn : Carries(p, r, c),
         \A u \in User, c \in TokenColumn :
           \/ account'[u][c] \in {None, account[u][c]}
           \/ u = req[p].user /\ account'[u][c] = req[p].entity[c],
         NEW u \in User, NEW c \in TokenColumn, NEW t, t # None, TokenAt(u, c, t)'
  PROVE  TokenAt(u, c, t)
  <1>1. \A q \in Proc : req'[q] = IF q = p THEN r ELSE req[q]
    BY DEF Moves
  <1>2. CASE account'[u][c] = t
    BY <1>2 DEF TokenAt, SeesToken
  <1>3. ASSUME NEW q \in Proc, SeesToken(req'[q], u, c, t)
        PROVE  TokenAt(u, c, t)
    <2>1. CASE q # p
      BY <1>1, <1>3, <2>1 DEF TokenAt
    <2>2. CASE q = p
      <3>1. SeesToken(r, u, c, t)
        BY <1>1, <1>3, <2>2
      <3>2. CASE r.entity[c] = t
        BY <3>1, <3>2 DEF TokenAt, SeesToken, Carries
      <3>3. CASE c = "verifyToken" /\ r.token = t
        BY <3>1, <3>3 DEF TokenAt, SeesToken, CarriesToken
      <3> QED
        BY <3>1, <3>2, <3>3 DEF SeesToken
    <2> QED
      BY <2>1, <2>2
  <1>4. account'[u][c] = t \/ \E q \in Proc : SeesToken(req'[q], u, c, t)
    BY DEF TokenAt, SeesToken
  <1> QED
    BY <1>2, <1>3, <1>4

\* A request goes on with copies of what there was, or gives its tokens up, and
\* no row changes in these columns.
LEMMA TokensMove ==
  ASSUME TokenInv, BaseInv', NEW p \in Proc, NEW r, Moves(p, r),
         lastToken' = lastToken, used' = used, lost' = lost,
         \A u \in User, c \in TokenColumn : account'[u][c] = account[u][c],
         CarriesToken(p, r), \A c \in TokenColumn : Carries(p, r, c),
         \A c \in TokenColumn : MeantBy(r, c) \in {None, MeantBy(req[p], c)},
         UsesFound(r)
  PROVE  TokenInv'
  <1>1. \A q \in Proc : req'[q] = IF q = p THEN r ELSE req[q]
    BY DEF Moves
  <1>2. "verifyToken" \in TokenColumn
    BY DEF TokenColumn
  <1>3. TokensAreDrawn'
    <2>1. TokensAreDrawn /\ None \in 0 .. lastToken
      BY AccountsConstants DEF TokenInv, BaseInv, TypeOK, None
    <2>2. r.token \in 0 .. lastToken
      BY <1>2, <2>1 DEF CarriesToken, TokensAreDrawn
    <2>3. \A c \in TokenColumn : r.entity[c] \in 0 .. lastToken
      BY <2>1 DEF Carries, TokensAreDrawn
    <2> QED
      BY <1>1, <2>1, <2>2, <2>3 DEF TokensAreDrawn
  <1>4. TokensHaveAHome'
    <2>1. \A u \in User, c \in TokenColumn, t \in 1 .. lastToken :
            TokenAt(u, c, t)' => TokenAt(u, c, t)
      BY TokensStayHome DEF None
    <2> QED
      BY <2>1 DEF TokenInv, TokensHaveAHome
  <1>5. UsedTokensAreGone'
    BY DEF TokenInv, UsedTokensAreGone, TokenColumn
  <1>6. ASSUME NEW q \in Proc
        PROVE  UsesFound(req[q])'
    <2>1. UsesFound(req'[q]) /\ (req'[q].pc = "write" => req'[q].user \in User)
      BY <1>1 DEF TokenInv, Moves, Shape, BaseInv
    <2> QED
      BY <1>2, <2>1 DEF UsesFound
  <1>7. ASSUME NEW q \in Proc, NEW c \in TokenColumn, MeantBy(req'[q], c) # None
        PROVE  IssuesAlone(q, c, MeantBy(req[q], c))'
    <2>1. PICK t : t = MeantBy(req'[q], c)
      OBVIOUS
    <2>2. t = MeantBy(req[q], c) /\ t # None
      BY <1>1, <1>7, <2>1
    <2>3. IssuesAlone(q, c, t)
      BY <2>2 DEF TokenInv
    <2>4. r.token # t
      BY <1>2, <2>2, <2>3 DEF IssuesAlone, CarriesToken
    <2>5. \A d \in TokenColumn : r.entity[d] = t => req[p].entity[d] = t
      BY <2>2, <2>3 DEF IssuesAlone, Carries
    <2>6. IssuesAlone(q, c, t)'
      BY <1>1, <2>3, <2>4, <2>5 DEF IssuesAlone
    <2> QED
      BY <2>1, <2>6
  <1> QED
    BY <1>3, <1>4, <1>5, <1>6, <1>7 DEF TokenInv

\* A save goes on with what it means to write; if it uses a token that the row
\* holds, the row differs.
LEMMA TokensKept ==
  ASSUME TokenInv, NEW p \in Proc, Reload(p)
  PROVE  TokenInv'
  <1>0. BaseInv
    BY DEF TokenInv
  <1>1. /\ BaseInv' /\ lastToken' = lastToken /\ used' = used /\ lost' = lost
        /\ account' = account /\ req[p].pc = "save" /\ Shape(req[p])
    BY <1>0, ReloadSteps, RowsAre DEF rows, history
  <1>2. TokenColumn \subseteq Given
    BY DEF TokenColumn, Given
  <1>3. CASE Moves(p, Idle)
    <2>1. /\ \A c \in TokenColumn : MeantBy(Idle, c) = None /\ Carries(p, Idle, c)
          /\ CarriesToken(p, Idle) /\ UsesFound(Idle)
      BY <1>2, IdleIs, NewCarriesNothing DEF MeantBy, CarriesToken, UsesFound
    <2> QED
      BY <1>1, <1>3, <2>1, TokensMove
  <1>4. ASSUME NEW r, Moves(p, r), r.pc = "write", r.user = req[p].user,
               r.own = req[p].own, r.token = req[p].token,
               \A c \in Given : Carries(p, r, c),
               \A c \in Columns :
                 /\ c \in r.differ <=> account[r.user][c] # req[p].entity[c]
                 /\ r.entity[c] = IF c \in r.differ THEN req[p].entity[c] ELSE NewAccount[c]
        PROVE  TokenInv'
    <2>1. UsesFound(r)
      <3>1. SUFFICES ASSUME r.token # None
                     PROVE  UsesFound(r)
        BY DEF UsesFound
      <3>2. req[p].entity["verifyToken"] = None
        BY <1>1, <1>4, <3>1 DEF Shape
      <3>3. account[r.user]["verifyToken"] = r.token => "verifyToken" \in r.differ
        BY <1>4, <3>1, <3>2 DEF Columns
      <3> QED
        BY <3>3 DEF UsesFound
    <2>2. ASSUME NEW c \in TokenColumn
          PROVE  MeantBy(r, c) \in {None, MeantBy(req[p], c)}
      <3>1. NewAccount[c] = None /\ c \in Columns
        BY NewAccountIs DEF TokenColumn, Columns
      <3> QED
        BY <1>1, <1>4, <3>1 DEF MeantBy
    <2> QED
      BY <1>1, <1>2, <1>4, <2>1, <2>2, TokensMove DEF CarriesToken
  <1> QED
    BY <1>0, <1>3, <1>4, ReloadSteps

\* A token that has just been drawn is nowhere.
LEMMA NewTokenIsNowhere ==
  ASSUME TokenInv, NEW t, t = lastToken + 1
  PROVE  /\ t \notin 0 .. lastToken /\ t # None /\ t \notin used /\ t \in 1 .. t
         /\ None \in 0 .. lastToken
         /\ 0 .. lastToken \subseteq 0 .. t /\ 1 .. t = (1 .. lastToken) \cup {t}
         /\ \A u \in User, c \in TokenColumn : account[u][c] # t
         /\ \A q \in Proc : req[q].token # t
         /\ \A q \in Proc, d \in TokenColumn : req[q].entity[d] # t
         /\ \A q \in Proc, d \in TokenColumn : MeantBy(req[q], d) # t
  <1>1. lastToken \in Nat
    BY AccountsConstants DEF TokenInv, BaseInv, TypeOK
  <1>2. /\ t \notin 0 .. lastToken /\ t # None /\ None \in 0 .. lastToken
        /\ t \in 1 .. t /\ 0 .. lastToken \subseteq 0 .. t
        /\ 1 .. t = (1 .. lastToken) \cup {t}
    BY <1>1 DEF None
  <1>3. TokensAreDrawn
    BY DEF TokenInv
  <1>4. \A q \in Proc, d \in TokenColumn : req[q].entity[d] # t
    BY <1>2, <1>3 DEF TokensAreDrawn
  <1> QED
    BY <1>2, <1>3, <1>4 DEF TokensAreDrawn, MeantBy

\* A token is drawn for a column of a user.
LEMMA TokensIssued ==
  ASSUME TokenInv, NEW p \in Proc, NEW u \in Client,
         ResendVerificationEmail(p, u) \/ RequestPasswordReset(p, u)
  PROVE  TokenInv'
  <1>0. BaseInv /\ u \in User
    BY AccountsConstants DEF TokenInv
  <1>1. /\ BaseInv' /\ account' = account /\ used' = used /\ lost' = lost
        /\ lastToken' = lastToken + 1
    BY <1>0, IssueSteps DEF history
  <1>2. PICK r, c : /\ Moves(p, r) /\ c \in TokenColumn /\ r.pc = "save" /\ r.user = u
                    /\ r.own = {c} /\ r.entity[c] = lastToken + 1 /\ r.token = None
                    /\ \A d \in Given : d # c => r.entity[d] = account[u][d]
    BY <1>0, IssueSteps
  <1>3. PICK t : t = lastToken + 1
    OBVIOUS
  <1>4. /\ t \notin 0 .. lastToken /\ t # None /\ t \notin used /\ t \in 1 .. t
        /\ None \in 0 .. lastToken
        /\ 0 .. lastToken \subseteq 0 .. t /\ 1 .. t = (1 .. lastToken) \cup {t}
        /\ \A v \in User, d \in TokenColumn : account[v][d] # t
        /\ \A q \in Proc : req[q].token # t
        /\ \A q \in Proc, d \in TokenColumn : req[q].entity[d] # t
        /\ \A q \in Proc, d \in TokenColumn : MeantBy(req[q], d) # t
    BY <1>3, NewTokenIsNowhere
  <1>5. /\ \A q \in Proc : req'[q] = IF q = p THEN r ELSE req[q]
        /\ TokenColumn \subseteq Given
    BY <1>2 DEF Moves, TokenColumn, Given
  <1>6. \A d \in TokenColumn : MeantBy(r, d) = IF d = c THEN t ELSE None
    BY <1>2, <1>3 DEF MeantBy
  <1>7. TokensAreDrawn'
    <2>1. t \in 0 .. t
      BY <1>4 DEF TokenInv, BaseInv, TypeOK
    <2>2. \A d \in TokenColumn : r.entity[d] \in 0 .. t
      BY <1>0, <1>2, <1>3, <1>4, <1>5, <2>1 DEF TokenInv, TokensAreDrawn
    <2> QED
      BY <1>1, <1>2, <1>3, <1>4, <1>5, <2>2 DEF TokenInv, TokensAreDrawn
  <1>8. TokensHaveAHome'
    <2>1. ASSUME NEW v \in User, NEW d \in TokenColumn, NEW x \in 1 .. lastToken,
                 TokenAt(v, d, x)'
          PROVE  TokenAt(v, d, x)
      <3>1. CASE account'[v][d] = x
        BY <1>1, <3>1 DEF TokenAt
      <3>2. ASSUME NEW q \in Proc, SeesToken(req'[q], v, d, x)
            PROVE  TokenAt(v, d, x)
        <4>1. x # t /\ x # None
          BY <1>4 DEF None
        <4> QED
          BY <1>2, <1>3, <1>5, <3>2, <4>1 DEF TokenAt, SeesToken
      <3> QED
        BY <2>1, <3>1, <3>2 DEF TokenAt, SeesToken
    <2>2. ASSUME NEW v \in User, NEW d \in TokenColumn, TokenAt(v, d, t)'
          PROVE  v = u /\ d = c
      <3>1. PICK q \in Proc : SeesToken(req'[q], v, d, t)
        BY <1>1, <1>4, <2>2 DEF TokenAt, SeesToken
      <3> QED
        BY <1>0, <1>2, <1>4, <1>5, <3>1 DEF SeesToken
    <2> QED
      BY <1>1, <1>3, <1>4, <2>1, <2>2 DEF TokenInv, TokensHaveAHome
  <1>9. UsedTokensAreGone'
    BY <1>1 DEF TokenInv, UsedTokensAreGone
  <1>10. ASSUME NEW q \in Proc
         PROVE  UsesFound(req[q])'
    <2>1. UsesFound(req'[q])
      BY <1>2, <1>5 DEF TokenInv, UsesFound
    <2> QED
      BY <1>1, <2>1 DEF UsesFound
  <1>11. ASSUME NEW q \in Proc, NEW d \in TokenColumn, MeantBy(req'[q], d) # None
         PROVE  IssuesAlone(q, d, MeantBy(req[q], d))'
    <2>1. PICK x : x = MeantBy(req'[q], d)
      OBVIOUS
    <2>2. CASE q = p
      <3>1. d = c /\ x = t
        BY <1>5, <1>6, <1>11, <2>1, <2>2
      <3>2. \A s \in Proc : req'[s].token # t
        BY <1>2, <1>4, <1>5
      <3>3. \A e \in TokenColumn : r.entity[e] = t => e = c
        BY <1>0, <1>2, <1>4, <1>5
      <3>4. \A s \in Proc, e \in TokenColumn : req'[s].entity[e] = t => s = q /\ e = d
        BY <1>4, <1>5, <2>2, <3>1, <3>3
      <3>5. IssuesAlone(q, d, x)'
        BY <1>1, <1>4, <3>1, <3>2, <3>4 DEF IssuesAlone
      <3> QED
        BY <2>1, <3>5
    <2>3. CASE q # p
      <3>1. IssuesAlone(q, d, x) /\ x # t /\ x # None
        BY <1>4, <1>5, <1>11, <2>1, <2>3 DEF TokenInv
      <3>2. \A s \in Proc : req'[s].token # x
        BY <1>2, <1>5, <3>1 DEF IssuesAlone
      <3>3. \A e \in TokenColumn : r.entity[e] # x
        BY <1>0, <1>2, <1>3, <1>5, <3>1 DEF IssuesAlone
      <3>4. \A s \in Proc, e \in TokenColumn : req'[s].entity[e] = x => s = q /\ e = d
        BY <1>5, <3>1, <3>3 DEF IssuesAlone
      <3>5. IssuesAlone(q, d, x)'
        BY <1>1, <3>1, <3>2, <3>4 DEF IssuesAlone
      <3> QED
        BY <2>1, <3>5
    <2> QED
      BY <2>2, <2>3
  <1> QED
    BY <1>1, <1>7, <1>8, <1>9, <1>10, <1>11 DEF TokenInv

\* A new row holds no token, or one that has just been drawn.
LEMMA TokensCreated ==
  ASSUME TokenInv, NEW p \in Proc, CreateUser(p) \/ CreateOAuthUser(p)
  PROVE  TokenInv'
  <1>0. BaseInv
    BY DEF TokenInv
  <1>1. BaseInv' /\ used' = used /\ lost' = lost /\ Moves(p, Idle)
    BY <1>0, CreateSteps DEF history
  <1>2. /\ Idle.token = None /\ \A c \in TokenColumn : Idle.entity[c] = None
        /\ \A c \in TokenColumn : MeantBy(Idle, c) = None
        /\ Idle.user \notin User /\ Idle.pc # "write"
    BY IdleIs, NewAccountIs, AccountsConstants DEF MeantBy, TokenColumn
  <1>3. CASE UNCHANGED rows
    <2>1. /\ CarriesToken(p, Idle) /\ UsesFound(Idle)
          /\ \A c \in TokenColumn : Carries(p, Idle, c)
      BY <1>2 DEF CarriesToken, Carries, UsesFound
    <2> QED
      BY <1>1, <1>2, <1>3, <2>1, TokensMove DEF rows
  <1>4. ASSUME NEW u \in User,
               \A v \in User : v # u => account'[v] = account[v],
               account'[u]["resetToken"] = None,
               \/ account'[u]["verifyToken"] = None /\ lastToken' = lastToken
               \/ account'[u]["verifyToken"] = lastToken + 1 /\ lastToken' = lastToken + 1
        PROVE  TokenInv'
    <2>1. PICK t : t = lastToken + 1
      OBVIOUS
    <2>2. /\ t \notin 0 .. lastToken /\ t # None /\ t \notin used /\ t \in 1 .. t
          /\ None \in 0 .. lastToken
          /\ 0 .. lastToken \subseteq 0 .. t /\ 1 .. t = (1 .. lastToken) \cup {t}
          /\ \A v \in User, d \in TokenColumn : account[v][d] # t
          /\ \A q \in Proc : req[q].token # t
          /\ \A q \in Proc, d \in TokenColumn : req[q].entity[d] # t
          /\ \A q \in Proc, d \in TokenColumn : MeantBy(req[q], d) # t
      BY <2>1, NewTokenIsNowhere
    <2>3. 0 .. lastToken \subseteq 0 .. lastToken' /\ None \in 0 .. lastToken' /\ t \in 0 .. t
      BY <1>4, <2>1, <2>2 DEF TokenInv, BaseInv, TypeOK
    <2>4. \A q \in Proc : req'[q] = IF q = p THEN Idle ELSE req[q]
      BY <1>1 DEF Moves
    <2>5. \A v \in User, c \in TokenColumn :
            \/ account'[v][c] \in {None, account[v][c]}
            \/ /\ v = u /\ c = "verifyToken" /\ account'[v][c] = t /\ lastToken' = t
      BY <1>4, <2>1 DEF TokenColumn
    <2>6. TokensAreDrawn'
      BY <1>1, <1>2, <2>3, <2>4, <2>5 DEF TokenInv, TokensAreDrawn
    <2>7. TokensHaveAHome'
      <3>1. ASSUME NEW v \in User, NEW d \in TokenColumn, NEW x, x # None, TokenAt(v, d, x)'
            PROVE  TokenAt(v, d, x) \/ (x = t /\ v = u /\ d = "verifyToken" /\ lastToken' = t)
        <4>1. CASE account'[v][d] = x
          BY <2>5, <3>1, <4>1 DEF TokenAt
        <4>2. ASSUME NEW q \in Proc, SeesToken(req'[q], v, d, x)
              PROVE  TokenAt(v, d, x)
          BY <1>2, <2>4, <4>2 DEF TokenAt, SeesToken
        <4> QED
          BY <3>1, <4>1, <4>2 DEF TokenAt, SeesToken
      <3>2. \A v \in User, d \in TokenColumn : ~TokenAt(v, d, t)
        BY <2>2 DEF TokenAt, SeesToken
      <3>3. \A x \in 1 .. lastToken' : x # None /\ (x \in 1 .. lastToken \/ x = t)
        BY <1>4, <2>1, <2>2 DEF None
      <3> QED
        BY <3>1, <3>2, <3>3 DEF TokenInv, TokensHaveAHome
    <2>8. UsedTokensAreGone'
      BY <1>1, <2>2, <2>5 DEF TokenInv, TokensAreDrawn, UsedTokensAreGone, TokenColumn
    <2>9. ASSUME NEW q \in Proc
          PROVE  UsesFound(req[q])'
      <3>1. SUFFICES ASSUME req'[q].pc = "write", req'[q].token # None,
                            account'[req'[q].user]["verifyToken"] = req'[q].token
                     PROVE  \/ "verifyToken" \in req'[q].differ
                            \/ req'[q].token \in lost'["verifyToken"]
        BY DEF UsesFound
      <3>2. req'[q] = req[q] /\ req[q].user \in User /\ req[q].token # t
        BY <1>0, <1>2, <2>2, <2>4, <3>1 DEF BaseInv, Shape
      <3>3. account[req[q].user]["verifyToken"] = req[q].token
        BY <2>5, <3>1, <3>2 DEF TokenColumn
      <3> QED
        BY <1>1, <3>1, <3>2, <3>3 DEF TokenInv, UsesFound
    <2>10. ASSUME NEW q \in Proc, NEW d \in TokenColumn, MeantBy(req'[q], d) # None
           PROVE  IssuesAlone(q, d, MeantBy(req[q], d))'
      <3>1. PICK x : x = MeantBy(req'[q], d)
        OBVIOUS
      <3>2. IssuesAlone(q, d, x) /\ x # t /\ x # None
        BY <1>2, <2>2, <2>4, <2>10, <3>1 DEF TokenInv
      <3>3. /\ \A s \in Proc : req'[s].token # x
            /\ \A s \in Proc, e \in TokenColumn : req'[s].entity[e] = x => s = q /\ e = d
        BY <1>2, <2>4, <3>2 DEF IssuesAlone
      <3>4. IssuesAlone(q, d, x)'
        BY <1>1, <2>5, <3>2, <3>3 DEF IssuesAlone
      <3> QED
        BY <3>1, <3>4
    <2> QED
      BY <1>1, <2>6, <2>7, <2>8, <2>9, <2>10 DEF TokenInv
  <1> QED
    BY <1>0, <1>3, <1>4, CreateSteps

\* A token is used up: rows keep their tokens or lose them, and whichever row
\* held the token that is used gives it up.
LEMMA TokensReset ==
  ASSUME TokenInv, NEW u \in Client, MarkAsVerified(u) \/ ResetPassword(u)
  PROVE  TokenInv'
  <1>0. BaseInv
    BY DEF TokenInv
  <1>1. PICK t : t = IF MarkAsVerified(u) THEN None ELSE account[u]["resetToken"]
    OBVIOUS
  <1>2. /\ BaseInv' /\ lastToken' = lastToken /\ req' = req /\ lost' = lost
        /\ u \in User /\ used' \cup {None} = used \cup {t, None} /\ None \notin used'
        /\ \A v \in User, c \in TokenColumn :
             \/ account'[v][c] = account[v][c] /\ (t = None \/ v # u \/ c # "resetToken")
             \/ v = u /\ c = "resetToken" /\ account'[v][c] = None
    <2>1. None \notin used
      BY DEF TokenInv, TokensAreDrawn
    <2>2. CASE MarkAsVerified(u)
      <3>1. TokenColumn \subseteq Columns \ {"verified"}
        BY DEF TokenColumn, Columns
      <3> QED
        BY <1>0, <1>1, <2>1, <2>2, <3>1, MarkSteps DEF history
    <2>3. CASE ~MarkAsVerified(u) /\ ResetPassword(u)
      <3>1. "verifyToken" \in Columns \ {"resetToken"}
        BY DEF Columns
      <3> QED
        BY <1>0, <1>1, <2>1, <2>3, <3>1, ResetSteps DEF TokenColumn
    <2> QED
      BY <2>2, <2>3
  <1>3. TokensAreDrawn /\ None \in 0 .. lastToken
    BY AccountsConstants DEF TokenInv, BaseInv, TypeOK, None
  <1>4. t = None \/ (TokenAt(u, "resetToken", t) /\ t \in 1 .. lastToken)
    BY <1>1, <1>2, <1>3, AccountsConstants
    DEF TokenAt, TokensAreDrawn, TokenColumn, TokenInv, BaseInv, TypeOK, None
  <1>5. TokensAreDrawn'
    <2>1. \A x \in used' : x \in 0 .. lastToken /\ x # None
      <3>1. t \in 0 .. lastToken
        BY <1>3, <1>4, AccountsConstants DEF TokenInv, BaseInv, TypeOK
      <3> QED
        BY <1>2, <1>3, <3>1 DEF TokensAreDrawn
    <2>2. \A v \in User, c \in TokenColumn : account'[v][c] \in 0 .. lastToken
      BY <1>2, <1>3 DEF TokensAreDrawn
    <2> QED
      BY <1>2, <1>3, <2>1, <2>2 DEF TokensAreDrawn
  <1>6. TokensHaveAHome'
    <2>1. \A v \in User, c \in TokenColumn, x \in 1 .. lastToken :
            TokenAt(v, c, x)' => TokenAt(v, c, x)
      BY <1>2 DEF TokenAt, SeesToken, None
    <2> QED
      BY <1>2, <2>1 DEF TokenInv, TokensHaveAHome
  <1>7. UsedTokensAreGone'
    <2>1. SUFFICES ASSUME NEW v \in User, NEW c \in TokenColumn, account'[v][c] \in used'
                   PROVE  account'[v][c] \in lost[c]
      BY <1>2 DEF UsedTokensAreGone, TokenColumn
    <2>2. /\ account'[v][c] = account[v][c] /\ account[v][c] # None
          /\ t = None \/ v # u \/ c # "resetToken"
      BY <1>2, <2>1
    <2>3. CASE account[v][c] \in used
      BY <2>2, <2>3 DEF TokenInv, UsedTokensAreGone, TokenColumn
    <2>4. CASE account[v][c] = t
      <3>1. TokenAt(v, c, t) /\ TokenAt(u, "resetToken", t) /\ t \in 1 .. lastToken
        BY <1>4, <2>2, <2>4 DEF TokenAt
      <3>2. v = u /\ c = "resetToken"
        BY <1>2, <3>1 DEF TokenInv, TokensHaveAHome, TokenColumn
      <3> QED
        BY <2>2, <2>4, <3>2
    <2> QED
      BY <1>2, <2>1, <2>2, <2>3, <2>4
  <1>8. ASSUME NEW q \in Proc
        PROVE  UsesFound(req[q])'
    <2>1. UsesFound(req[q]) /\ (req[q].pc = "write" => req[q].user \in User)
      BY <1>0 DEF TokenInv, BaseInv, Shape
    <2>2. "verifyToken" \in TokenColumn
      BY DEF TokenColumn
    <2> QED
      BY <1>2, <2>1, <2>2 DEF UsesFound
  <1>9. ASSUME NEW q \in Proc, NEW d \in TokenColumn, MeantBy(req'[q], d) # None
        PROVE  IssuesAlone(q, d, MeantBy(req[q], d))'
    <2>1. PICK x : x = MeantBy(req'[q], d)
      OBVIOUS
    <2>2. IssuesAlone(q, d, x) /\ x # None
      BY <1>2, <1>9, <2>1 DEF TokenInv
    <2>3. x # t
      BY <1>1, <1>2, <2>2 DEF IssuesAlone, TokenColumn
    <2>4. IssuesAlone(q, d, x)'
      BY <1>2, <2>2, <2>3 DEF IssuesAlone
    <2> QED
      BY <2>1, <2>4
  <1> QED
    BY <1>2, <1>5, <1>6, <1>7, <1>8, <1>9 DEF TokenInv

\* A save writes what it means and uses its token; whatever else it writes is
\* recorded as lost.
LEMMA TokensWritten ==
  ASSUME TokenInv, NEW p \in Proc, Write(p) \/ AnswerLost(p)
  PROVE  TokenInv'
  <1>0. BaseInv
    BY DEF TokenInv
  <1>1. PICK r, u : r = req[p] /\ u = r.user
    OBVIOUS
  <1>2. /\ BaseInv' /\ lastToken' = lastToken /\ r.pc = "write" /\ u \in User
        /\ \A v \in User : v # u => account'[v] = account[v]
        /\ \A c \in Columns : account'[u][c] = IF c \in r.differ THEN r.entity[c]
                                               ELSE account[u][c]
        /\ \A c \in Kept : /\ lost[c] \subseteq lost'[c]
                           /\ c \in r.differ \ r.own => r.entity[c] \in lost'[c]
        /\ used' = (used \cup {r.token}) \ {None}
    BY <1>0, <1>1, UpdateSteps
  <1>3. /\ TokenColumn \subseteq Columns /\ TokenColumn \subseteq Kept
        /\ TokenColumn \subseteq Given /\ "verifyToken" \in TokenColumn
    BY DEF TokenColumn, Columns, Kept, Given
  <1>4. PICK s : /\ Moves(p, s) /\ s.token = None /\ s.pc \in {"idle", "clean"}
                 /\ \A c \in Given : s.entity[c] = None
    BY <1>0, UpdateSteps
  <1>5. /\ \A q \in Proc : req'[q] = IF q = p THEN s ELSE req[q]
        /\ \A c \in TokenColumn : MeantBy(s, c) = None
        /\ CarriesToken(p, s) /\ \A c \in TokenColumn : Carries(p, s, c)
    BY <1>3, <1>4 DEF Moves, MeantBy, CarriesToken, Carries
  <1>6. \A v \in User, c \in TokenColumn :
          \/ account'[v][c] = account[v][c] /\ (v # u \/ c \notin r.differ)
          \/ v = u /\ c \in r.differ /\ account'[v][c] = r.entity[c]
    BY <1>2, <1>3
  <1>7. /\ TokensAreDrawn /\ None \in 0 .. lastToken /\ r.token \in 0 .. lastToken
        /\ \A c \in TokenColumn : r.entity[c] \in 0 .. lastToken
        /\ \A x \in 0 .. lastToken : x # None => x \in 1 .. lastToken
    BY <1>1, AccountsConstants DEF TokenInv, BaseInv, TypeOK, None, TokensAreDrawn
  \* What the save does not mean is recorded.
  <1>8. ASSUME NEW c \in TokenColumn, c \in r.differ, r.entity[c] # None
        PROVE  r.entity[c] \in lost'[c] \/ IssuesAlone(p, c, r.entity[c])
    <2>1. CASE c \notin r.own
      BY <1>2, <1>3, <1>8, <2>1
    <2>2. CASE c \in r.own
      <3>1. MeantBy(r, c) = r.entity[c]
        BY <1>2, <2>2 DEF MeantBy
      <3> QED
        BY <1>1, <1>8, <3>1 DEF TokenInv
    <2> QED
      BY <2>1, <2>2
  <1>9. TokensAreDrawn'
    <2>1. \A x \in used' : x \in 0 .. lastToken /\ x # None
      BY <1>2, <1>7 DEF TokensAreDrawn
    <2>2. \A v \in User, c \in TokenColumn : account'[v][c] \in 0 .. lastToken
      BY <1>6, <1>7 DEF TokensAreDrawn
    <2>3. \A q \in Proc : /\ req'[q].token \in 0 .. lastToken
                           /\ \A c \in TokenColumn : req'[q].entity[c] \in 0 .. lastToken
      BY <1>3, <1>4, <1>5, <1>7 DEF TokensAreDrawn
    <2> QED
      BY <1>2, <2>1, <2>2, <2>3 DEF TokensAreDrawn
  <1>10. TokensHaveAHome'
    <2>1. \A v \in User, c \in TokenColumn :
            \/ account'[v][c] \in {None, account[v][c]}
            \/ v = req[p].user /\ account'[v][c] = req[p].entity[c]
      BY <1>1, <1>6
    <2>2. \A v \in User, c \in TokenColumn, x \in 1 .. lastToken :
            TokenAt(v, c, x)' => TokenAt(v, c, x)
      BY <1>4, <1>5, <2>1, TokensStayHome DEF None
    <2> QED
      BY <1>2, <2>2 DEF TokenInv, TokensHaveAHome
  <1>11. UsedTokensAreGone'
    <2>1. SUFFICES ASSUME NEW v \in User, NEW c \in TokenColumn, NEW x,
                          x = account'[v][c], x \in used'
                   PROVE  x \in lost'[c]
      BY DEF UsedTokensAreGone, TokenColumn
    <2>2. x # None /\ (x \in used \/ x = r.token)
      BY <1>2, <2>1
    <2>3. CASE v = u /\ c \in r.differ /\ x = r.entity[c]
      <3>1. ASSUME IssuesAlone(p, c, x)
            PROVE  FALSE
        BY <1>1, <2>2, <3>1 DEF IssuesAlone
      <3> QED
        BY <1>8, <2>2, <2>3, <3>1
    <2>4. CASE x = account[v][c] /\ (v # u \/ c \notin r.differ)
      <3>1. CASE x \in used
        BY <1>2, <1>3, <2>4, <3>1 DEF TokenInv, UsedTokensAreGone, TokenColumn
      <3>2. CASE x = r.token
        <4>1. TokenAt(v, c, x) /\ TokenAt(u, "verifyToken", x) /\ x \in 1 .. lastToken
          BY <1>1, <1>7, <2>2, <2>4, <3>2 DEF TokenAt, SeesToken
        <4>2. v = u /\ c = "verifyToken"
          BY <1>2, <1>3, <4>1 DEF TokenInv, TokensHaveAHome
        <4>3. UsesFound(r)
          BY <1>1 DEF TokenInv
        <4>4. x \in lost["verifyToken"]
          BY <1>1, <1>2, <2>2, <2>4, <3>2, <4>2, <4>3 DEF UsesFound
        <4> QED
          BY <1>2, <1>3, <4>2, <4>4
      <3> QED
        BY <2>2, <3>1, <3>2
    <2> QED
      BY <1>6, <2>1, <2>3, <2>4
  <1>12. ASSUME NEW q \in Proc
         PROVE  UsesFound(req[q])'
    <2>1. SUFFICES ASSUME req'[q].pc = "write", req'[q].token # None,
                          account'[req'[q].user]["verifyToken"] = req'[q].token
                   PROVE  \/ "verifyToken" \in req'[q].differ
                          \/ req'[q].token \in lost'["verifyToken"]
      BY DEF UsesFound
    <2>2. q # p /\ req'[q] = req[q] /\ req[q].user \in User /\ UsesFound(req[q])
      BY <1>0, <1>4, <1>5, <2>1 DEF TokenInv, BaseInv, Shape
    <2>3. CASE account[req[q].user]["verifyToken"] = req[q].token
      BY <1>2, <1>3, <2>1, <2>2, <2>3 DEF UsesFound
    <2>4. CASE /\ "verifyToken" \in r.differ
               /\ r.entity["verifyToken"] = req[q].token
      <3>1. ~IssuesAlone(p, "verifyToken", r.entity["verifyToken"])
        BY <1>3, <2>4 DEF IssuesAlone
      <3> QED
        BY <1>3, <1>8, <2>1, <2>2, <2>4, <3>1
    <2> QED
      BY <1>3, <1>6, <2>1, <2>2, <2>3, <2>4
  <1>13. ASSUME NEW q \in Proc, NEW d \in TokenColumn, MeantBy(req'[q], d) # None
         PROVE  IssuesAlone(q, d, MeantBy(req[q], d))'
    <2>1. PICK x : x = MeantBy(req'[q], d)
      OBVIOUS
    <2>2. q # p /\ x = MeantBy(req[q], d) /\ x # None /\ IssuesAlone(q, d, x)
      BY <1>5, <1>13, <2>1 DEF TokenInv
    <2>3. x # r.token /\ \A c \in TokenColumn : r.entity[c] # x
      BY <1>1, <2>2 DEF IssuesAlone
    <2>4. \A v \in User, c \in TokenColumn : account'[v][c] # x
      BY <1>6, <2>2, <2>3 DEF IssuesAlone
    <2>5. /\ \A z \in Proc : req'[z].token # x
          /\ \A z \in Proc, e \in TokenColumn : req'[z].entity[e] = x => z = q /\ e = d
      BY <1>3, <1>4, <1>5, <2>2 DEF IssuesAlone
    <2>6. IssuesAlone(q, d, x)'
      BY <1>2, <2>2, <2>3, <2>4, <2>5 DEF IssuesAlone
    <2> QED
      BY <2>1, <2>6
  <1> QED
    BY <1>2, <1>9, <1>10, <1>11, <1>12, <1>13 DEF TokenInv

LEMMA InitTokenInv == Init => TokenInv
  <1> SUFFICES ASSUME Init
               PROVE  TokenInv
    OBVIOUS
  <1>1. PICK f : f = [NewAccount EXCEPT !.role = "admin", !.verified = TRUE]
    OBVIOUS
  <1>2. \A c \in TokenColumn : f[c] = None /\ NewAccount[c] = None
    BY <1>1, NewAccountIs DEF TokenColumn, Account
  <1>3. \A u \in User, c \in TokenColumn : account[u][c] = None
    BY <1>1, <1>2 DEF Init
  <1>4. \A p \in Proc : /\ req[p].token = None
                        /\ \A c \in TokenColumn : req[p].entity[c] = None
                        /\ \A c \in TokenColumn : MeantBy(req[p], c) = None
    BY <1>2, IdleIs DEF Init, MeantBy
  <1>5. lastToken = 0 /\ None \in 0 .. lastToken /\ used = {} /\ 1 .. lastToken = {}
    BY DEF Init, None
  <1>6. TokensAreDrawn /\ TokensHaveAHome
    BY <1>3, <1>4, <1>5 DEF TokensAreDrawn, TokensHaveAHome
  <1> QED
    BY <1>4, <1>5, <1>6, InitBaseInv DEF TokenInv, UsesFound, UsedTokensAreGone

LEMMA NextTokenInv == TokenInv /\ [Next]_vars => TokenInv'
  <1> SUFFICES ASSUME TokenInv, [Next]_vars
               PROVE  TokenInv'
    OBVIOUS
  <1>0. BaseInv /\ TokenColumn \subseteq Given /\ TokenColumn \subseteq Columns \ {"role"}
    BY DEF TokenInv, TokenColumn, Given, Columns
  <1>1. /\ UsesFound(Idle)
        /\ \A p \in Proc, c \in TokenColumn : Carries(p, Idle, c) /\ MeantBy(Idle, c) = None
        /\ \A p \in Proc : CarriesToken(p, Idle)
    BY <1>0, IdleIs, NewCarriesNothing DEF CarriesToken, UsesFound, MeantBy
  <1>2. CASE UNCHANGED vars
    BY <1>0, <1>2 DEF vars, storage, history, TokenInv, BaseInv, TypeOK, TokensAreDrawn,
      TokensHaveAHome, TokenAt, UsedTokensAreGone, UsesFound, IssuesAlone
  \* Steps that leave the tokens alone.
  <1>3. ASSUME NEW p \in Proc, NEW r, Moves(p, r), BaseInv', lost' = lost,
               lastToken' = lastToken, used' = used,
               \A u \in User, c \in TokenColumn : account'[u][c] = account[u][c],
               r.token = None, \A c \in TokenColumn : Carries(p, r, c),
               \A c \in TokenColumn : MeantBy(r, c) = None
        PROVE  TokenInv'
    <2>1. CarriesToken(p, r) /\ UsesFound(r)
      BY <1>3 DEF CarriesToken, UsesFound
    <2> QED
      BY <1>3, <2>1, TokensMove
  <1>5. ASSUME NEW p \in Proc,
               \/ BeginRegister(p) \/ BeginRoleChange(p) \/ LockRole(p)
               \/ \E u \in Client : UpdateProfile(p, u) \/ UpdateUserStatus(p, u)
        PROVE  TokenInv'
    <2>1. BaseInv' /\ UNCHANGED <<rows, storage, history>>
      BY <1>0, <1>5, QuietSteps
    <2>2. PICK r : Moves(p, r) /\ Harmless(r) /\ \A c \in Given : Carries(p, r, c)
      BY <1>0, <1>5, QuietSteps
    <2>3. r.token = None /\ \A c \in TokenColumn : MeantBy(r, c) = None
      BY <2>2 DEF Harmless, MeantBy, TokenColumn
    <2> QED
      BY <1>0, <1>3, <2>1, <2>2, <2>3 DEF rows, history
  <1>6. ASSUME NEW p \in Proc, NEW u \in Client, VerifyEmail(p, u)
        PROVE  TokenInv'
    <2>1. BaseInv' /\ UNCHANGED <<rows, storage, history>> /\ u \in User
      BY <1>0, <1>6, VerifySteps, AccountsConstants
    <2>2. PICK r : /\ Moves(p, r) /\ r.pc = "save" /\ r.user = u
                   /\ r.own = {"verified", "verifyToken"} /\ r.entity["verifyToken"] = None
                   /\ r.token = account[u]["verifyToken"]
                   /\ \A c \in Given : Carries(p, r, c)
      BY <1>0, <1>6, VerifySteps
    <2>3. /\ CarriesToken(p, r) /\ UsesFound(r)
          /\ \A c \in TokenColumn : MeantBy(r, c) = None
      BY <2>1, <2>2 DEF CarriesToken, UsesFound, MeantBy, TokenColumn
    <2> QED
      BY <1>0, <2>1, <2>2, <2>3, TokensMove DEF rows, history
  <1>7. ASSUME NEW p \in Proc, NEW u \in Client, UpdateAvatar(p, u)
        PROVE  TokenInv'
    <2>1. BaseInv' /\ UNCHANGED <<rows, storage, history>>
      BY <1>0, <1>7, UploadSteps
    <2>2. PICK r : Moves(p, r) /\ r.pc = "upload" /\ \A c \in Given : Carries(p, r, c)
      BY <1>0, <1>7, UploadSteps
    <2>3. r.token = None /\ \A c \in TokenColumn : MeantBy(r, c) = None
      BY <2>2 DEF Moves, Shape, MeantBy
    <2> QED
      BY <1>0, <1>3, <2>1, <2>2, <2>3 DEF rows, history
  <1>8. ASSUME NEW p \in Proc, StoreAvatar(p)
        PROVE  TokenInv'
    <2>1. BaseInv' /\ UNCHANGED <<rows, history>>
      BY <1>0, <1>8, StoreSteps
    <2>2. PICK r : /\ Moves(p, r) /\ r.token = None /\ r.own = {"avatar"}
                   /\ r.user = req[p].user
                   /\ \A c \in TokenColumn : r.entity[c] = req[p].entity[c]
      BY <1>0, <1>8, StoreSteps
    <2>3. \A c \in TokenColumn : MeantBy(r, c) = None /\ Carries(p, r, c)
      BY <2>2 DEF MeantBy, TokenColumn, Carries
    <2> QED
      BY <1>3, <2>1, <2>2, <2>3 DEF rows, history
  <1>9. ASSUME NEW p \in Proc, DeletePrevious(p) \/ Fail(p)
        PROVE  TokenInv'
    BY <1>0, <1>1, <1>3, <1>9, CleanSteps, FailSteps, IdleIs DEF rows, history
  <1>10. ASSUME NEW p \in Proc, ChangeRole(p)
         PROVE  TokenInv'
    <2>1. /\ BaseInv' /\ UNCHANGED <<lastToken, lost, used>> /\ Moves(p, Idle)
          /\ \A u \in User : u # req[p].user => account'[u] = account[u]
          /\ \A c \in Columns \ {"role"} : account'[req[p].user][c] = account[req[p].user][c]
      BY <1>0, <1>10, ChangeSteps DEF history
    <2>2. \A u \in User, c \in TokenColumn : account'[u][c] = account[u][c]
      BY <1>0, <2>1
    <2> QED
      BY <1>1, <1>3, <2>1, <2>2, IdleIs
  <1> QED
    BY <1>2, <1>5, <1>6, <1>7, <1>8, <1>9, <1>10, TokensKept, TokensIssued, TokensCreated,
       TokensReset, TokensWritten DEF Next, Step

\* A token that has verified an address or set a password is in no row any
\* more, whatever requests issue and use tokens at the same time
\* (users.service.ts:573-604, 674-705), unless a save of the user as it was
\* before has written that very token back.
THEOREM UsedTokensAreAlwaysGone == Spec => []UsedTokensAreGone
  <1>1. Spec => []TokenInv
    BY InitTokenInv, NextTokenInv, PTL DEF Spec
  <1>2. TokenInv => UsedTokensAreGone
    BY DEF TokenInv
  <1> QED
    BY <1>1, <1>2, PTL

-----------------------------------------------------------------------------
(***************************************************************************)
(* Avatars are stored.  A file is known to one user only, by the row or by *)
(* requests; the request that has stored it is alone with it until it has  *)
(* saved it, and a previous avatar is deleted only when the row has been   *)
(* given another.                                                          *)
(***************************************************************************)
KnowsFile(r, u, k) == r.user = u /\ (r.entity["avatar"] = k \/ r.key = k)
FileAt(u, k) == account[u]["avatar"] = k \/ \E p \in Proc : KnowsFile(req[p], u, k)

FilesAreDrawn ==
  /\ files \subseteq 0 .. lastKey /\ None \notin files
  /\ \A u \in User : account[u]["avatar"] \in 0 .. lastKey
  /\ \A p \in Proc : req[p].key \in 0 .. lastKey /\ req[p].entity["avatar"] \in 0 .. lastKey

FilesHaveAHome ==
  \A u, v \in User, k \in 1 .. lastKey : FileAt(u, k) /\ FileAt(v, k) => u = v

\* Of a file that is about to be deleted, only a save of the user as it was
\* before can have given the name to a row.
Abandons(r) ==
  r.pc = "clean" /\ r.key # None =>
    \A u \in User : account[u]["avatar"] = r.key => r.key \in lost["avatar"]

\* The request that has stored a file and not yet saved its name.
StoredAlone(p, k) ==
  /\ k \in files
  /\ req[p].pc = "write" => "avatar" \in req[p].differ
  /\ \A u \in User : account[u]["avatar"] # k
  /\ \A q \in Proc : req[q].key # k
  /\ \A q \in Proc : req[q].entity["avatar"] = k => q = p

AvatarInv ==
  /\ BaseInv /\ FilesAreDrawn /\ FilesHaveAHome /\ AvatarsAreStored
  /\ \A p \in Proc : Abandons(req[p])
  /\ \A p \in Proc : Names(req[p]) => StoredAlone(p, req[p].entity["avatar"])

\* The file a request goes on to replace is its own, or the one its row names.
CarriesKey(p, r) ==
  \/ r.key = None
  \/ r.user \in User /\ r.key = account[r.user]["avatar"]
  \/ r.user = req[p].user /\ r.key = req[p].key

\* What a request copies is known where it was.
LEMMA FilesStayHome ==
  ASSUME NEW p \in Proc, NEW r, Moves(p, r), CarriesKey(p, r) \/ r.user = NoUser,
         Carries(p, r, "avatar"),
         \A u \in User : \/ account'[u]["avatar"] \in {None, account[u]["avatar"]}
                         \/ u = req[p].user /\ account'[u]["avatar"] = req[p].entity["avatar"],
         NEW u \in User, NEW k, k # None, FileAt(u, k)'
  PROVE  FileAt(u, k)
  <1>1. \A q \in Proc : req'[q] = IF q = p THEN r ELSE req[q]
    BY DEF Moves
  <1>2. CASE account'[u]["avatar"] = k
    BY <1>2 DEF FileAt, KnowsFile
  <1>3. ASSUME NEW q \in Proc, KnowsFile(req'[q], u, k)
        PROVE  FileAt(u, k)
    <2>1. CASE q # p
      BY <1>1, <1>3, <2>1 DEF FileAt
    <2>2. CASE q = p
      <3>1. KnowsFile(r, u, k) /\ u # NoUser
        BY <1>1, <1>3, <2>2, AccountsConstants
      <3>2. CASE r.entity["avatar"] = k
        BY <3>1, <3>2 DEF FileAt, KnowsFile, Carries
      <3>3. CASE r.key = k
        BY <3>1, <3>3 DEF FileAt, KnowsFile, CarriesKey
      <3> QED
        BY <3>1, <3>2, <3>3 DEF KnowsFile
    <2> QED
      BY <2>1, <2>2
  <1>4. account'[u]["avatar"] = k \/ \E q \in Proc : KnowsFile(req'[q], u, k)
    BY DEF FileAt, KnowsFile
  <1> QED
    BY <1>2, <1>3, <1>4

\* A request goes on with its files or gives them up, and no row gets another
\* avatar; only a file that this request alone knows, or has replaced, is deleted.
LEMMA FilesMove ==
  ASSUME AvatarInv, BaseInv', NEW p \in Proc, NEW r, Moves(p, r),
         lastKey' = lastKey, lost' = lost, unsure' = unsure,
         files' \subseteq files,
         \A k \in files : \/ k \in files'
                          \/ Names(req[p]) /\ k = req[p].entity["avatar"] /\ ~Names(r)
                          \/ req[p].pc = "clean" /\ k = req[p].key,
         \A u \in User : account'[u]["avatar"] \in {None, account[u]["avatar"]},
         r.pc # "clean", CarriesKey(p, r), Carries(p, r, "avatar"),
         Names(r) => /\ Names(req[p]) /\ r.entity["avatar"] = req[p].entity["avatar"]
                     /\ r.pc = "write" => "avatar" \in r.differ
  PROVE  AvatarInv'
  <1>1. \A q \in Proc : req'[q] = IF q = p THEN r ELSE req[q]
    BY DEF Moves
  <1>2. FilesAreDrawn /\ None \in 0 .. lastKey
    BY AccountsConstants DEF AvatarInv, BaseInv, TypeOK, None
  <1>3. FilesAreDrawn'
    <2>1. r.key \in 0 .. lastKey /\ r.entity["avatar"] \in 0 .. lastKey
      BY <1>2 DEF FilesAreDrawn, CarriesKey, Carries
    <2>2. \A u \in User : account'[u]["avatar"] \in 0 .. lastKey
      BY <1>2 DEF FilesAreDrawn
    <2>3. files' \subseteq 0 .. lastKey /\ None \notin files'
      BY <1>2 DEF FilesAreDrawn
    <2> QED
      BY <1>1, <1>2, <2>1, <2>2, <2>3 DEF FilesAreDrawn
  <1>4. FilesHaveAHome'
    <2>1. \A u \in User, k \in 1 .. lastKey : FileAt(u, k)' => FileAt(u, k)
      BY FilesStayHome DEF None
    <2> QED
      BY <2>1 DEF AvatarInv, FilesHaveAHome
  <1>5. AvatarsAreStored'
    <2>1. SUFFICES ASSUME NEW u \in User, NEW k, k = account'[u]["avatar"], k # None,
                          k \notin lost["avatar"], k \notin unsure
                   PROVE  k \in files'
      BY DEF AvatarsAreStored
    <2>2. account[u]["avatar"] = k
      BY <2>1
    <2>3. k \in files
      BY <2>1, <2>2 DEF AvatarInv, AvatarsAreStored
    <2>4. ~(Names(req[p]) /\ k = req[p].entity["avatar"])
      BY <2>2 DEF AvatarInv, StoredAlone
    <2>5. ~(req[p].pc = "clean" /\ k = req[p].key)
      BY <2>1, <2>2 DEF AvatarInv, Abandons
    <2> QED
      BY <2>3, <2>4, <2>5
  <1>6. ASSUME NEW q \in Proc
        PROVE  Abandons(req[q])'
    <2>1. Abandons(req'[q])
      BY <1>1 DEF AvatarInv, Abandons
    <2> QED
      BY <2>1 DEF Abandons
  <1>7. ASSUME NEW q \in Proc, Names(req'[q])
        PROVE  StoredAlone(q, req[q].entity["avatar"])'
    <2>1. PICK k : k = req'[q].entity["avatar"]
      OBVIOUS
    <2>2. Names(req[q]) /\ k = req[q].entity["avatar"] /\ StoredAlone(q, k)
      BY <1>1, <1>7, <2>1 DEF AvatarInv
    <2>3. k # None
      BY <1>2, <2>2 DEF StoredAlone, FilesAreDrawn
    <2>4. k \in files'
      <3>1. k \in files /\ req[p].key # k /\ (req[p].entity["avatar"] = k => q = p)
        BY <2>2 DEF StoredAlone
      <3> QED
        BY <1>1, <1>7, <3>1
    <2>5. req'[q].pc = "write" => "avatar" \in req'[q].differ
      BY <1>1, <1>7, <2>2 DEF StoredAlone
    <2>6. \A u \in User : account'[u]["avatar"] # k
      BY <2>2, <2>3 DEF StoredAlone
    <2>7. r.key # k /\ (r.entity["avatar"] = k => req[p].entity["avatar"] = k)
      BY <2>2, <2>3 DEF StoredAlone, CarriesKey, Carries
    <2>8. /\ \A z \in Proc : req'[z].key # k
          /\ \A z \in Proc : req'[z].entity["avatar"] = k => z = q
      BY <1>1, <2>2, <2>7 DEF StoredAlone
    <2>9. StoredAlone(q, k)'
      BY <2>4, <2>5, <2>6, <2>8 DEF StoredAlone
    <2> QED
      BY <2>1, <2>9
  <1> QED
    BY <1>3, <1>4, <1>5, <1>6, <1>7 DEF AvatarInv

\* A file is stored under a key that nobody knows.
LEMMA FilesStored ==
  ASSUME AvatarInv, NEW p \in Proc, StoreAvatar(p)
  PROVE  AvatarInv'
  <1>0. BaseInv /\ FilesAreDrawn
    BY DEF AvatarInv
  <1>1. PICK k : k = lastKey + 1
    OBVIOUS
  <1>2. /\ BaseInv' /\ account' = account /\ lastKey' = k /\ files' = files \cup {k}
        /\ lost' = lost /\ unsure' = unsure
    BY <1>0, <1>1, StoreSteps DEF rows, history
  <1>3. PICK r : /\ Moves(p, r) /\ r.pc = "save" /\ r.user = req[p].user
                 /\ r.key = req[p].key /\ r.own = {"avatar"} /\ r.entity["avatar"] = k
    BY <1>0, <1>1, StoreSteps
  <1>4. lastKey \in Nat
    BY <1>0, AccountsConstants DEF BaseInv, TypeOK
  <1>5. /\ k \notin 0 .. lastKey /\ k # None /\ k \in 0 .. k /\ 0 .. lastKey \subseteq 0 .. k
        /\ None \in 0 .. lastKey /\ 1 .. k = (1 .. lastKey) \cup {k}
    BY <1>1, <1>4 DEF None
  <1>6. /\ k \notin files /\ \A u \in User : account[u]["avatar"] # k
        /\ \A q \in Proc : req[q].key # k
        /\ \A q \in Proc : req[q].entity["avatar"] # k
    BY <1>0, <1>5 DEF FilesAreDrawn
  <1>7. \A q \in Proc : req'[q] = IF q = p THEN r ELSE req[q]
    BY <1>3 DEF Moves
  <1>8. FilesAreDrawn'
    <2>1. files' \subseteq 0 .. k /\ None \notin files'
      BY <1>0, <1>2, <1>5 DEF FilesAreDrawn
    <2>2. \A q \in Proc : /\ req'[q].key \in 0 .. k
                          /\ req'[q].entity["avatar"] \in 0 .. k
      BY <1>0, <1>3, <1>5, <1>7 DEF FilesAreDrawn
    <2>3. \A u \in User : account[u]["avatar"] \in 0 .. k
      BY <1>0, <1>5 DEF FilesAreDrawn
    <2> QED
      BY <1>2, <2>1, <2>2, <2>3 DEF FilesAreDrawn
  <1>9. FilesHaveAHome'
    <2>1. ASSUME NEW u \in User, NEW x, x # k, FileAt(u, x)'
          PROVE  FileAt(u, x)
      <3>1. account[u]["avatar"] = x \/ \E q \in Proc : KnowsFile(req'[q], u, x)
        BY <1>2, <2>1 DEF FileAt, KnowsFile
      <3>2. ASSUME NEW q \in Proc, KnowsFile(req'[q], u, x)
            PROVE  FileAt(u, x)
        BY <1>3, <1>7, <2>1, <3>2 DEF FileAt, KnowsFile
      <3> QED
        BY <3>1, <3>2 DEF FileAt
    <2>2. ASSUME NEW u \in User, FileAt(u, k)'
          PROVE  u = req[p].user
      <3>1. \E q \in Proc : KnowsFile(req'[q], u, k)
        BY <1>2, <1>6, <2>2 DEF FileAt, KnowsFile
      <3> QED
        BY <1>3, <1>6, <1>7, <3>1 DEF KnowsFile
    <2> QED
      BY <1>2, <1>5, <2>1, <2>2 DEF AvatarInv, FilesHaveAHome
  <1>10. AvatarsAreStored'
    BY <1>2 DEF AvatarInv, AvatarsAreStored
  <1>11. ASSUME NEW q \in Proc
         PROVE  Abandons(req[q])'
    <2>1. Abandons(req'[q])
      BY <1>3, <1>7 DEF AvatarInv, Abandons
    <2> QED
      BY <1>2, <2>1 DEF Abandons
  <1>12. ASSUME NEW q \in Proc, Names(req'[q])
         PROVE  StoredAlone(q, req[q].entity["avatar"])'
    <2>1. PICK x : x = req'[q].entity["avatar"]
      OBVIOUS
    <2>2. CASE q = p
      <3>1. x = k /\ req'[q].pc = "save"
        BY <1>3, <1>7, <2>1, <2>2
      <3>2. /\ \A z \in Proc : req'[z].key # x
            /\ \A z \in Proc : req'[z].entity["avatar"] = x => z = q
        BY <1>3, <1>6, <1>7, <2>2, <3>1
      <3>3. StoredAlone(q, x)'
        BY <1>2, <1>6, <3>1, <3>2 DEF StoredAlone
      <3> QED
        BY <2>1, <3>3
    <2>3. CASE q # p
      <3>1. Names(req[q]) /\ req'[q] = req[q] /\ StoredAlone(q, x) /\ x # k
        BY <1>6, <1>7, <1>12, <2>1, <2>3 DEF AvatarInv
      <3>2. /\ \A z \in Proc : req'[z].key # x
            /\ \A z \in Proc : req'[z].entity["avatar"] = x => z = q
        BY <1>3, <1>7, <3>1 DEF StoredAlone
      <3>3. StoredAlone(q, x)'
        BY <1>2, <3>1, <3>2 DEF StoredAlone
      <3> QED
        BY <2>1, <3>3
    <2> QED
      BY <2>2, <2>3
  <1> QED
    BY <1>2, <1>8, <1>9, <1>10, <1>11, <1>12 DEF AvatarInv

\* A save goes on with the file it means to name: the row names another one.
LEMMA FilesKept ==
  ASSUME AvatarInv, NEW p \in Proc, Reload(p)
  PROVE  AvatarInv'
  <1>0. BaseInv
    BY DEF AvatarInv
  <1>1. /\ BaseInv' /\ lastKey' = lastKey /\ files' = files /\ account' = account
        /\ lost' = lost /\ unsure' = unsure
        /\ req[p].pc = "save" /\ req[p].user \in User
    BY <1>0, ReloadSteps DEF rows, storage, history
  <1>2. CASE Moves(p, Idle)
    <2>1. /\ CarriesKey(p, Idle) /\ Carries(p, Idle, "avatar") /\ ~Names(Idle)
          /\ Idle.pc # "clean"
      BY IdleIs, NewAccountIs DEF CarriesKey, Carries, Names
    <2> QED
      BY <1>1, <1>2, <2>1, FilesMove
  <1>3. ASSUME NEW r, Moves(p, r), r.pc = "write", r.user = req[p].user,
               r.own = req[p].own, r.key = req[p].key,
               \A c \in Given : Carries(p, r, c),
               \A c \in Columns :
                 /\ c \in r.differ <=> account[r.user][c] # req[p].entity[c]
                 /\ r.entity[c] = IF c \in r.differ THEN req[p].entity[c] ELSE NewAccount[c]
        PROVE  AvatarInv'
    <2>1. CarriesKey(p, r) /\ Carries(p, r, "avatar")
      BY <1>3 DEF CarriesKey, Given
    <2>2. ASSUME Names(r)
          PROVE  /\ Names(req[p]) /\ r.entity["avatar"] = req[p].entity["avatar"]
                 /\ "avatar" \in r.differ
      <3>1. Names(req[p])
        BY <1>1, <1>3, <2>2 DEF Names
      <3>2. account[r.user]["avatar"] # req[p].entity["avatar"]
        BY <1>1, <1>3, <3>1 DEF AvatarInv, StoredAlone
      <3> QED
        BY <1>3, <3>1, <3>2 DEF Columns
    <2> QED
      BY <1>1, <1>3, <2>1, <2>2, FilesMove
  <1> QED
    BY <1>0, <1>2, <1>3, ReloadSteps

\* A save names the file it has stored, or records what it writes as lost; then
\* the previous file is abandoned, or the error path deletes the new one.
LEMMA FilesWritten ==
  ASSUME AvatarInv, NEW p \in Proc, Write(p) \/ AnswerLost(p)
  PROVE  AvatarInv'
  <1>0. BaseInv /\ FilesAreDrawn
    BY DEF AvatarInv
  <1>1. PICK r, u, k : r = req[p] /\ u = r.user /\ k = r.entity["avatar"]
    OBVIOUS
  <1>2. /\ BaseInv' /\ lastKey' = lastKey /\ r.pc = "write" /\ u \in User
        /\ \A v \in User : v # u => account'[v] = account[v]
        /\ \A c \in Columns : account'[u][c] = IF c \in r.differ THEN r.entity[c]
                                               ELSE account[u][c]
        /\ \A c \in Kept : /\ lost[c] \subseteq lost'[c]
                           /\ c \in r.differ \ r.own => r.entity[c] \in lost'[c]
        /\ files' \subseteq files /\ unsure \subseteq unsure'
        /\ \A x \in files : x \in files' \/ (x \in unsure' /\ Names(r) /\ x = k)
    BY <1>0, <1>1, UpdateSteps
  <1>3. "avatar" \in Columns /\ "avatar" \in Kept /\ "avatar" \in Given
    BY DEF Columns, Kept, Given
  <1>4. PICK s : /\ Moves(p, s) /\ s.pc \in {"idle", "clean"} /\ s.user = NoUser
                 /\ s.entity["avatar"] = None
                 /\ s.key = None \/ (s.pc = "clean" /\ s.key = r.key)
    BY <1>0, <1>1, <1>3, UpdateSteps
  <1>5. /\ \A q \in Proc : req'[q] = IF q = p THEN s ELSE req[q]
        /\ ~Names(s)
    BY <1>4 DEF Moves, Names
  <1>6. /\ None \in 0 .. lastKey /\ k \in 0 .. lastKey /\ r.key \in 0 .. lastKey
        /\ \A x \in 0 .. lastKey : x # None => x \in 1 .. lastKey
        /\ Names(r) => StoredAlone(p, k) /\ k # None
        /\ r.key # None => Names(r)
    <2>1. r.key # None => r.own = {"avatar"}
      BY <1>0, <1>1, <1>2, RowsAre DEF Shape
    <2>2. Names(r) => StoredAlone(p, k)
      BY <1>1 DEF AvatarInv
    <2> QED
      BY <1>0, <1>1, <1>2, <2>1, <2>2, AccountsConstants
      DEF FilesAreDrawn, BaseInv, TypeOK, None, Names, StoredAlone
  <1>7. Names(r) => "avatar" \in r.differ
    BY <1>1, <1>2, <1>6 DEF StoredAlone
  <1>8. \A v \in User :
          \/ account'[v]["avatar"] = account[v]["avatar"] /\ (v # u \/ "avatar" \notin r.differ)
          \/ v = u /\ account'[v]["avatar"] = k /\ (Names(r) \/ k \in lost'["avatar"])
    BY <1>1, <1>2, <1>3 DEF Names
  <1>9. FilesAreDrawn'
    <2>1. files' \subseteq 0 .. lastKey /\ None \notin files'
      BY <1>0, <1>2 DEF FilesAreDrawn
    <2>2. \A v \in User : account'[v]["avatar"] \in 0 .. lastKey
      BY <1>0, <1>6, <1>8 DEF FilesAreDrawn
    <2>3. \A q \in Proc : /\ req'[q].key \in 0 .. lastKey
                          /\ req'[q].entity["avatar"] \in 0 .. lastKey
      BY <1>0, <1>4, <1>5, <1>6 DEF FilesAreDrawn
    <2> QED
      BY <1>2, <2>1, <2>2, <2>3 DEF FilesAreDrawn
  <1>10. FilesHaveAHome'
    <2>1. \A v \in User : \/ account'[v]["avatar"] \in {None, account[v]["avatar"]}
                          \/ v = req[p].user /\ account'[v]["avatar"] = req[p].entity["avatar"]
      BY <1>1, <1>8
    <2>2. Carries(p, s, "avatar")
      BY <1>4 DEF Carries
    <2>3. \A v \in User, x \in 1 .. lastKey : FileAt(v, x)' => FileAt(v, x)
      BY <1>4, <2>1, <2>2, FilesStayHome DEF None
    <2> QED
      BY <1>2, <2>3 DEF AvatarInv, FilesHaveAHome
  <1>11. AvatarsAreStored'
    <2>1. SUFFICES ASSUME NEW v \in User, NEW x, x = account'[v]["avatar"], x # None,
                          x \notin lost'["avatar"], x \notin unsure'
                   PROVE  x \in files'
      BY DEF AvatarsAreStored
    <2>2. x \in files
      <3>1. CASE account'[v]["avatar"] = account[v]["avatar"]
        BY <1>2, <1>3, <2>1, <3>1 DEF AvatarInv, AvatarsAreStored
      <3>2. CASE Names(r) /\ x = k
        BY <1>6, <3>2 DEF StoredAlone
      <3> QED
        BY <1>8, <2>1, <3>1, <3>2
    <2> QED
      BY <1>2, <2>1, <2>2
  <1>12. ASSUME NEW q \in Proc
         PROVE  Abandons(req[q])'
    <2>1. SUFFICES ASSUME NEW x, x = req'[q].key, req'[q].pc = "clean", x # None,
                          NEW v \in User, account'[v]["avatar"] = x
                   PROVE  x \in lost'["avatar"]
      BY DEF Abandons
    <2>2. x = req[q].key /\ x \in 1 .. lastKey
      <3>1. x = req[q].key
        BY <1>1, <1>4, <1>5, <2>1
      <3> QED
        BY <1>0, <1>6, <2>1, <3>1 DEF FilesAreDrawn
    <2>3. CASE v = u /\ x = k /\ (Names(r) \/ k \in lost'["avatar"])
      BY <1>6, <2>2, <2>3 DEF StoredAlone
    <2>4. CASE x = account[v]["avatar"] /\ (v # u \/ "avatar" \notin r.differ)
      <3>1. CASE q = p
        <4>1. FileAt(v, x) /\ FileAt(u, x)
          BY <1>1, <2>2, <2>4, <3>1 DEF FileAt, KnowsFile
        <4>2. v = u
          BY <1>2, <2>2, <4>1 DEF AvatarInv, FilesHaveAHome
        <4> QED
          BY <1>1, <1>6, <1>7, <2>1, <2>2, <2>4, <3>1, <4>2
      <3>2. CASE q # p
        <4>1. Abandons(req[q]) /\ req[q].pc = "clean"
          BY <1>5, <2>1, <3>2 DEF AvatarInv
        <4>2. x \in lost["avatar"]
          BY <2>1, <2>2, <2>4, <4>1 DEF Abandons
        <4> QED
          BY <1>2, <1>3, <4>2
      <3> QED
        BY <3>1, <3>2
    <2> QED
      BY <1>8, <2>1, <2>3, <2>4
  <1>13. ASSUME NEW q \in Proc, Names(req'[q])
         PROVE  StoredAlone(q, req[q].entity["avatar"])'
    <2>1. PICK x : x = req'[q].entity["avatar"]
      OBVIOUS
    <2>2. q # p /\ req'[q] = req[q] /\ Names(req[q]) /\ StoredAlone(q, x)
      BY <1>5, <1>13, <2>1 DEF AvatarInv
    <2>3. k # x
      BY <1>1, <2>2 DEF StoredAlone
    <2>4. x \in files'
      BY <1>2, <2>2, <2>3 DEF StoredAlone
    <2>5. \A v \in User : account'[v]["avatar"] # x
      BY <1>8, <2>2, <2>3 DEF StoredAlone
    <2>6. s.key # x /\ s.entity["avatar"] # x
      <3>1. x # None
        BY <1>0, <2>2 DEF StoredAlone, FilesAreDrawn
      <3> QED
        BY <1>1, <1>4, <2>2, <3>1 DEF StoredAlone
    <2>7. /\ \A z \in Proc : req'[z].key # x
          /\ \A z \in Proc : req'[z].entity["avatar"] = x => z = q
      BY <1>5, <2>2, <2>6 DEF StoredAlone
    <2>8. StoredAlone(q, x)'
      BY <2>2, <2>4, <2>5, <2>7 DEF StoredAlone
    <2> QED
      BY <2>1, <2>8
  <1> QED
    BY <1>2, <1>9, <1>10, <1>11, <1>12, <1>13 DEF AvatarInv

LEMMA InitAvatarInv == Init => AvatarInv
  <1> SUFFICES ASSUME Init
               PROVE  AvatarInv
    OBVIOUS
  <1>1. PICK f : f = [NewAccount EXCEPT !.role = "admin", !.verified = TRUE]
    OBVIOUS
  <1>2. f["avatar"] = None /\ NewAccount["avatar"] = None
    BY <1>1, NewAccountIs DEF Account
  <1>3. \A u \in User : account[u]["avatar"] = None
    BY <1>1, <1>2 DEF Init
  <1>4. \A p \in Proc : /\ req[p].key = None /\ req[p].entity["avatar"] = None
                        /\ req[p].pc = "idle" /\ ~Names(req[p])
    BY <1>2, IdleIs DEF Init, Names
  <1>5. files = {} /\ None \in 0 .. lastKey /\ 1 .. lastKey = {}
    BY DEF Init, None
  <1> QED
    BY <1>3, <1>4, <1>5, InitBaseInv
    DEF AvatarInv, FilesAreDrawn, FilesHaveAHome, AvatarsAreStored, Abandons

LEMMA NextAvatarInv == AvatarInv /\ [Next]_vars => AvatarInv'
  <1> SUFFICES ASSUME AvatarInv, [Next]_vars
               PROVE  AvatarInv'
    OBVIOUS
  <1>0. BaseInv /\ "avatar" \in Given
    BY DEF AvatarInv, Given
  <1>1. /\ Idle.key = None /\ ~Names(Idle) /\ Idle.pc = "idle"
        /\ \A p \in Proc : Carries(p, Idle, "avatar")
        /\ "avatar" \in Columns \ {"verified", "role", "resetToken"}
    BY IdleIs, NewAccountIs DEF Names, Columns, Carries
  <1>2. CASE UNCHANGED vars
    BY <1>0, <1>2 DEF vars, storage, history, AvatarInv, BaseInv, TypeOK, FilesAreDrawn,
      FilesHaveAHome, FileAt, AvatarsAreStored, Abandons, StoredAlone
  \* Steps that give up the files of a request.
  <1>3. ASSUME NEW p \in Proc, NEW r, Moves(p, r), r.key = None, ~Names(r), r.pc # "clean",
               Carries(p, r, "avatar"), BaseInv', lost' = lost, unsure' = unsure,
               lastKey' = lastKey, files' \subseteq files,
               \A k \in files : \/ k \in files'
                                \/ Names(req[p]) /\ k = req[p].entity["avatar"]
                                \/ req[p].pc = "clean" /\ k = req[p].key,
               \A u \in User : account'[u]["avatar"] \in {None, account[u]["avatar"]}
        PROVE  AvatarInv'
    <2>1. CarriesKey(p, r)
      BY <1>3 DEF CarriesKey
    <2> QED
      BY <1>3, <2>1, FilesMove
  <1>4. ASSUME NEW p \in Proc,
               \/ BeginRegister(p) \/ BeginRoleChange(p) \/ LockRole(p)
               \/ \E u \in Client : UpdateProfile(p, u) \/ UpdateUserStatus(p, u)
        PROVE  AvatarInv'
    <2>1. BaseInv' /\ UNCHANGED <<rows, storage, history>>
      BY <1>0, <1>4, QuietSteps
    <2>2. PICK r : Moves(p, r) /\ Harmless(r) /\ Carries(p, r, "avatar")
      BY <1>0, <1>4, QuietSteps
    <2>3. r.key = None /\ ~Names(r) /\ r.pc # "clean"
      BY <2>2 DEF Harmless, Names
    <2> QED
      BY <1>3, <2>1, <2>2, <2>3 DEF rows, storage, history
  <1>5. ASSUME NEW p \in Proc, CreateUser(p) \/ CreateOAuthUser(p)
        PROVE  AvatarInv'
    <2>1. BaseInv' /\ UNCHANGED <<storage, history>> /\ Moves(p, Idle)
      BY <1>0, <1>5, CreateSteps
    <2>2. \A u \in User : account'[u]["avatar"] \in {None, account[u]["avatar"]}
      <3>1. CASE UNCHANGED rows
        BY <3>1 DEF rows
      <3>2. CASE ~UNCHANGED rows
        <4>1. PICK u \in User : /\ \A v \in User : v # u => account'[v] = account[v]
                                /\ account'[u]["avatar"] = None
          BY <1>0, <1>5, <3>2, CreateSteps
        <4> QED
          BY <4>1
      <3> QED
        BY <3>1, <3>2
    <2> QED
      BY <1>1, <1>3, <2>1, <2>2 DEF storage, history
  <1>6. ASSUME NEW p \in Proc, NEW u \in Client, VerifyEmail(p, u)
        PROVE  AvatarInv'
    <2>1. BaseInv' /\ UNCHANGED <<rows, storage, history>>
      BY <1>0, <1>6, VerifySteps
    <2>2. PICK r : /\ Moves(p, r) /\ r.pc = "save" /\ r.key = None
                   /\ r.own = {"verified", "verifyToken"} /\ Carries(p, r, "avatar")
      BY <1>0, <1>6, VerifySteps
    <2>3. ~Names(r)
      BY <2>2 DEF Names
    <2> QED
      BY <1>3, <2>1, <2>2, <2>3 DEF rows, storage, history
  <1>7. ASSUME NEW p \in Proc, NEW u \in Client,
               ResendVerificationEmail(p, u) \/ RequestPasswordReset(p, u)
        PROVE  AvatarInv'
    <2>1. BaseInv' /\ account' = account /\ UNCHANGED <<storage, history>> /\ u \in User
      BY <1>0, <1>7, IssueSteps, AccountsConstants
    <2>2. PICK r, c : /\ Moves(p, r) /\ c \in TokenColumn /\ r.pc = "save" /\ r.user = u
                      /\ r.own = {c} /\ r.key = None
                      /\ \A d \in Given : d # c => r.entity[d] = account[u][d]
      BY <1>0, <1>7, IssueSteps
    <2>3. ~Names(r) /\ Carries(p, r, "avatar")
      BY <1>0, <2>1, <2>2 DEF Names, TokenColumn, Carries
    <2> QED
      BY <1>3, <2>1, <2>2, <2>3 DEF storage, history
  <1>8. ASSUME NEW p \in Proc, NEW u \in Client, UpdateAvatar(p, u)
        PROVE  AvatarInv'
    <2>1. BaseInv' /\ UNCHANGED <<rows, storage, history>> /\ u \in User
      BY <1>0, <1>8, UploadSteps, AccountsConstants
    <2>2. PICK r : /\ Moves(p, r) /\ r.pc = "upload" /\ r.user = u
                   /\ r.key = account[u]["avatar"] /\ Carries(p, r, "avatar")
      BY <1>0, <1>8, UploadSteps
    <2>3. CarriesKey(p, r) /\ ~Names(r)
      BY <2>1, <2>2 DEF CarriesKey, Names
    <2> QED
      BY <2>1, <2>2, <2>3, FilesMove DEF rows, storage, history
  <1>9. ASSUME NEW p \in Proc, DeletePrevious(p) \/ Fail(p)
        PROVE  AvatarInv'
    BY <1>0, <1>1, <1>3, <1>9, CleanSteps, FailSteps DEF rows, history
  <1>10. ASSUME NEW p \in Proc, ChangeRole(p)
         PROVE  AvatarInv'
    <2>1. /\ BaseInv' /\ UNCHANGED <<storage, history>> /\ Moves(p, Idle)
          /\ \A u \in User : u # req[p].user => account'[u] = account[u]
          /\ \A c \in Columns \ {"role"} : account'[req[p].user][c] = account[req[p].user][c]
      BY <1>0, <1>10, ChangeSteps
    <2>2. \A u \in User : account'[u]["avatar"] = account[u]["avatar"]
      BY <1>1, <2>1
    <2> QED
      BY <1>1, <1>3, <2>1, <2>2 DEF storage, history
  <1>11. ASSUME NEW u \in Client, MarkAsVerified(u) \/ ResetPassword(u)
         PROVE  AvatarInv'
    <2>1. /\ BaseInv' /\ UNCHANGED <<storage, req, lost, unsure>> /\ u \in User
          /\ \A v \in User : v # u => account'[v] = account[v]
          /\ account'[u]["avatar"] = account[u]["avatar"]
      BY <1>0, <1>1, <1>11, MarkSteps, ResetSteps DEF history
    <2>2. \A v \in User : account'[v]["avatar"] = account[v]["avatar"]
      BY <2>1
    <2> QED
      BY <2>1, <2>2 DEF storage, AvatarInv, FilesAreDrawn, FilesHaveAHome, FileAt,
        AvatarsAreStored, Abandons, StoredAlone
  <1> QED
    BY <1>2, <1>4, <1>5, <1>6, <1>7, <1>8, <1>9, <1>10, <1>11, FilesStored, FilesKept,
       FilesWritten DEF Next, Step

\* The avatar a row names is in the storage, whatever uploads of one user run
\* at the same time and fail (users.service.ts:219-260), unless a save of the
\* user as it was before has brought back that very name, or the error path has
\* deleted that very file after an update whose answer was lost.
THEOREM AvatarsAreAlwaysStored == Spec => []AvatarsAreStored
  <1>1. Spec => []AvatarInv
    BY InitAvatarInv, NextAvatarInv, PTL DEF Spec
  <1>2. AvatarInv => AvatarsAreStored
    BY DEF AvatarInv
  <1> QED
    BY <1>1, <1>2, PTL
=============================================================================
