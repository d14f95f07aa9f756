------------------------------ MODULE Accounts ------------------------------
(***************************************************************************)
(* The rows of users: registration, e-mail verification, password resets,  *)
(* avatars, roles and status (src/src/users/users.service.ts and           *)
(* src/src/admin/admin.service.ts).  Most handlers read a user, wait for   *)
(* something, and save the whole entity; TypeORM's save reads the row      *)
(* again and writes the columns that differ, those included that others    *)
(* have changed in the meantime.  Only password resets and role changes    *)
(* lock the row.                                                           *)
(*                                                                         *)
(* There is one account per mailbox, and whether a token has expired when  *)
(* it is presented is left open.  A statement may fail, and an UPDATE may  *)
(* be committed although its answer is lost: the request then ends as one  *)
(* that failed.  Names, passwords, links between accounts and OAuth        *)
(* providers, and sessions (module Sessions) are left out.                 *)
(***************************************************************************)
EXTENDS Integers, FiniteSets

CONSTANTS
  Proc,      \* concurrent requests
  User,      \* mailboxes
  Founder,   \* the administrator the system is installed with
  Client,    \* the users who use their accounts; roles are given to all
  NoUser,
  MaxToken,  \* bound: tokens that are mailed
  MaxKey,    \* bound: avatars that are uploaded
  MaxLost,   \* bound: columns that saves have lost when a request begins
  Scenes     \* bound: the operations that behaviours are made of, each of one set

ASSUME AccountsConstants ==
  /\ Founder \in User /\ Client \subseteq User /\ NoUser \notin User
  /\ MaxToken \in Nat /\ MaxKey \in Nat /\ MaxLost \in Nat

None == 0
Token == 1 .. MaxToken
Key == 1 .. MaxKey
Role == {"user", "admin"}  \* "vip" and "editor" are users in every respect here
Columns == {"verified", "verifyToken", "resetToken", "role", "avatar"}
Kept == Columns \ {"verified"}  \* the columns of which `lost' keeps a record

Account ==
  [verified : BOOLEAN, verifyToken : Token \cup {None},
   resetToken : Token \cup {None}, role : Role, avatar : Key \cup {None}]

NewAccount == [verified |-> FALSE, verifyToken |-> None, resetToken |-> None,
               role |-> "user", avatar |-> None]

\* What an UPDATE of the columns cols to the values of new makes of a row.
Updated(row, new, cols) ==
  LET value(c) == IF c \in cols THEN new[c] ELSE row[c]
  IN [verified |-> value("verified"), verifyToken |-> value("verifyToken"),
      resetToken |-> value("resetToken"), role |-> value("role"),
      avatar |-> value("avatar")]

VARIABLES
  scene,       \* bound: the operations that clients call
  registered,  \* users with a row
  account,     \* the rows
  lastToken,   \* the random tokens drawn so far are 1 .. lastToken
  lastKey,     \* the storage keys drawn so far are 1 .. lastKey
  files,       \* avatars in the storage
  req,         \* what each request is doing
  used,        \* history: tokens that have verified a user or set a password
  lost,        \* history: by column, values saves have taken from older readings
  unsure       \* history: avatars deleted after a save of them that had committed

vars == <<scene, registered, account, lastToken, lastKey, files, req, used, lost, unsure>>
storage == <<lastKey, files>>
history == <<scene, used, lost, unsure>>  \* and the scene, which nothing changes

(***************************************************************************)
(* pc: "register" has found no account; "upload" has read `entity';        *)
(* "save" is about to save `entity', of which the columns `own' are meant, *)
(* and "write" has found that the row differs from it in `differ';         *)
(* "clean" deletes the previous avatar `key'.  "role" wants to give `user' *)
(* the role `role' for `actor'; "change" holds the lock for role changes   *)
(* and the row.                                                            *)
(***************************************************************************)
Request ==
  [pc : {"idle", "register", "upload", "save", "write", "clean", "role", "change"},
   user : User \cup {NoUser}, actor : User \cup {NoUser}, role : Role,
   entity : Account, own : SUBSET Columns, differ : SUBSET Columns,
   key : Key \cup {None}, token : Token \cup {None}]

Idle == [pc |-> "idle", user |-> NoUser, actor |-> NoUser, role |-> "user",
         entity |-> NewAccount, own |-> {}, differ |-> {}, key |-> None,
         token |-> None]

TypeOK ==
  /\ scene \in Scenes
  /\ registered \subseteq User /\ account \in [User -> Account]
  /\ lastToken \in 0 .. MaxToken /\ lastKey \in 0 .. MaxKey /\ files \subseteq Key
  /\ req \in [Proc -> Request]
  /\ used \subseteq Token /\ unsure \subseteq Key
  /\ lost \in [Kept -> SUBSET (Token \cup Key \cup Role \cup {None})]

Init ==
  /\ scene \in Scenes
  /\ registered = {Founder}
  /\ account = [u \in User |-> IF u = Founder
                  THEN [NewAccount EXCEPT !.role = "admin", !.verified = TRUE]
                  ELSE NewAccount]
  /\ lastToken = 0 /\ lastKey = 0 /\ files = {}
  /\ req = [p \in Proc |-> Idle]
  /\ used = {} /\ lost = [c \in Kept |-> {}] /\ unsure = {}

At(p, pc) == req[p].pc = pc
CanBegin(p, op) ==
  At(p, "idle") /\ op \in scene /\ Cardinality({c \in Kept : lost[c] # {}}) <= MaxLost
Become(p, r) == req' = [req EXCEPT ![p] = r]
Finish(p) == Become(p, Idle)

\* A role change holds the row: every UPDATE of it waits.
RowLocked(u) == \E p \in Proc : At(p, "change") /\ req[p].user = u

-----------------------------------------------------------------------------
(* Registration.                                                           *)

BeginRegister(p) ==
  /\ CanBegin(p, "register")
  /\ \E u \in Client \ registered : Become(p, [Idle EXCEPT !.pc = "register", !.user = u])
  /\ UNCHANGED <<registered, account, lastToken, storage, history>>

\* createUser; the unique index refuses a mailbox that registered meanwhile.
CreateUser(p) ==
  LET u == req[p].user IN
  /\ At(p, "register")
  /\ IF u \in registered
     THEN UNCHANGED <<registered, account, lastToken>>
     ELSE /\ lastToken < MaxToken
          /\ lastToken' = lastToken + 1
          /\ registered' = registered \cup {u}
          /\ account' = [account EXCEPT ![u] =
                           [NewAccount EXCEPT !.verifyToken = lastToken + 1]]
  /\ Finish(p)
  /\ UNCHANGED <<storage, history>>

\* findOrCreateOAuthUser without an account: the provider has verified it.
CreateOAuthUser(p) ==
  LET u == req[p].user IN
  /\ At(p, "register") /\ u \notin registered
  /\ registered' = registered \cup {u}
  /\ account' = [account EXCEPT ![u] = [NewAccount EXCEPT !.verified = TRUE]]
  /\ Finish(p)
  /\ UNCHANGED <<lastToken, storage, history>>

-----------------------------------------------------------------------------
(* Handlers that read the user and save the entity.                        *)

StartSave(p, op, u, entity, own, token) ==
  /\ CanBegin(p, op) /\ u \in registered
  /\ Become(p, [Idle EXCEPT !.pc = "save", !.user = u, !.entity = entity,
                            !.own = own, !.token = token])

\* updateProfile, and a coupon's plan: columns that are left out here.
UpdateProfile(p, u) ==
  /\ StartSave(p, "profile", u, account[u], {}, None)
  /\ UNCHANGED <<registered, account, lastToken, storage, history>>

VerifyEmail(p, u) ==
  /\ account[u].verifyToken # None
  /\ StartSave(p, "verify", u,
               [account[u] EXCEPT !.verified = TRUE, !.verifyToken = None],
               {"verified", "verifyToken"}, account[u].verifyToken)
  /\ UNCHANGED <<registered, account, lastToken, storage, history>>

DrawToken == lastToken < MaxToken /\ lastToken' = lastToken + 1

ResendVerificationEmail(p, u) ==
  /\ ~account[u].verified
  /\ DrawToken
  /\ StartSave(p, "resend", u, [account[u] EXCEPT !.verifyToken = lastToken + 1],
               {"verifyToken"}, None)
  /\ UNCHANGED <<registered, account, storage, history>>

RequestPasswordReset(p, u) ==
  /\ DrawToken
  /\ StartSave(p, "forgot", u, [account[u] EXCEPT !.resetToken = lastToken + 1],
               {"resetToken"}, None)
  /\ UNCHANGED <<registered, account, storage, history>>

\* The guard has seen that an administrator asks.
UpdateUserStatus(p, u) ==
  /\ \E a \in registered : account[a].role = "admin"
  /\ \E v \in BOOLEAN :
       StartSave(p, "status", u, [account[u] EXCEPT !.verified = v], {"verified"}, None)
  /\ UNCHANGED <<registered, account, lastToken, storage, history>>

UpdateAvatar(p, u) ==
  /\ CanBegin(p, "avatar") /\ u \in registered
  /\ Become(p, [Idle EXCEPT !.pc = "upload", !.user = u, !.entity = account[u],
                            !.own = {"avatar"}, !.key = account[u].avatar])
  /\ UNCHANGED <<registered, account, lastToken, storage, history>>

StoreAvatarInstead(p) ==
  /\ At(p, "upload") /\ lastKey < MaxKey
  /\ lastKey' = lastKey + 1 /\ files' = (files \cup {lastKey + 1}) \ {req[p].key}
  /\ Become(p, [req[p] EXCEPT !.pc = "save", !.entity.avatar = lastKey + 1])
  /\ UNCHANGED <<registered, account, lastToken, history>>

\* The new file is stored before the row names it.
StoreAvatar(p) ==
  /\ At(p, "upload") /\ lastKey < MaxKey
  /\ lastKey' = lastKey + 1 /\ files' = files \cup {lastKey + 1}
  /\ Become(p, [req[p] EXCEPT !.pc = "save", !.entity.avatar = lastKey + 1])
  /\ UNCHANGED <<registered, account, lastToken, history>>

\* save reads the row again, without a lock, and compares; of the entity only
\* the columns that differ matter from here on.
Reload(p) ==
  LET r == req[p]
      differ == {c \in Columns : account[r.user][c] # r.entity[c]}
  IN /\ At(p, "save")
     /\ Become(p, IF differ = {} THEN Idle
                  ELSE [r EXCEPT !.pc = "write", !.differ = differ,
                                 !.entity = Updated(NewAccount, @, differ)])
     /\ UNCHANGED <<registered, account, lastToken, storage, history>>

\* The UPDATE of the columns that differed.
Update(p) ==
  LET r == req[p] IN
  /\ At(p, "write") /\ ~RowLocked(r.user)
  /\ account' = [account EXCEPT ![r.user] = Updated(@, r.entity, r.differ)]
  /\ lost' = [c \in Kept |-> lost[c] \cup
                {v \in {r.entity[c]} : c \in r.differ \ r.own}]
  /\ used' = (used \cup {r.token}) \ {None}

\* It succeeds; then a new token is mailed, or the previous avatar is deleted.
Write(p) ==
  LET r == req[p] IN
  /\ Update(p)
  /\ Become(p, IF r.key # None THEN [Idle EXCEPT !.pc = "clean", !.key = r.key]
               ELSE Idle)
  /\ UNCHANGED <<scene, registered, lastToken, storage, unsure>>

DeletePrevious(p) ==
  /\ At(p, "clean")
  /\ files' = files \ {req[p].key}
  /\ Finish(p)
  /\ UNCHANGED <<registered, account, lastToken, lastKey, history>>

\* The avatar that a request has stored and not yet named in the row.
StoredFor(r) ==
  IF "avatar" \in r.own /\ r.pc \in {"save", "write"} THEN {r.entity.avatar} ELSE {}

\* The storage or the database fails: a stored avatar is deleted again, if the
\* storage does so and the process has not crashed.
Fail(p) ==
  /\ ~At(p, "idle")
  /\ files' \in {files, files \ StoredFor(req[p])}
  /\ Finish(p)
  /\ UNCHANGED <<registered, account, lastToken, lastKey, history>>

\* The UPDATE is committed and its answer lost: the error path is the same, and
\* the previous avatar stays.  (After any other statement a lost answer leaves
\* what the answer, or a failure without its effect, would.)
AnswerLost(p) ==
  /\ Update(p)
  /\ files' \in {files, files \ StoredFor(req[p])}
  /\ unsure' = unsure \cup (files \ files')
  /\ Finish(p)
  /\ UNCHANGED <<scene, registered, lastToken, lastKey>>

-----------------------------------------------------------------------------
(* Single statements and transactions.                                     *)

\* markAsVerified, for an OAuth login.
MarkAsVerified(u) ==
  /\ "login" \in scene
  /\ u \in registered /\ ~account[u].verified /\ ~RowLocked(u)
  /\ account' = [account EXCEPT ![u].verified = TRUE]
  /\ UNCHANGED <<registered, lastToken, storage, req, history>>

ResetPasswordOnly(u) ==
  LET t == account[u].resetToken IN
  /\ "reset" \in scene
  /\ u \in registered /\ t # None /\ ~RowLocked(u)
  /\ used' = used \cup {t}
  /\ UNCHANGED <<registered, account, lastToken, storage, req, scene, lost, unsure>>

\* resetPassword: one transaction on a row it locks.
ResetPassword(u) ==
  LET t == account[u].resetToken IN
  /\ "reset" \in scene
  /\ u \in registered /\ t # None /\ ~RowLocked(u)
  /\ account' = [account EXCEPT ![u].resetToken = None]
  /\ used' = used \cup {t}
  /\ UNCHANGED <<registered, lastToken, storage, req, scene, lost, unsure>>

\* updateUserRole, behind the guard that reads the actor's role.
BeginRoleChange(p) ==
  /\ CanBegin(p, "role")
  /\ \E a, u \in registered, r \in Role :
       /\ account[a].role = "admin"
       /\ Become(p, [Idle EXCEPT !.pc = "role", !.user = u, !.actor = a, !.role = r])
  /\ UNCHANGED <<registered, account, lastToken, storage, history>>

RolesAreAlwaysFree == TRUE
\* The advisory lock 'admin-role-change' is free.
RolesAreFree == \A q \in Proc : ~At(q, "change")

Administrators == {u \in registered : account[u].role = "admin"}

\* The locks and the checks.
LockRole(p) ==
  LET r == req[p]
      demotes == account[r.user].role = "admin" /\ r.role # "admin"
  IN /\ At(p, "role") /\ RolesAreFree
     /\ Become(p, IF demotes /\ (r.actor = r.user \/ Cardinality(Administrators) <= 1)
                  THEN Idle ELSE [r EXCEPT !.pc = "change"])
     /\ UNCHANGED <<registered, account, lastToken, storage, history>>

ChangeRole(p) ==
  /\ At(p, "change")
  /\ account' = [account EXCEPT ![req[p].user].role = req[p].role]
  /\ Finish(p)
  /\ UNCHANGED <<registered, lastToken, storage, history>>

Step(p) ==
  \/ BeginRegister(p) \/ CreateUser(p) \/ CreateOAuthUser(p)
  \/ \E u \in Client : \/ UpdateProfile(p, u) \/ VerifyEmail(p, u)
                       \/ ResendVerificationEmail(p, u) \/ RequestPasswordReset(p, u)
                       \/ UpdateUserStatus(p, u) \/ UpdateAvatar(p, u)
  \/ StoreAvatar(p) \/ Reload(p) \/ Write(p) \/ DeletePrevious(p)
  \/ BeginRoleChange(p) \/ LockRole(p) \/ ChangeRole(p)
  \/ Fail(p) \/ AnswerLost(p)

Next ==
  \/ \E p \in Proc : Step(p)
  \/ \E u \in Client : MarkAsVerified(u) \/ ResetPassword(u)

Spec == Init /\ [][Next]_vars

-----------------------------------------------------------------------------
(* Properties.                                                             *)

\* Two administrators can demote each other, or be demoted by a third, at the
\* same time: one always remains (admin.service.ts:276-300), unless a save has
\* taken a role from an older reading.
AnAdministratorRemains == lost["role"] # {} \/ Administrators # {}

\* A token works once: when it has verified an address or set a password, no row
\* holds it any more, whatever is issued and used at the same time
\* (users.service.ts:573-604, 674-705).  Only a save of the user as it was before
\* can bring that very token back.
UsedTokensAreGone ==
  \A u \in User, c \in {"verifyToken", "resetToken"} :
    account[u][c] \in used => account[u][c] \in lost[c]

\* The avatar a row names is in the storage, whatever uploads of one user run
\* at the same time and fail (users.service.ts:219-260).  Only a save of the user
\* as it was before can bring the name of a deleted one back, and only the error
\* path of an update that was committed can delete the one it named.
AvatarsAreStored ==
  \A u \in User :
    account[u].avatar \in files \cup {None} \cup lost["avatar"] \cup unsure

=============================================================================
