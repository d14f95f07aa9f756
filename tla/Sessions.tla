------------------------------ MODULE Sessions ------------------------------
(***************************************************************************)
(* The SSO session table: login, the two-phase rotation of an ageing       *)
(* cookie, logout of a rotation lineage, and the two ways every session of *)
(* a user is dropped (src/src/users/users.service.ts).  A request is a     *)
(* process that runs its statements against PostgreSQL at READ COMMITTED:  *)
(* a locking statement works on the rows its own snapshot saw and waits    *)
(* for a row lock; an insert waits for the users row that its foreign key  *)
(* refers to; a cycle of waiting transactions loses one member.            *)
(*                                                                         *)
(* A token is <<lineage, generation>>: createSession mints generation 0    *)
(* from random bytes, and deriveRotatedSessionToken is a function of the   *)
(* parent's hash, so generation g + 1 is determined by generation g.       *)
(***************************************************************************)
EXTENDS Integers, FiniteSets

CONSTANTS
  Proc,            \* concurrent requests
  User,            \* accounts
  Chain,           \* rotation lineages; each login starts one
  NoProc, NoUser, NoToken,
  Ops,             \* the operations a run lets clients call
  RotationSecret,  \* is SESSION_SECRET configured
  TTL,             \* SESSION_TTL_MS
  Window,          \* SESSION_ROTATION_WINDOW_MS
  Grace,           \* SESSION_ROTATION_GRACE_MS
  MaxGen,          \* bound: generations of a lineage
  MaxTime,         \* bound: last instant of the clock
  TxTime           \* bound: how long a rotation's transaction stays open

ASSUME SessionConstants ==
  /\ NoProc \notin Proc /\ NoUser \notin User
  /\ RotationSecret \in BOOLEAN
  /\ TTL \in Nat /\ Window \in Nat /\ Grace \in Nat \ {0}
  /\ MaxGen \in Nat /\ MaxTime \in Nat /\ TxTime \in Nat

(***************************************************************************)
(* The lifetimes leave room between two rotations of a lineage: 7 days, 2  *)
(* minutes and an open transaction fit into 30 days                        *)
(* (users.service.ts:23-25).                                               *)
(***************************************************************************)
ASSUME RotationsAreFarApart == TxTime + Window + Grace <= TTL

Token == Chain \X (0 .. MaxGen)

ASSUME NoTokenIsNoToken == NoToken \notin Token

Parent(t) == <<t[1], t[2] - 1>>
Replacement(t) == <<t[1], t[2] + 1>>

VARIABLES
  clock,      \* new Date()
  expiresAt,  \* expires_at of the committed rows, NoRow where there is none
  owner,      \* user_id of a lineage, inherited by every replacement
  rowLock,    \* which transaction holds a sessions row
  userLock,   \* which transaction holds a users row FOR UPDATE
  req,        \* what each request is doing
  ended       \* history: lineages that a logout, reset or role change ended

vars == <<clock, expiresAt, owner, rowLock, userLock, req, ended>>

NoRow == -1
rows == {t \in Token : expiresAt[t] # NoRow}
Without(gone) == [t \in Token |-> IF t \in gone THEN NoRow ELSE expiresAt[t]]

Idle == [op |-> "none", pc |-> "idle", tok |-> NoToken, user |-> NoUser,
         todo |-> {}, now |-> 0]

(***************************************************************************)
(* pc: where a request stands.  "purge" deletes an expired row by id,      *)
(* "rotateLock" waits for SELECT ... FOR UPDATE, "rotate" holds the row,   *)
(* "logout" is about to select its lineage, "lock" acquires that selection *)
(* in order, "userLock" waits for the users row, "held" holds it,          *)
(* "delete" executes a DELETE over `todo', "create" inserts a new session. *)
(***************************************************************************)
Request ==
  [op : {"none", "login", "resolve", "logout", "revoke", "reset", "role"},
   pc : {"idle", "purge", "rotateLock", "rotate", "logout", "lock",
         "userLock", "held", "delete", "create"},
   tok : Token \cup {NoToken}, user : User \cup {NoUser},
   todo : SUBSET Token, now : Nat]

TypeOK ==
  /\ clock \in Nat
  /\ expiresAt \in [Token -> Nat \cup {NoRow}]
  /\ owner \in [Chain -> User \cup {NoUser}]
  /\ rowLock \in [Token -> Proc \cup {NoProc}]
  /\ userLock \in [User -> Proc \cup {NoProc}]
  /\ req \in [Proc -> Request]
  /\ ended \in SUBSET Chain

Init ==
  /\ clock = 0
  /\ expiresAt = [t \in Token |-> NoRow]
  /\ owner = [c \in Chain |-> NoUser]
  /\ rowLock = [t \in Token |-> NoProc]
  /\ userLock = [u \in User |-> NoProc]
  /\ req = [p \in Proc |-> Idle]
  /\ ended = {}

-----------------------------------------------------------------------------
Live(t) == t \in rows /\ expiresAt[t] > clock
RowsOf(u) == {t \in rows : owner[t[1]] = u}
Held(p) == {t \in Token : rowLock[t] = p}
Fresh == {c \in Chain : owner[c] = NoUser}
At(p, label) == req[p].pc = label

\* Mutant: every session of the same user.
LineageOfUser(t) == {s \in Token : owner[s[1]] = owner[t[1]]}

\* deleteSessionByToken's tokenHashes: the parent named inside a rotated
\* token, the token itself, and the replacement derived from it.
Lineage(t) ==
  {s \in Token : s[1] = t[1] /\ s[2] \in
     (IF RotationSecret THEN {t[2] - 1, t[2], t[2] + 1} ELSE {t[2]})}

\* A request is answered.
Finish(p) == req' = [req EXCEPT ![p] = Idle]

\* Mutant: the users row stays locked.
UnlockRowsOnly(p) ==
  /\ rowLock' = [t \in Token |-> IF rowLock[t] = p THEN NoProc ELSE rowLock[t]]
  /\ UNCHANGED userLock

Unlock(p) ==
  /\ rowLock' = [t \in Token |-> IF rowLock[t] = p THEN NoProc ELSE rowLock[t]]
  /\ userLock' = [u \in User |-> IF userLock[u] = p THEN NoProc
                                                    ELSE userLock[u]]

\* A request whose unlocked reads are done goes on with these values.
Begin(p, op, pc, t, u, todo) ==
  req' = [req EXCEPT ![p] = [op |-> op, pc |-> pc, tok |-> t, user |-> u,
                             todo |-> todo,
                             now |-> IF pc = "create" THEN clock ELSE 0]]

-----------------------------------------------------------------------------
(* Login and session creation.                                             *)

\* SsoService.login has checked the password; createSession draws the token.
Login(p, u) ==
  /\ "login" \in Ops /\ At(p, "idle")
  /\ \E c \in Fresh :
       /\ owner' = [owner EXCEPT ![c] = u]
       /\ Begin(p, "login", "create", <<c, 0>>, u, {})
  /\ UNCHANGED <<clock, expiresAt, rowLock, userLock, ended>>

\* createSession's INSERT; its foreign key waits for a locked users row.
CreateSession(p) ==
  LET t == req[p].tok IN
  /\ At(p, "create")
  /\ userLock[req[p].user] = NoProc
  /\ expiresAt' = [expiresAt EXCEPT ![t] = req[p].now + TTL]
  /\ Finish(p)
  /\ UNCHANGED <<clock, owner, rowLock, userLock, ended>>

-----------------------------------------------------------------------------
(* resolveSessionForRequest.  A token without a row, and a row far from    *)
(* its expiry, are answered without a change of state.                     *)

ResolveExpired(p, t) ==
  /\ "resolve" \in Ops /\ At(p, "idle")
  /\ t \in rows /\ expiresAt[t] <= clock
  /\ Begin(p, "resolve", "purge", t, NoUser, {})
  /\ UNCHANGED <<clock, expiresAt, owner, rowLock, userLock, ended>>

PurgeExpired(p) ==
  LET t == req[p].tok IN
  /\ At(p, "purge")
  /\ rowLock[t] = NoProc
  /\ expiresAt' = Without({t})
  /\ Finish(p)
  /\ UNCHANGED <<clock, owner, rowLock, userLock, ended>>

\* The unlocked read finds the row inside the rotation window.
ResolveAgeing(p, t) ==
  /\ "resolve" \in Ops /\ At(p, "idle")
  /\ Live(t) /\ RotationSecret
  /\ expiresAt[t] - clock <= Window
  /\ t[2] < MaxGen
  /\ Begin(p, "resolve", "rotateLock", t, NoUser, {})
  /\ UNCHANGED <<clock, expiresAt, owner, rowLock, userLock, ended>>

\* SELECT ... FOR UPDATE returns the row, still unexpired and ageing.
LockForRotation(p) ==
  LET t == req[p].tok IN
  /\ At(p, "rotateLock")
  /\ rowLock[t] = NoProc
  /\ Live(t) /\ expiresAt[t] - clock <= Window
  /\ rowLock' = [rowLock EXCEPT ![t] = p]
  /\ req' = [req EXCEPT ![p].pc = "rotate", ![p].now = clock]
  /\ UNCHANGED <<clock, expiresAt, owner, userLock, ended>>

\* The row is gone, or expired while the request waited and is deleted, or
\* no longer needs rotation.
RotationNotNeeded(p) ==
  LET t == req[p].tok IN
  /\ At(p, "rotateLock")
  /\ rowLock[t] = NoProc
  /\ ~(Live(t) /\ expiresAt[t] - clock <= Window)
  /\ expiresAt' = IF Live(t) THEN expiresAt ELSE Without({t})
  /\ Finish(p)
  /\ UNCHANGED <<clock, owner, rowLock, userLock, ended>>

HasActiveReplacement(p) ==
  LET r == Replacement(req[p].tok) IN
  r \in rows /\ expiresAt[r] > req[p].now

InGrace(p) == expiresAt[req[p].tok] - req[p].now <= Grace

\* Mutant: the child is not looked up before it is handed out again.
ReissueReplacementUnchecked(p) ==
  /\ At(p, "rotate")
  /\ InGrace(p)
  /\ Finish(p)
  /\ Unlock(p)
  /\ UNCHANGED <<clock, expiresAt, owner, ended>>

\* The old cookie inside its grace period: the same replacement again.
ReissueReplacement(p) ==
  /\ At(p, "rotate")
  /\ InGrace(p) /\ HasActiveReplacement(p)
  /\ Finish(p)
  /\ Unlock(p)
  /\ UNCHANGED <<clock, expiresAt, owner, ended>>

\* Mutant: the presented session keeps its lifetime.
MintReplacementKeepsParent(p) ==
  LET t == req[p].tok
      r == Replacement(t)
      active == HasActiveReplacement(p)
  IN
  /\ At(p, "rotate")
  /\ ~(InGrace(p) /\ active)
  /\ active \/ userLock[owner[t[1]]] = NoProc
  /\ expiresAt' = [expiresAt EXCEPT ![r] = IF active THEN @ ELSE req[p].now + TTL]
  /\ Finish(p)
  /\ Unlock(p)
  /\ UNCHANGED <<clock, owner, ended>>

\* Mutant: the presented session is renewed as well.
MintReplacementRenewsParent(p) ==
  LET t == req[p].tok
      r == Replacement(t)
      active == HasActiveReplacement(p)
  IN
  /\ At(p, "rotate")
  /\ ~(InGrace(p) /\ active)
  /\ active \/ userLock[owner[t[1]]] = NoProc
  /\ expiresAt' = [expiresAt EXCEPT ![r] = IF active THEN @ ELSE req[p].now + TTL,
                                    ![t] = req[p].now + TTL]
  /\ Finish(p)
  /\ Unlock(p)
  /\ UNCHANGED <<clock, owner, ended>>

\* Mutant: the two lifetimes are swapped.
MintReplacementSwapsLifetimes(p) ==
  LET t == req[p].tok
      r == Replacement(t)
      active == HasActiveReplacement(p)
  IN
  /\ At(p, "rotate")
  /\ ~(InGrace(p) /\ active)
  /\ active \/ userLock[owner[t[1]]] = NoProc
  /\ expiresAt' = [expiresAt EXCEPT ![r] = IF active THEN @ ELSE req[p].now + Grace,
                                    ![t] = req[p].now + TTL]
  /\ Finish(p)
  /\ Unlock(p)
  /\ UNCHANGED <<clock, owner, ended>>

\* INSERT the replacement unless one is active, shorten the presented
\* session to the grace period, commit.
MintReplacement(p) ==
  LET t == req[p].tok
      r == Replacement(t)
      active == HasActiveReplacement(p)
  IN
  /\ At(p, "rotate")
  /\ ~(InGrace(p) /\ active)
  /\ active \/ userLock[owner[t[1]]] = NoProc
  /\ expiresAt' = [expiresAt EXCEPT
                     ![r] = IF active THEN @ ELSE req[p].now + TTL,
                     ![t] = req[p].now + Grace]
  /\ Finish(p)
  /\ Unlock(p)
  /\ UNCHANGED <<clock, owner, ended>>

-----------------------------------------------------------------------------
(* deleteSessionByToken, behind SsoService.logout.                         *)

\* A client can present a token it was given: one with a row, or an older
\* one whose replacement has a row.
CanPresent(t) == t \in rows \/ Replacement(t) \in rows

\* SsoService.logout first resolves the token, which drops an expired row.
Logout(p, t) ==
  /\ "logout" \in Ops /\ At(p, "idle")
  /\ CanPresent(t)
  /\ LET stale == t \in rows /\ expiresAt[t] < clock IN
       /\ stale => rowLock[t] = NoProc
       /\ expiresAt' = IF stale THEN Without({t}) ELSE expiresAt
  /\ Begin(p, "logout", "logout", t, owner[t[1]], {})
  /\ UNCHANGED <<clock, owner, rowLock, userLock, ended>>

\* SELECT ... ORDER BY array_position(...) FOR UPDATE takes its snapshot.
SelectLineage(p) ==
  /\ At(p, "logout")
  /\ req' = [req EXCEPT ![p].pc = "lock",
                        ![p].todo = Lineage(req[p].tok) \cap rows]
  /\ UNCHANGED <<clock, expiresAt, owner, rowLock, userLock, ended>>

\* Mutant: no ORDER BY, any selected row first.
NextToLockUnordered(todo) == todo

\* Ancestors first: the order in which LockLineage takes the selected rows.
NextToLock(todo) == {t \in todo : \A s \in todo : t[2] <= s[2]}

\* Wait for a selected row and lock it, or skip it if it was deleted.
Acquire(p, t) ==
  /\ rowLock[t] = NoProc
  /\ req' = [req EXCEPT ![p].todo = @ \ {t}]
  /\ rowLock' = IF t \in rows THEN [rowLock EXCEPT ![t] = p] ELSE rowLock
  /\ UNCHANGED <<clock, expiresAt, owner, userLock, ended>>

LockLineage(p) ==
  At(p, "lock") /\ \E t \in NextToLock(req[p].todo) : Acquire(p, t)

\* Mutant: the rows selected before are deleted, and no others.
DeleteLineageStale(p) ==
  /\ At(p, "lock") /\ req[p].todo = {}
  /\ req' = [req EXCEPT ![p].pc = "delete"]
  /\ UNCHANGED <<clock, expiresAt, owner, rowLock, userLock, ended>>

\* DELETE ... WHERE token_hash = ANY(...) takes a snapshot of its own.
DeleteLineage(p) ==
  /\ At(p, "lock") /\ req[p].todo = {}
  /\ req' = [req EXCEPT ![p].pc = "delete",
                        ![p].todo = (Lineage(req[p].tok) \cap rows) \ Held(p)]
  /\ UNCHANGED <<clock, expiresAt, owner, rowLock, userLock, ended>>

-----------------------------------------------------------------------------
(* Dropping every session of a user.                                       *)

\* deleteAllSessionsForUser at the end of verifyEmail, revokeUserSessions and
\* revokeMultipleUserSessions: one statement, no transaction around it.
RevokeAll(p, u) ==
  /\ "revoke" \in Ops /\ At(p, "idle")
  /\ RowsOf(u) # {}
  /\ Begin(p, "revoke", "delete", NoToken, u, RowsOf(u))
  /\ UNCHANGED <<clock, expiresAt, owner, rowLock, userLock, ended>>

\* resetPassword ("reset") and updateUserRole ("role") open a transaction
\* that locks the users row first.
OpenUserTransaction(p, u, op) ==
  /\ op \in Ops \cap {"reset", "role"} /\ At(p, "idle")
  /\ RowsOf(u) # {}
  /\ Begin(p, op, "userLock", NoToken, u, {})
  /\ UNCHANGED <<clock, expiresAt, owner, rowLock, userLock, ended>>

LockUser(p) ==
  /\ At(p, "userLock")
  /\ userLock[req[p].user] = NoProc
  /\ userLock' = [userLock EXCEPT ![req[p].user] = p]
  /\ req' = [req EXCEPT ![p].pc = "held"]
  /\ UNCHANGED <<clock, expiresAt, owner, rowLock, ended>>

DeleteUnderUserLock(p) ==
  /\ At(p, "held")
  /\ req' = [req EXCEPT ![p].pc = "delete", ![p].todo = RowsOf(req[p].user)]
  /\ UNCHANGED <<clock, expiresAt, owner, rowLock, userLock, ended>>

\* A DELETE meets its rows in whatever order the plan scans them.
DeleteNextRow(p) == At(p, "delete") /\ \E t \in req[p].todo : Acquire(p, t)

\* The lineages a completed operation promises to have ended.
EndedBy(p) ==
  {c \in Chain :
     \/ /\ req[p].op = "logout"
        /\ Live(req[p].tok) /\ c = req[p].tok[1]
     \/ /\ req[p].op \in {"reset", "role"}
        /\ owner[c] = req[p].user
        /\ \A q \in Proc \ {p} : ~(At(q, "create") /\ req[q].tok[1] = c)}

\* The rows go and the locks are released.  The reset handler then signs
\* the user in again (SsoController.resetPassword).
CommitDelete(p) ==
  /\ At(p, "delete") /\ req[p].todo = {}
  /\ expiresAt' = Without(Held(p))
  /\ Unlock(p)
  /\ ended' = ended \cup EndedBy(p)
  /\ \/ /\ req[p].op = "reset"
        /\ \E c \in Fresh :
             /\ owner' = [owner EXCEPT ![c] = req[p].user]
             /\ Begin(p, "login", "create", <<c, 0>>, req[p].user, {})
     \/ /\ req[p].op # "reset" \/ Fresh = {}
        /\ Finish(p)
        /\ UNCHANGED owner
  /\ UNCHANGED clock

-----------------------------------------------------------------------------
(* Waiting, deadlock victims and time.                                     *)

\* The sessions rows a request needs before it can go on, and the users row
\* it has to lock, or to share because of a foreign key.
WantsRow(p, t) ==
  \/ (At(p, "purge") \/ At(p, "rotateLock")) /\ t = req[p].tok
  \/ At(p, "lock") /\ t \in NextToLock(req[p].todo)
  \/ At(p, "delete") /\ t \in req[p].todo

WantsUser(p, u) ==
  \/ (At(p, "userLock") \/ At(p, "create")) /\ u = req[p].user
  \/ At(p, "rotate") /\ ~HasActiveReplacement(p) /\ u = owner[req[p].tok[1]]

WaitsFor(p, q) ==
  /\ p # q
  /\ \/ \E t \in Token : rowLock[t] = q /\ WantsRow(p, t)
     \/ \E u \in User : userLock[u] = q /\ WantsUser(p, u)

Deadlocked(p) ==
  \E S \in SUBSET Proc :
    p \in S /\ \A a \in S : \E b \in S : WaitsFor(a, b)

\* PostgreSQL rolls back one member of a cycle; its request fails.
AbortDeadlocked(p) ==
  /\ Deadlocked(p)
  /\ Unlock(p)
  /\ Finish(p)
  /\ UNCHANGED <<clock, expiresAt, owner, ended>>

Tick ==
  /\ clock < MaxTime
  /\ \A p \in Proc : At(p, "rotate") \/ At(p, "create")
                       => clock < req[p].now + TxTime
  /\ clock' = clock + 1
  /\ UNCHANGED <<expiresAt, owner, rowLock, userLock, req, ended>>

Start(p) ==
  \/ \E u \in User : Login(p, u) \/ RevokeAll(p, u)
  \/ \E u \in User, op \in {"reset", "role"} : OpenUserTransaction(p, u, op)
  \/ \E t \in Token : ResolveExpired(p, t) \/ ResolveAgeing(p, t) \/ Logout(p, t)

Continue(p) ==
  \/ CreateSession(p)
  \/ PurgeExpired(p)
  \/ LockForRotation(p)
  \/ RotationNotNeeded(p)
  \/ ReissueReplacement(p)
  \/ MintReplacement(p)
  \/ SelectLineage(p)
  \/ LockLineage(p)
  \/ DeleteLineage(p)
  \/ LockUser(p)
  \/ DeleteUnderUserLock(p)
  \/ DeleteNextRow(p)
  \/ CommitDelete(p)
  \/ AbortDeadlocked(p)

Next == Tick \/ \E p \in Proc : Start(p) \/ Continue(p)

Spec == Init /\ [][Next]_vars

\* PostgreSQL grants row locks in the order they were asked for and its
\* deadlock detector always ends a cycle, so a request that can go on again
\* and again does go on.
FairSpec == Spec /\ \A p \in Proc : SF_vars(Continue(p))

-----------------------------------------------------------------------------
(* Properties.                                                             *)

\* Once a logout of a live token, a password reset or a role change has
\* committed, no session of the lineages it ended is usable, whatever
\* rotation was in flight (users.service.ts:529-561, 674-708).
EndedLineagesStayDead ==
  \A t \in rows : t[1] \in ended => ~Live(t)

\* What the unlocked revocation says it did: the lineages it deleted rows of
\* have no usable session left (users.service.ts:600, admin.service.ts:352).
RevokeEndsItsLineages ==
  [][\A p \in Proc :
       At(p, "delete") /\ At(p, "idle")' /\ req[p].op = "revoke"
         /\ ~Deadlocked(p)
       => \A t \in Held(p) : \A s \in Token : s[1] = t[1] => ~Live(s)']_vars

\* A replaced session is only kept for the grace period, and never outlives
\* its replacement (users.service.ts:518-525).
ReplacedSessionIsShortLived ==
  \A t \in rows : Replacement(t) \in rows =>
    /\ expiresAt[t] <= clock + Grace
    /\ expiresAt[t] <= expiresAt[Replacement(t)]

\* The inductive core of the two properties around it.  Of two rows of one
\* lineage the older is in its grace period and expires first; either a full
\* lifetime lies between their expiries or the older is dead, and it is dead
\* for certain once it has been replaced twice.  A transaction that rotates a
\* row found its ancestors dead and can meet no row but a fresh replacement
\* (users.service.ts:464-526).
LineageInOrder ==
  \A t, s \in rows : t[1] = s[1] /\ t[2] < s[2] =>
    /\ expiresAt[t] <= clock + Grace
    /\ expiresAt[t] <= expiresAt[s]
    /\ expiresAt[t] + TTL <= expiresAt[s] + Grace \/ expiresAt[t] <= clock
    /\ s[2] >= t[2] + 2 => expiresAt[t] <= clock

RotationInOrder ==
  \A p \in Proc : At(p, "rotate") =>
    LET t == req[p].tok IN
    /\ t \in rows /\ rowLock[t] = p
    /\ req[p].now < expiresAt[t] /\ expiresAt[t] <= req[p].now + Window
    /\ req[p].now <= clock /\ clock <= req[p].now + TxTime
    /\ \A s \in rows : s[1] = t[1] /\ s[2] < t[2] => expiresAt[s] <= req[p].now
    /\ \A s \in rows : s[1] = t[1] /\ s[2] > t[2] =>
         s[2] = t[2] + 1 /\ expiresAt[s] > req[p].now + TxTime + Window

\* No lineage has three usable generations (users.service.ts:427-431).
AtMostTwoLiveGenerations ==
  \A t \in rows : Live(t) /\ Live(Replacement(t)) =>
    /\ ~Live(Parent(t))
    /\ ~Live(Replacement(Replacement(t)))

\* The token that a rotation replaced dies within the grace period, before its
\* replacement does, and its predecessor is dead by then: a logout, which
\* reaches one generation up and down, misses no usable session
\* (users.service.ts:427-431, 502-561).
OldTokensDie == ReplacedSessionIsShortLived /\ AtMostTwoLiveGenerations

\* The rotation's INSERT never meets the unique token_hash of a replacement
\* that expired but was not deleted (users.service.ts:506-516).
InsertNeverConflicts ==
  \A p \in Proc : At(p, "rotate") /\ Replacement(req[p].tok) \in rows
                    => HasActiveReplacement(p)

\* A replacement handed to a client is a usable session at that moment
\* (users.service.ts:502-526).
HandedOutTokenIsLive ==
  [][\A p \in Proc :
       At(p, "rotate") /\ At(p, "idle")' /\ ~Deadlocked(p)
       => \E t \in Token : t = Replacement(req[p].tok) /\ Live(t)']_vars

\* A row disappears only because it expired, or its own lineage was logged
\* out, or its own user's sessions were dropped: sibling sessions stay
\* (users.service.ts:527-561, session-rotation.spec.ts:327).  A request that
\* found a row expired deletes it by id, although a rotation that was in flight
\* may have renewed it for the grace period: its replacement is usable then
\* (users.service.ts:445-449, 518-525).
OnlyOwnSessionsAreDeleted ==
  [][\A t \in rows \ rows' :
       \/ expiresAt[t] <= clock
       \/ \E p \in Proc :
            \/ req[p].op = "logout" /\ req[p].tok[1] = t[1]
            \/ req[p].op \in {"revoke", "reset", "role"}
               /\ req[p].user = owner[t[1]]
            \/ At(p, "purge") /\ req[p].tok = t /\ Live(Replacement(t))]_vars

\* Rotations and logouts never wait for each other in a cycle, whatever else
\* waits for them (users.service.ts:549-550, session-rotation.spec.ts:352).
NoLogoutDeadlock ==
  \A S \in SUBSET {p \in Proc : req[p].op \in {"resolve", "logout"}} :
    S # {} => \E a \in S : \A b \in S : ~WaitsFor(a, b)

\* Every request is eventually answered.
RequestsFinish == \A p \in Proc : ~At(p, "idle") ~> At(p, "idle")
=============================================================================
