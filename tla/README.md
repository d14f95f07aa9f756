# A TLA+ verification of the vInfi SSO backend

This directory models the parts of the vInfi backend (NestJS, TypeORM and
PostgreSQL), of its administration pages and of its operation scripts whose
correctness depends on the order in which things happen: sessions, sign-in,
accounts, payments and plans, coupons, the AI quota, streaks, notes, readings
and their re-encryption, the journal, contact messages, backups, deployments,
and the list of visits. TLC checks the models on small instances and TLAPS
proves the central theorems for every value of the constants. Paths below are
relative to the repository, whose sources lie in `src/src/`.

    tlc -workers 2 -config MCSessions_lineage.cfg MCSessions.tla
    tlapm SessionsProofs.tla

## 1. The system

One process serves HTTP; every handler is an `async` function, so handlers
interleave at each `await`. All lasting state is in PostgreSQL at READ
COMMITTED, apart from image files and an in-memory throttle. A handler either
runs single statements, each its own transaction, or a
`dataSource.transaction(...)`, some of which take row locks (`FOR UPDATE`,
`pessimistic_write`) or an advisory lock. Several handlers read an entity,
`await` something, and save the whole entity back.

| Component | State it keeps | Operations | What makes it correct |
|---|---|---|---|
| SSO sessions (`users/users.service.ts`, `sso/`, `auth/`) | `sessions`: token hash, user, expiry | login, resolve and rotate, logout, revoke, reset, role change | a logged out lineage stays dead; an old cookie is short-lived; concurrent rotations agree on one replacement; siblings survive |
| Accounts and action tokens (`users/`, `sso/`) | `users`: password, verification and reset digests, role, avatar, plan name | register, verify, resend, request reset, reset, profile, avatar | a token works once and only the newest one; no operation undoes another; an administrator remains |
| OAuth round trip (`sso/oauth-state*`, login codes) | a signed cookie; one-time codes in `sessions` | start, callback, exchange | a code is exchanged once, by the app it was issued for |
| Plans, subscriptions, coupons (`plans/`) | `user_subscriptions`, `users.planName`, `coupons`, `coupon_redemptions`, `plans` | plan in effect, grant, revoke, redeem, edit | time that was granted is given, not more; a coupon is used once per user and within its limit |
| AI quota and proxy (`plans/`) | `ai_usage`: one row per user, app and day | charge, refund, bonus; the streaming proxy | a charge for each answer, and for no failure whose refund went through; limits hold; bonus questions are conserved |
| Payments (`payments/`) | `payment_orders`, `payment_settings` | place, approve, settings | an order buys one subscription; paid time adds up; terms of an order are a snapshot |
| Notes (`notes/`) | `notes`, `note_invites`, image files | edit, claim, share, invite, accept, remove, upload, delete | replaced texts are revisions; closed links stay closed; accepted invites give access; files and rows agree |
| Streaks (`streak/`) | `user_streaks`, `streak_activity_events` | merge a snapshot, record an activity | merging is monotone; an event counts once |
| Readings (`readings/`) and their scripts (`scripts/encrypt-readings.ts`, `scripts/recover-legacy-readings.ts`) | encrypted documents, keyrings | create, update, delete; convert, rotate, roll back, recover | nothing stored is lost; what cannot be read is not rewritten; a finished run has done what it says |
| Journal (`journal/`) | one encrypted entry per reading | create, revise, delete | an entry belongs to a reading and says what was last written |
| Contact (`contact/`) | messages and image files | create, delete | images and rows agree after failures |
| Backup and deployment (`scripts/backup-vinfi.sh`, `.github/workflows/deploy.yml`, `scripts/deploy-*-migration.ts`, `system-status/`) | copies, a lock, a status file, a summary; the migration history | back up, retain, report; gate, migrate, restart | a reported copy exists and restores; a copy always remains; no deployment migrates what it does not know |
| Analytics (`analytics/`) | `page_visits`, a throttle map | record, delete | a visit is counted once per window |
| Administration UI (`admin-ui/`) | view state | list, select, delete, export | a late answer does not overwrite a newer one |
| Guards, mail, status probes, storage client, agent tools | none, or outside services | | |

How they interact. Sessions belong to users, and a reset or a role change
locks the `users` row that a new session's foreign key refers to. An approved
order, a grant, a revocation and a coupon all write `user_subscriptions` and
`users.planName`, which the quota reads through `getEffectivePlan`. The AI
proxy calls the quota before and after a request to an upstream service.
Notes look users up for invitations and write files through the storage. A
journal entry goes with its reading and is encrypted with the same keyring,
which the re-encryption script changes under the running server. The backup
script copies the rows and files that the contact form writes; a deployment
runs the backup script, waits for its verdict, and only then migrates. The
administrator's view of visits reads and deletes what pings write.

What is hard. Two requests with one cookie; a logout while a rotation is in
flight; locks taken in different orders; two administrators approving one
order; an answer that breaks off half way; a request that crosses midnight;
two statements without a transaction around them; whole-entity saves of rows
read earlier; tabs that overwrite each other's state cookie; a backup that
reads rows and files at different moments, or is killed between two steps; a
migration run by hand between a guard's check and its transaction; a key that
is removed while a server still uses it; answers that overtake each other.
`PROJECT.json` lists each of these at its line.

## 2. Modules

| Module | Models | Checked by |
|---|---|---|
| `Sessions` | the `sessions` table and every request that changes it, with row locks, foreign key locks and deadlock victims | `MCSessions`, runs `lineage`, `fair`, `revoke` |
| `SessionsProofs` | proofs about `Sessions` | tlapm |
| `PaidTime` | abstract: a ledger in which an order's terms are fixed when it is placed and its days are bought once, behind the user's other days, and only taken back by a revocation | implemented by `Payments` |
| `Payments` | orders, approvals, subscriptions, plans given and taken by hand, settings and prices | `MCPayments`, runs `orders`, `lapse` |
| `PaymentsProofs` | proofs about `Payments` | tlapm |
| `Quota` | the usage rows of one user in one app, and the life of a charged question | `MCQuota`, run `days` |
| `QuotaProofs` | proofs about `Quota` | tlapm |
| `EventCounter` | abstract: a total that counts every event once and otherwise grows only by what devices bring along | implemented by `Streak` |
| `Streak` | the streak of one user in one app, the copies of it on devices, uploads and events | `MCStreak`, run `merge` |
| `StreakProofs` | proofs about `Streak` | tlapm |
| `Coupons` | coupons, redemptions, and administrators' saves | `MCCoupons`, run `redeem` |
| `CouponsProofs` | proofs about `Coupons` | tlapm |
| `Accounts` | the rows of `users`: registration, tokens that are mailed, avatars, roles, whole-entity saves | `MCAccounts`, run `account` |
| `AccountsProofs` | proofs about `Accounts` | tlapm |
| `SignIn` | OAuth state cookies, the callback with the account it finds or makes, login codes and their exchange, for several tabs of one browser | `MCClients`, run `clients` |
| `Notes` | one note with its revisions, share link, friends, invites and images | `MCClients`, run `clients` |
| `Visits` | pings, the throttle, restarts, and the table of visits | through `Traffic` |
| `Traffic` | extends `Visits` by the administrator's view: request gate, deletion, export | `MCClients`, run `clients` |
| `Clients` | composes `SignIn`, `Notes` and `Traffic`, what people use from a browser | `MCClients`, run `clients` |
| `ClientsProofs` | proofs about `Clients`, with `SignIn`, `Notes`, `Visits` and `Traffic` | tlapm |
| `Contact` | messages and their images | through `Release` |
| `Backup` | extends `Contact` by the backup script, its copies and its reports | through `Release` |
| `Release` | extends `Backup` by deployments, guarded migration runners and an operator | `MCRelease`, run `archive` |
| `Readings` | readings, their documents and the server's keyring | through `Reencryption` |
| `Journal` | extends `Readings` by the entries about them | through `Reencryption` |
| `Reencryption` | extends `Journal` by the scripts, key rotation and recovery | `MCReencryption`, run `records` |
| `OperationsProofs` | proofs about `Release` and `Reencryption`, the tools of an operator, with the modules these extend | tlapm |

### Sessions

`expiresAt` is the table: a token is `<<lineage, generation>>`, because
`createSession` draws random bytes (generation 0) and
`deriveRotatedSessionToken` computes every later token from its parent's hash.
`rowLock` and `userLock` are row locks, `req` holds where each request stands.
An action is the code between two points where another request can run: a
statement outside a transaction, or the part of a transaction between two
waits. `Resolve...` and `LockForRotation` .. `MintReplacement` are
`resolveSessionForRequest` (users.service.ts:433-527), `Logout` ..
`CommitDelete` are `SsoService.logout` and `deleteSessionByToken` (529-561),
`RevokeAll` is `deleteAllSessionsForUser` and the administrator's revocations,
`OpenUserTransaction` .. `CommitDelete` are `resetPassword` (674-708) and
`updateUserRole` (admin.service.ts:259-323). A statement works on the rows its
snapshot held and waits for those that are locked: `todo` is what it still has
to acquire. `RotationNotNeeded` deletes a row that expired while the request
waited. That row may be usable again by then, for the grace period, when a rotation in
flight has renewed it; its replacement is usable too, which is the exception
that `OnlyOwnSessionsAreDeleted` names.
The order in which a `DELETE` meets its rows is left open; the order of
the logout's `SELECT ... FOR UPDATE` is the code's. `AbortDeadlocked` rolls
back one member of a cycle. `ended` is history only.

Time is `clock`; `TxTime` bounds how long a rotation's transaction stays open,
which the code does not enforce but its constants (2 minutes, 7 and 30 days)
leave ample room for: `RotationsAreFarApart`.

### Payments

`order`, `subs`, `planName`, `settings` and `offer` are tables. An approval
(`markOrderPaid` and `fulfillPaymentOrder`, payments.service.ts:309-405) is
one transaction: `LockOrder`, `LockUser` and `LockCurrent` are its three
`pessimistic_write` reads, `Approve` is its writes and its commit. Its locks
follow from where it stands (`OrderLocked`, `UserLocked`, `SubLocked`), so no
lock table is needed. An expired order is approved like any other, as in the
code, and so `status` has no third value that the code never stores.
`GrantPlan`/`NameGrantedPlan` and `BeginRevoke`/`RevokeSubscriptions`/
`ResetPlanName` are single statements (plans.service.ts:707-738). `Fail` ends a
request at any point; of a transaction nothing remains, of two statements the
first. `EffectivePlans` is `getEffectivePlan` without the administrators' case
and the overrides of the free plan: with several unexpired subscriptions it
allows each of their plans, because creation times of concurrent transactions
need not follow the order of their commits.

`Payments` implements `PaidTime`: `Ledger` maps an order to the terms it holds,
to the days of the subscription it bought (`LedgerDays`; a revoked one had
`Duration` days when it was bought), and to being taken back when a revocation
has met that subscription. Placing, approving and revoking are the ledger's
three steps. Everything else, a plan given by hand and a change of price or
account among it, leaves the ledger as it is, and that is what it says about
them. The ledger does not say when days begin if the user has none left, which
is the instant the approval locked its order.
`PaidTimeAddsUp` says of the tables what the ledger says of orders: bought time
does not overlap. It is a part of `PayInv` and a theorem of its own (section 5).

### Quota

`usage` has a row per day. A charge, a bonus and a refund are transactions
under `pg_advisory_xact_lock`, whose key names a month (plans.service.ts:301,
366, 397). A request computes `date` when it starts (`Start`) and
`getOrCreateUsage` computes the day again under the lock (`rowDay`):
the difference is what the configuration `midnight` is about. `ReadToCharge`
reads and decides, `Write` saves and commits, so two requests with different locks can
read the same row. A charged question is `asked`, then `streaming`;
`createAiSseInspector` is abstracted to what `finish()` decides from, whether
text and whether an error was seen (`Chunk`, `EndOfStream`). A failed attempt
of `interpretTuvi` that is retried changes no state, and its failure is
`UpstreamFails`.

`refundOnce` sets `refunded` before it awaits `refundQuota`
(plans.controller.ts:317-326), so a refund that throws is not tried again by
the catch (380-386), and a process that dies forgets its reservation: the
question stays charged, its bonus question with it. `RefundFails` and
`ProcessDies` are these steps, at any moment between the charge and the commit
of the refund; a transaction that fails before the charge is `RequestFails`.
`answered` and `unrefunded` count, by row and kind, the questions that are over
and stay charged for the one reason or the other. So `ChargesAreAnswers` does
not say that every failure is refunded, which the code does not achieve: it
says that nothing is refunded twice, no answer is refunded, and nothing else
than a lost refund makes a charge stay. The plan in effect is constant; `monthlyCount` of a row is
left out, as no decision reads it.

### Streak

`row` is the row of `user_streaks` of one user and app, `events` the ids in
`streak_activity_events`. `Upload` is `upsert` (streak.service.ts:107-120),
whose normalisation and `INSERT ... ON CONFLICT` are one atomic step. An event
(`recordActivity`, 122-189) is a transaction that carries a normalised
snapshot: `MergeSnapshot` inserts or merges it, `CountEvent` inserts the id
and applies `applyActivity`, `DuplicateEvent` finds the id there, `Commit` and
`Fail` end it. The row's lock follows from where the request stands
(`RowIsFree`). `copies` is every row that was ever answered, which is what
devices may send back later; `Offline` are copies a device can reach on its
own. The shape in which TypeORM returns the rows of an `UPDATE` is not
modelled, nor is the overview, which only reads.

`Streak` implements `EventCounter`: `Counting` maps the stored total and the counted
ids to the abstract ones.

### Coupons

`coupon`, `redeemed` and `subs` are the tables `coupons`, `coupon_redemptions`
and `user_subscriptions`, of the last only which coupon and code gave a
subscription to whom. `LockCoupon` is the `pessimistic_write` read of
`applyCoupon` with its checks (plans.service.ts:452-485), `Claim` its writes
and commit (519-554); a coupon is `Locked` in between. TypeORM answers an
`UPDATE ... RETURNING` with a pair of rows and count, so the check for an empty
answer (542) never refuses: a use that is not there would go unnoticed, and
`ClaimsStillHold` says that this never happens. Creating a coupon looks
for the code first (`BeginCreate`, `Create`), with the unique index behind it.
Editing reads the entity (`BeginEdit`), and `save` is what TypeORM makes of
it: it reads the row again (`Reload`), updates the columns that differ
(`Write`), or inserts the entity if the row is gone (`Insert`). Deletion
cascades to redemptions but not to subscriptions. `staleSaved` is history: the
coupons whose count a save took from an older reading, or that it brought
back; the properties about counts exempt exactly these, and the configuration
`overrun` shows why they must. The value and expiry of a coupon, the dates of
subscriptions and codes in a spelling that no redemption finds are left out.

### Accounts

`account` are the rows of `users` with the columns that several requests
write. A handler that reads the user and saves the entity (`updateProfile`,
`verifyEmail`, `resendVerificationEmail`, `requestPasswordReset`,
`updateAvatar` in users.service.ts, `updateUserStatus` in admin.service.ts) is
`StartSave` or `UpdateAvatar`/`StoreAvatar`, then `Reload`, which compares the
entity with the row as it is by then and finds the columns that `differ`, and
`Write`, the UPDATE of these.
`own` are the columns that the handler means to change; a column that `Update`
changes beside them is one that another request has changed in between and
that goes back. That really happens: a profile saved late can give a demoted
administrator the role back, or take it from the last one, and revive a
password token that has been used. `lost` records it, by column with the value
that was written back, and the properties excuse no more than that: a used
token may be in the column into which a save has written this very token, a row
may name a deleted avatar that a save has brought back by name, and the last
administrator may lose the role only to a save that has written a role.

A save may also be committed although its answer is lost (`AnswerLost`): the
error path of `updateAvatar` then deletes the new file (users.service.ts:248-253),
which the row names by now. `unsure` are the files so deleted; a file that is
missing for any other reason violates `AvatarsAreStored`. The locks of
`resetPassword` (`ResetPassword`) and of `updateUserRole` (`LockRole`,
`ChangeRole`), and the order in which `updateAvatar` stores, saves and deletes,
are what the properties are about. Whether a token has expired is left open,
the mail goes out with `Write`, and the sessions that these handlers end are
those of module `Sessions`.

### SignIn

`users`, `verified` and `links` are the columns of `users` and
`oauth_accounts` that a callback reads or writes, `codes` the rows of
`sessions` that hold a login code, `cookie` the signed state cookie of each
provider, which all tabs share. A tab goes through the steps of one sign-in:
`StartSignIn` draws a state and overwrites the cookie, `Authenticate` is the
provider, `RestoreGrant` and `RefuseState` are the guard's check of the
callback (oauth-state.guard.ts), `FindLink`, `FindUser`, `InsertUser`,
`InsertLink` are `findOrCreateOAuthUser` (users.service.ts:293-338) statement
by statement with the unique constraints behind them, `OpenSession` and
`IssueCode` end the callback, and `LockCode`, `DeleteCode`, `Exchange` are the
transaction of the exchange and the session that follows it. `IssueForApp` is
the code that the sign-in page asks for when a session is there already.
`Duplicate` opens a page with a code in a second tab. `opened` is history.
Passwords, profiles and the lifetime of sessions are left out; a cookie or a
code may lapse at any moment.

### Notes

`note` is the row, with `exists`; every operation reads it, checks what it
read, and saves the whole entity, so a request carries `entity` and `base`,
and `save` reads again and writes the columns that differ (as in `Accounts`).
Invitations, their acceptance and images are several statements each, and
images are put or deleted apart from the row. `Scenes` groups operations that
meet on the same columns; a behaviour uses one group. `Readable` are the
images that a reader gets: those the row names and the storage has. `lost`
holds the columns of which a save has not seen the latest value, which the code
does not prevent; `owed`, `closed` and `removed` are history for the
properties. `RevisionsAreKept` and `SharingSticks` excuse their own columns once
they are in `lost`.

`ImagesAreStored` excuses no columns but single images (`astray`), because the
code can leave a note with images that are gone in three ways. `deleteNote`
unlinks the files before it deletes the row and may fail in between
(`BeginDelete`, notes.service.ts:601-610). A save of an older reading names an
image again that another request has deleted (`Strays`). And a save that was
committed without an answer leaves the row naming the new image, which the error
path deletes (`AnswerLost`, 796-809). Whatever else the note names has to be
there, also after any of the three, and also for images uploaded to such a note
later: a put, a cleanup or a deletion in another order fails it.

### Visits and Traffic

`recentPings` is the throttle, `visiting` the accepted pings whose location is
still looked up, `visits` the table: rows are numbered in the order they were
saved, which is the order of the list, and each holds a visit, which has an id
from the moment it was accepted. `Restart` loses the throttle and the
pings under way. The view keeps `controls`, the number of its `latest`
request, the `loads` under way and the ids that are `shown`; `Answer` and
`Receive` are apart, so answers arrive in any order, `Unmount` disposes of the
gate. `AskDeletion`, `DoDeletion` and `Deleted` are the handler that deletes
rows and asks for the list again with the controls it was made with;
`overtaken` is history and says that they have changed meanwhile, until a
list is asked for with no deletion under way. `BeginExport` and `FetchPage` are
`collectPaginatedRows`: `export` keeps the ids it has read, how many rows it
has appended (`count`), and the total that the first page announced.
`ExportsAreComplete` says that no row comes twice and that a row is missed
only when a newer one has taken its place. More it cannot say: the loop ends
when it has as many rows as were announced, so when more visits than a page
holds arrive between two pages, the last old rows are never asked for.

### Clients

What people use from a browser. The three parts share no table and no memory,
so `part` names the one a behaviour is about, the others begin in one state
and rest.

### Contact, Backup and Release

`Contact` stores the images of a message one by one, inserts the row, and
sends the e-mail from the stored images while the visitor has the answer;
`unsure` are messages whose answer was lost. `Backup` follows the script by
its own stages (`stage` is `RUN_STAGE`, `ready` are `LOCAL_READY` and
`OFFSITE_READY`): the dump takes the rows at one moment, `todo` is what tar
still has to read, a failure runs the trap (`Fail`), a run that finds the lock
taken or its settings wrong leaves only its report (`StartWhileRunning`,
`StartRefused`), and a run may be killed anywhere,
with the status file left as it was. `local`, `daily` and `monthly` are the
complete copies at each place; a summary may get lost, and the administration
page judges it as `system-status.service.ts` does. `BackupConstants` says what
the settings of the script and of the page have in common: copies are kept
for more than a day longer than the page trusts a summary of them. `Release` is the workflow:
`deploy` is its step, `recorded` the committed migration history, `tables`
whether the table of each migration is absent, made or drifted, and `runner`
what a guarded runner has read before its transaction and what its transaction
has done. A runner executes the migrations that are `NewlyExecuted` and then
looks at the tables (`StreakTablesAreRight`, `JournalTablesAreRight`); the
answer to its commit may be lost, and the workflow then stops. A runner that
outlives its SSH connection and commits later is left out, and so is the
advisory lock each runner takes on its own against such a predecessor.
An operator may run all migrations at any moment. `Scenes` are
behaviours with visitors, with days that pass, and with deployments.

### Readings, Journal and Reencryption

A document is the form, key and content it was made from. `FindReading` reads
and decrypts, `SaveReading` writes the whole document; `BeginEntry`,
`FindEntry` and `SaveEntry` do the same for entries, with the unique index and
the foreign key. `told` and `said` are what clients were told; `crossed` marks
readings and entries that two overlapping requests wrote, where the later one
wins by design of the code. `script` is a run of `encrypt-readings`: preflight
over all rows, then batches by id, or one transaction with locked rows in the
exact mode; `TurnKey`, a restart, a run and `RemoveOldKeys` are the rotation
that the deployment guide describes. `Recover` has one key for all historical
rows: the owner's, the default user's, or the raw key of one browser out of a
key file ("local"), which no server has. `Parts` picks edits, journal, rotation,
exact runs, rollback or recovery, each from the tables `Histories` lists.

## 3. Runs

Every run checks all states within its bounds; symmetry is used where no
liveness is checked, for requests, orders, users and lineages, which are
interchangeable.

| Run | Instance | Shows |
|---|---|---|
| `lineage` | 3 requests, 1 lineage of 3 generations, 6 ticks, lifetime 4, window 2, grace 1 | `EndedLineagesStayDead`, `OldTokensDie`, `InsertNeverConflicts`, `NoLogoutDeadlock`, `HandedOutTokenIsLive` under every operation |
| `fair` | 2 requests, 2 users, 2 lineages of 3 generations, 4 ticks, window 1, grace 2, so that a row can expire and be renewed for the grace period | `OnlyOwnSessionsAreDeleted`, `RequestsFinish` |
| `revoke` | 2 requests, login, resolve, revoke | violation: a revocation misses a replacement in flight |
| `orders` | 2 requests, 2 orders, grants, revocations, settings, prices, failures, 2 subscriptions | `OrdersBuyOneSubscription`, `RevokedUsersAreFree`, and that `Payments` implements `PaidTime` (`PaidTimeIsKept`) |
| `lapse` | 1 request, 1 order | violation: the plan outlives the subscription |
| `days` | 3 requests, 3 days, months of 2 days, limits 1 per day and 2 per month; refunds that fail, processes that die | `ChargesAreAnswers`, `NeverOverdrawn`, `BonusIsConserved` |
| `merge` | 2 requests, 2 events, 2 days, every copy a device can have | `ChecksHold`, `UploadsCommute`, `StreakIsEarned`, `ShownStays`, and that `Streak` implements `EventCounter` (`CountsEventsOnce`) |
| `redeem` | 2 requests, 2 users, 2 codes, 2 coupons for one user each, renamed, deleted, created again | `OncePerUser`, `ClaimsStillHold`, `UsesAddUp` |
| `account` | 2 requests, an administrator and a user who registers, 3 tokens, 3 avatars, 5 scenes of operations, lost answers | `AnAdministratorRemains`, `UsedTokensAreGone`, `AvatarsAreStored` |
| `archive` | 2 messages with an image each, 3 runs of the script over 5 days, 2 deployments | `MessagesKeepTheirImages`, `CopiesAreTrue`, `CopiesRemain`, `DeploymentsAreSafe` |
| `records` | 2 readings in every historical form, 2 fields, 2 words, 2 keys, 2 requests, 2 entries, batches of 1 | `EntriesStayTrue`, `ReadingsAreKept`, `RunsKeepTheirPromise` |
| `clients` | 2 tabs, 3 accounts at 2 providers; 2 requests, 2 friends, 3 images on one note, lost answers; 2 visitors, 4 visits, pages of 1 | sign-in: `LandsWhereItStarted`, `CodesAreSpentOnce`, `AccountsKeepToTheirUser`; notes: `RevisionsAreKept`, `SharingSticks`, `ImagesAreStored`; visits: `OneVisitPerWindow`, `ListIsCurrent`, `ExportsAreComplete` |

Some properties join others that belong to one promise, each defined and
explained in its module: `OldTokensDie`
(`ReplacedSessionIsShortLived`, `AtMostTwoLiveGenerations`), `ShownStays`, `UsesAddUp`,
`AccountsKeepToTheirUser`, `SharingSticks`, `ListIsCurrent`, `CopiesAreTrue`
(complete copies restore, reported ones exist, shown ones exist),
`DeploymentsAreSafe`, `EntriesStayTrue`, `ReadingsAreKept`,
`RunsKeepTheirPromise`. The type invariants of all modules are theorems
(section 5), and any `...TypeOK` can be added to a configuration as an INVARIANT.

Why the bounds are enough. A lineage with three generations and a lifetime of
four ticks reaches every relation of a session, its parent and its grandchild:
rotated twice, reissued in grace, expired, deleted. Three requests on it
include two that race and one that ends the lineage. Two requests suffice for
two approvals of one order and for two orders of one user; the theorems cover
the rest. Three days of two months let a charge, a refund and a bonus fall on
either side of midnight and of the month's end; limits of one and two are
reached at once. `MaxGen`, `MaxTime`, `TxTime`, `MaxSubs`, `LastDay`,
`MaxQuestions` and `MaxId` are the bounds, and each is a guard. Two requests
are two redemptions, or a redemption and a save, of one coupon; a second
coupon is needed to rename one to the other's code and to create one under the
code of a deleted one. `redeem` edits codes only, because a save treats all
columns alike and each further column multiplies the states (with `isActive`
it takes fifteen times as many and holds too); the theorems hold for every set
of columns, `maxUses` included. In `merge` two days are enough for an event of
the day before and one of the same day, and `MaxAge` makes older dates
implausible. In `account` two uploads replace one avatar at the same time with
a third and a second one, two tokens are in the two columns of a row while a
third is issued or one is used, and an older reading of either kind is written
back. All operations with three tokens and three keys are more than TLC goes through in
minutes, so `Scenes` groups those that meet in the same columns: all that
issues, uses or rewrites tokens; overlapping uploads; roles and what saves
them; uploads against roles, and against tokens. The theorems hold for every
`Scenes`, one with all operations included. `MaxLost` says how much may have been
lost when a request begins: in `account` one column, so that what was written
back is used again and overwritten; in the scene of `clients` with the images
two, so that images are uploaded to a note that has lost some; in its other
scenes none, where requests under way go on and no new ones begin. In `clients` two tabs
are a sign-in and one that overwrites its cookie, takes its code or signs in
as another; two accounts of one address meet at the creation of its user and a
third has another; one origin is allowed and one is not. A history of two
revisions is full after three texts, and two images are the limit while a
third is uploaded. Four visits on pages of one let two arrive while an export
of two rows stands between pages, which is more than a page; `MaxRequest` lets
two controls, a refresh and a deletion compete. In `archive` the retention
periods keep their order (a local copy as long as a daily one, monthly ones
longer), a third run meets copies of both others, and the second deployment
finds what the first left. In `records` a batch of one row is followed by
another, so a request falls between two batches, and the second key replaces
the first.

`Ops` chooses which operations clients call. In `days`, `Midnight` waits
until no charge or bonus waits for its lock; with "straddle" it does not, and
`ChargesAreAnswers` fails (`MCQuota_midnight.cfg`). Over the end of a month
such a request even holds another lock than the others, so `NeverOverdrawn` is
not claimed for it either. `RevokedUsersAreFree` leaves out plans given by
hand and revocations that fail halfway ("halfway"), whose two statements can
leave the name of a revoked plan behind.

Fairness. `FairSpec` asks strong fairness of each request's next step: a
request that can go on again and again does. PostgreSQL queues waiters of a
row in order and its detector breaks every cycle; no fairness is asked of
clients or of time. Deadlock checking is off because clients may stop.

## 4. Findings

Two runs each show a disagreement between the code and what it says of itself;
`PROJECT.json` quotes the lines.

* `revoke`: "all sessions revoked" is answered while a replacement lives on.
  `resetPassword` and `updateUserRole` do not have the problem: their lock on
  `users` makes the rotation's foreign key check wait or go first.
* `lapse`: an expired purchase keeps its plan through `users.planName`.

Further ones, each with a configuration that shows it when it is run by hand
and a note beside its property:

* `MCQuota_midnight.cfg`: the date is taken before the lock, the row after it,
  so a question that waits over midnight is not refunded.
* `MCQuota_bonus.cfg`: `dailyCount` grows and `bonusRemaining` shrinks for one
  question, so bonus questions count twice.
* `MCCoupons_overrun.cfg`: the count of a coupon's uses is written back by an
  edit that was read before a redemption.
* `MCClients_spelling.cfg`: a user made by OAuth keeps the provider's spelling
  of the address, a lookup uses lower case, so one address can have two users
  (users.service.ts:313).
* `MCReencryption_orphaned.cfg`: a rotation as documented re-encrypts readings
  only; journal entries use the same keyring and lose their key.
* `MCRelease_refused.cfg`: the runner of the streak migrations refuses a
  database on which only the journal migration is pending, although the
  deployment has a runner for it that comes next.

Not findings but limits of the code, which the properties exempt by name: a
question stays charged when its one refund fails or its process dies
(`unrefunded`); whole-entity saves write older values back (`lost` in `Accounts`
and `Notes`); an error path deletes the file of a save that was committed
without an answer (`unsure` in `Accounts` and `Contact`, `astray` in `Notes`); a
note whose deletion failed names images that are gone (`astray`); overlapping
updates of one reading or entry win by order (`crossed`), an export misses rows
when others are deleted before them or when more new ones than a page holds
arrive between two pages, and the list reloads with older controls
after a deletion (`overtaken`).

## 5. Proofs

All theorems hold for every value of the constants: any number of requests,
users, lineages, tabs, orders, days, images, runs, any clock and, but for the
two exceptions named below, any `Ops`, `Scenes` or `Parts`, under the assumptions the
modules name (`...Constants`, `RotationsAreFarApart` and the like: ranges of
numbers, and how periods relate to each other). Few of the properties are
inductive as they stand; each proof module begins a part with the invariant
that is, and every conjunct is there because the proof of some step needs it.

**Sessions** (`SessionsProofs`). `TypeCorrect` is inductive as it stands. The
safety theorems need `OrderInv`: the types, what the request of each kind may
stand on, `LineageInOrder` and `RotationInOrder`. The argument: a rotation
holds its row, and found it inside the window, so at most one generation above
it is alive and that one is young (its expiry is more than a window and a
transaction away); it found its ancestors dead because each was shortened to
the grace period when it was replaced and `RotationsAreFarApart` puts a full
window between two rotations. Shortening the row and inserting the
replacement keeps the order. From it follow `ReplacedSessionsAreShortLived`,
`TwoLiveGenerations` (hence a logout that reaches one generation up and down
reaches all that is alive), together `ReplacedTokensDie`, and
`InsertsNeverConflict` (a row above a rotating one is always an active
replacement, so the unique hash never collides).

The second half needs `LogoutInv` (`RequestsAreInOrder`). A lineage is
`Settled` below a generation when no session of an earlier one is usable and
none is being made or rotated; whatever a request deletes leaves its lineage
settled below that row, so that the row never comes back, and an ended lineage
is settled altogether. Each request says which rows it has in hand, that it
has seen the rest of its lineage dead, and what it holds while it waits.
Because every step of one request keeps what the others remember
(`StepKeepsLogoutInv`), each action needs a proof for its own request only.
From it follow `LogoutsAreFinal`, `HandedOutTokensAreLive`, `SiblingsStay` and
`LogoutsNeverDeadlock`: a request that holds a row and waits for another waits
for a later generation of the same lineage, so in a cycle the wait for the
latest generation would lead out of it (by the least element of the
generations' distances, `WFMin`).

**Payments** (`PaymentsProofs`). `PayInv` adds to the two properties that an
approval under way works on a pending order for that order's user and plan
(`Sound`), that no two hold the same order or user (`Apart`), that purchases
have an end, and `StartsLast`: an approval about to commit starts where every
earlier purchase of its user and plan has ended. It stays true because only
the holder of the user's lock appends a purchase for that user, and because a
revocation waits for the subscription the approval has locked. From it follow
`OrdersBuyOne` and `PaidTimeAlwaysAddsUp`.

`LedgerInv` adds that a purchase lasts `Duration` days until it is revoked
(`PurchasesLast`), that an order nobody has placed has no terms, and that a
revocation under way names its own user's subscriptions (`OwnSubs`). With it
every order reads the same days off the tables as long as it is paid
(`DaysAreBought`, `DaysStay`), whatever is appended behind, so each transition is
a step of `PaidTime` or a stutter, with one lemma for each of the three steps
(`PlacingPlaces`, `ApprovingBuys`, `RevokingTakesBack`): `PaidTimeIsAlwaysKept`.

`RevokeInv` adds that what was revoked is over (`RevokedAreOver`), that a
revocation deals with its own user's subscriptions, and that a user named
after a plan has one that nobody revoked, or one given by hand, or a
revocation about to take the name away (`NamedForAReason`). From it follows
`RevokedUsersAreAlwaysFree`, on the condition that "halfway" is not in `Ops`:
a revocation whose second statement fails leaves the name behind.

**Streak** (`StreakProofs`). `StreakInv` is the types, the CHECK constraints,
that there is no streak without a row,
that what a transaction has made of the row is the merge of its snapshot with
the row as it still is (`Sound`), which holds because one transaction at most
has the row (`Alone`), and that every total a device knows is one it brought
along or one the row has reached (`Known`). Normalising
yields a snapshot that passes the checks, merging is idempotent, commutative
and monotone (lemmas about `Merge` and `NormalizeSnapshot`), and applying an
event keeps what the row shows. From it follow `ConstraintsAlwaysHold`,
`NothingIsEverTakenBack`, `CardIsAlwaysDrawnOnce` (together
`ShownAlwaysStays`), `UploadsAlwaysCommute`, and
step by step that every transition is one of `EventCounter` or a stutter
(`StreakCountsEventsOnce`).

`EarnedInv` says where a streak comes from, of the row, of every copy on a
device and of every snapshot in a request: it is as long as the days of events
in an unbroken run up to its last day (`OwnRun`), or continues one that a
device brought along (`BroughtRun`). A merge takes the streak of one of its
sides, with its last day, so it needs the same of both; an event adds a
day that no event had, because the row's last day is the latest one. From it
follows `StreaksAreAlwaysEarned`.

**Coupons** (`CouponsProofs`). `CouponInv` joins the three properties of
states with what they lean on: one redemption holds a coupon (`OneHolder`),
codes are unique (`UniqueCodes`), a subscription that a coupon gave has its
redemption as long as the coupon was neither deleted nor brought back
(`Recorded`), and ids are never given twice (`Fresh`). A claim keeps it
because no step changes a locked row and because a subscription of another
request for the same user and code would need the row with that code, which is
this one. Every edit keeps it, whatever columns it changes. From it follow
`UsersRedeemOnce`, `ClaimsAlwaysHold`, `CouponsCountTheirUses` and, with the
count, `CouponsKeepTheirLimit` (together `UsesAlwaysAddUp`).

**Quota** (`QuotaProofs`). `QuotaInv` (`QuotaInvariant`) adds to the types and
the three properties that a request changes the row of its own date
(`DatedRequest`), that what it is about to write is still made from the row as
it is and what it checked still holds (`SoundRequest`), and that one request
writes in a month (`Apart`), which is what the advisory lock is for: the month's
sum is read under it too. All of it holds on the condition that "straddle"
is not in `Ops`, since a question that waits over midnight breaks each part.
The proofs count sets: a charge adds one element to the questions of a day and
a refund takes one away, while a question that is answered, or fails for good,
moves from those open to those closed (`Closed`), so no failure changes the
sum. From it follow `ChargesAlwaysAreAnswers`,
`BonusIsAlwaysConserved` and `QuotaIsNeverOverdrawn`.

**Accounts** (`AccountsProofs`). Three invariants over `BaseInv` (types, and
what a request stands on), one per property, each with its excuse. `AdminInv`: one request changes roles at a time, and
another administrator is there when it takes one away. `TokenInv`: a token
that has been drawn and not saved yet is known to one request and one column
(`IssuesAlone`), and every other token in a request's hands was found in a row's
column, so a save that puts a used one back is in `lost` with that token.
`AvatarInv`: a stored file belongs to one row or one request until it is
named, and is deleted only by the request that knows that no row has it, or by
one whose save was committed without its knowledge.
From them follow `AnAdministratorAlwaysRemains`, `UsedTokensAreAlwaysGone` and
`AvatarsAreAlwaysStored`.

**Clients** (`ClientsProofs`). A step of one part leaves the others alone, so
each part has its own invariant.

* `SignInInv`: the cookie that answers to a tab's state is the one its start
  has set, because states are never drawn twice (`CookiesAnswer`); one tab has
  a code in hand and a spent one is dead (`CodesInHand`); users keep their
  addresses, and an account belongs to the one who has its address
  (`UsersKeepTheirAddresses`). It gives `SignInsLandWhereTheyStarted`,
  `CodesAreAlwaysSpentOnce` and `AccountsAlwaysKeepToTheirUser`.
* `TrafficInv` joins three. `VisitsInv`: the throttle knows every visit of
  this start that is not a window old. `ViewInv`: the current load was asked
  for with the current controls, or the deletion will ask again. `ExportInv`:
  what was listed and is not read yet lies on the pages to come (`Unread`),
  which holds because new visits only push old rows to later pages; it is
  shown by counting the rows after a row. They give
  `VisitsAreCountedOncePerWindow`, `ListsAreAlwaysCurrent` and
  `ExportsAreAlwaysComplete`.
* `NotesInv`: a save writes a column it has changed only over the value from
  which it made the new one, or the column joins `lost`; on this lean three
  parts, each excused by the loss of its own columns. `LinksFine`: a link that was drawn is known to one
  request until it is saved, closed ones are gone. `SharingFine`: whoever has
  accepted, or is about to be marked so, has the note or was removed.
  `RevisionsFine`: a replaced text is in the history until it is full, whose
  head a save writes from the text it read. They give
  `SharingAlwaysSticks` and `RevisionsAreAlwaysKept`.
* `ImagesFine` (`ImagesInvariant`) is inductive beside the types and needs no
  column to be unharmed: an image that a request has stored and not saved is
  stored and named by nothing else, an image that a request is to delete is not
  named any more, or is in `astray`, and every image a save adds is its own
  request's or joins `astray`. It gives `ImagesAreAlwaysStored`.

**Release** (`OperationsProofs`, first half). `ReleaseInv` joins `MessageInv` (a row comes
after its images), `CopiesInv` (what a run has dumped has its images in the
copy or still before tar), `RunsInv` (where the run that holds the lock stands,
and that the summary vouches for a copy that is there or too old for its
summary to be believed: `Reliable`) and `DeployInv` (a runner's pending
migrations are its own and those not recorded when it looked; a restart finds
tables that were looked at). A visitor's step, a step of the script and one of
a deployment each disturb few of them. From it follow
`MessagesAlwaysKeepTheirImages`, `CopiesAreAlwaysTrue`, `CopiesAlwaysRemain` and
`DeploymentsAreAlwaysSafe`. The assumption that copies are kept for more than
a day beyond the age of a summary came out of this proof: with shorter
retention a summary vouches for a copy that was deleted.

**Readings, Journal and Reencryption** (`OperationsProofs`, second half). Six
invariants, `RecordTypes` and five parts that lean on each other
(`RecordsAreSound`, `EntriesAlwaysStayTrue`):

* `ReadingsInv`: an update under way has read a document that could be
  decrypted, and unless another request came first (`late`) what it has read is
  what the reading still holds, because the script changes a row's form and
  key and never its content (`ConvertedRows`).
* `EntriesInv`: the same of an entry (`FreshDraft`), and an id stays with one
  reading, in the table and in every request that has it in hand (`OwnId`).
* `RotationInv` says at each point of a rotation which keys seal the rows:
  before the restart the server's old one, during a run any key of the ring, and
  after a run that ended with `--reencrypt` the active one, which is what makes
  removing the others safe. While a script runs the server writes under the
  same key as the script (`OneKeyWhileItRuns`); that is why the order of the
  deployment guide asks for the restart first.
* `RunInv` says what a run knows of the rows its cursor has passed
  (`Passed`): the preflight of a default run has noted every damaged one, its
  second pass has converted every row, a rollback has left none in v3, and a run
  that expects failures holds the rows it has seen, which are still as in its
  snapshot. It rests on the batches: `EmptyBatch` and `FullBatch` show that
  the first `BatchSize` rows behind the cursor pass no row by, from the least
  and greatest number of a finite set. Rows the server writes meanwhile are v3 and
  not damaged, since a historical document is never made, only found
  (`LegacyIsNeverMade`).
* `RecoveryInv`: a row that is historical now is the row of the restored copy.

From them follow `ReadingsAreAlwaysKept`, `RunsAlwaysKeepTheirPromise` (a run writes
only when what it cannot read is what it was told to expect, and the three
promises afterwards), `EntriesAlwaysStayTrue` and `RecordsAreTyped`. The
assumptions: readings are finitely many and numbered from 1, a batch has at
least one row, "none" is not a text, and the envelopes found at the start are
under the key configured then (`Found`).

Only model-checked: `RequestsFinish`, since liveness under fairness and `ENABLED` are
out of the prover's reach. The runs `revoke` and `lapse` refute what they
check, so there is nothing to prove about it. The library's induction
theorems take an operator as parameter and are out of reach too; where a proof
needs the last or the least of something it takes a least element (`WFMin`),
and no definition of these modules is recursive.

## 6. Not modelled

Out of scope is what is pure I/O or stateless: mails, probes of other services,
the S3 client, request guards, listings, statistics and the audit log; the
cryptography; the layout of the pages. The other views of the administration
load and save as the view of visits does. The agent runner
(`scripts/agy-runner.mjs`) and the GitHub tools serve the developers and touch
no data of the system.

Left out of modelled parts: the worth, expiry and added days of a coupon,
which need the dates of `Payments`; note passwords as a value of their own, the
order of a user's notes and the expiry of guest notes; read marks and session
history of contact messages; the attributes of cookies.

Known hazards that no model covers yet: a plan is granted in two statements
(plans.service.ts:729); two coupons that add days start from the same
subscription (plans.service.ts:502); a status change saves a user read without
a lock (admin.service.ts:325, whose columns `Accounts` has); the application is
stopped and started apart from the new build being copied (deploy.yml:180); a
ping is throttled although the accepted one was not saved
(analytics.service.ts:114).
