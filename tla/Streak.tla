------------------------------- MODULE Streak -------------------------------
(***************************************************************************)
(* The streak of one user in one app (src/src/streak/streak.service.ts).   *)
(* Devices keep copies of the row, upload them at any time and in any      *)
(* order, and report activity events, each with the copy they hold.  An    *)
(* upload is one INSERT ... ON CONFLICT DO UPDATE; an event is a           *)
(* transaction of that statement, an INSERT of the event's id and, when    *)
(* the id is new, an UPDATE of the row.                                    *)
(*                                                                         *)
(* What an answer delivers to a device stays in `copies' for ever, so late *)
(* uploads, repeated requests and answers that never arrive are included.  *)
(***************************************************************************)
EXTENDS Integers, FiniteSets

CONSTANTS
  Proc,       \* concurrent requests
  Event,      \* event ids
  Card,       \* ids of daily cards
  Offline,    \* copies that devices made themselves, before they signed in
  MaxStreak,  \* 1_000_000
  MaxTotal,   \* 2_000_000_000
  MaxAge,     \* 3650: how old a date may be
  FirstDay,   \* the day the story begins
  LastDay,    \* bound: when it ends
  NoCard, NoEvent

\* Days are counted from some day in the past; 0 is SQL's NULL.
Date == 1 .. LastDay + 1
NoDate == 0

Snapshot ==
  [currentStreak : 0 .. MaxStreak, longestStreak : 0 .. MaxStreak,
   totalReadings : 0 .. MaxTotal,
   lastActiveDate : Date \cup {NoDate}, streakFreezeUsed : BOOLEAN,
   dailyCardDate : Date \cup {NoDate}, dailyCardId : Card \cup {NoCard}]

ASSUME StreakConstants ==
  /\ MaxStreak \in Nat \ {0} /\ MaxTotal \in Nat \ {0} /\ MaxAge \in Nat
  /\ FirstDay \in Nat \ {0} /\ LastDay \in Nat /\ FirstDay <= LastDay
  /\ NoCard \notin Card /\ NoEvent \notin Event
  /\ Offline \subseteq Snapshot

NoStreak ==
  [currentStreak |-> 0, longestStreak |-> 0, totalReadings |-> 0,
   lastActiveDate |-> NoDate, streakFreezeUsed |-> FALSE,
   dailyCardDate |-> NoDate, dailyCardId |-> NoCard]

VARIABLES
  today,        \* the day, UTC
  exists, row,  \* user_streaks: whether there is a row, and the row
  events,       \* streak_activity_events
  activityDate, \* the date that belongs to each event id
  req,          \* what each request is doing
  copies,       \* the snapshots devices hold
  advances      \* history: the days that became the last active date by an event

vars == <<today, exists, row, events, activityDate, req, copies, advances>>

(***************************************************************************)
(* An activity event waits for the row, with a normalised snapshot         *)
(* ("event"), and then holds it ("count"), `state' being what the upsert   *)
(* of its transaction made of the row.                                     *)
(***************************************************************************)
Request ==
  [pc : {"idle", "event", "count"}, event : Event \cup {NoEvent},
   snapshot : Snapshot, state : Snapshot]

Idle == [pc |-> "idle", event |-> NoEvent, snapshot |-> NoStreak,
         state |-> NoStreak]

TypeOK ==
  /\ today \in FirstDay .. LastDay
  /\ exists \in BOOLEAN /\ row \in Snapshot
  /\ events \subseteq Event
  /\ activityDate \in [Event -> Date]
  /\ req \in [Proc -> Request]
  /\ copies \subseteq Snapshot
  /\ advances \subseteq Date

Init ==
  /\ today = FirstDay
  /\ exists = FALSE /\ row = NoStreak
  /\ events = {}
  /\ activityDate \in [Event -> Date]
  /\ req = [p \in Proc |-> Idle]
  /\ copies = {NoStreak} \cup Offline
  /\ advances = {}

At(p, pc) == req[p].pc = pc

-----------------------------------------------------------------------------
(* The arithmetic of snapshots.                                            *)

Greater(a, b) == IF a > b THEN a ELSE b
Counter(n, maximum) == IF n > maximum THEN maximum ELSE n

\* isPlausibleActivityDate: one day ahead of UTC at most, and not too old.
IsPlausible(d) == d # NoDate /\ today - MaxAge <= d /\ d <= today + 1

PlausibleOrNone(d) == IF IsPlausible(d) THEN d ELSE NoDate

NormalizeKeepsLongest(s) ==
  LET last == PlausibleOrNone(s.lastActiveDate) IN
  [s EXCEPT !.currentStreak = IF last = NoDate THEN 0 ELSE @,
            !.lastActiveDate = last,
            !.streakFreezeUsed = last # NoDate /\ @,
            !.dailyCardDate = PlausibleOrNone(@),
            !.dailyCardId = IF PlausibleOrNone(s.dailyCardDate) = NoDate
                            THEN NoCard ELSE @]

NormalizeSnapshot(s) ==
  LET last == PlausibleOrNone(s.lastActiveDate)
      card == PlausibleOrNone(s.dailyCardDate)
      current == IF last = NoDate THEN 0 ELSE Counter(s.currentStreak, MaxStreak)
  IN [currentStreak |-> current,
      longestStreak |-> Greater(current, Counter(s.longestStreak, MaxStreak)),
      totalReadings |-> Counter(s.totalReadings, MaxTotal),
      lastActiveDate |-> last,
      streakFreezeUsed |-> last # NoDate /\ s.streakFreezeUsed,
      dailyCardDate |-> card,
      dailyCardId |-> IF card = NoDate THEN NoCard ELSE s.dailyCardId]

\* Mutations of the statement: the later upload wins a day, or a day's card.
MergeLastUpload(r, s) ==
  IF s.lastActiveDate >= r.lastActiveDate
  THEN [s EXCEPT !.longestStreak = Greater(@, r.longestStreak),
                 !.totalReadings = Greater(@, r.totalReadings)]
  ELSE r

MergeLastCard(r, s) ==
  [r EXCEPT !.totalReadings = Greater(@, s.totalReadings),
            !.dailyCardDate = Greater(@, s.dailyCardDate),
            !.dailyCardId = IF s.dailyCardDate >= r.dailyCardDate
                            THEN s.dailyCardId ELSE @]

\* UPSERT_SNAPSHOT_SQL on a row r and an EXCLUDED row s.  NoDate is below every
\* date, as NULL is in each of the statement's cases.
Merge(r, s) ==
  [currentStreak |->
     IF s.lastActiveDate > r.lastActiveDate \/ r.lastActiveDate = NoDate
     THEN s.currentStreak
     ELSE IF s.lastActiveDate = r.lastActiveDate
          THEN Greater(r.currentStreak, s.currentStreak)
          ELSE r.currentStreak,
   longestStreak |-> Greater(r.longestStreak, s.longestStreak),
   totalReadings |-> Greater(r.totalReadings, s.totalReadings),
   lastActiveDate |-> Greater(r.lastActiveDate, s.lastActiveDate),
   streakFreezeUsed |->
     IF s.lastActiveDate > r.lastActiveDate \/ r.lastActiveDate = NoDate
     THEN s.streakFreezeUsed
     ELSE r.streakFreezeUsed \/
            (s.lastActiveDate = r.lastActiveDate /\ s.streakFreezeUsed),
   dailyCardDate |-> Greater(r.dailyCardDate, s.dailyCardDate),
   dailyCardId |->
     IF s.dailyCardDate > r.dailyCardDate \/ r.dailyCardDate = NoDate
        \/ (s.dailyCardDate = r.dailyCardDate /\ r.dailyCardId = NoCard)
     THEN s.dailyCardId
     ELSE r.dailyCardId]

\* The streak after an active day d later than the last one: it goes on after
\* one day, and after two once, when it was not frozen the time before.
FrozenAgain(s, d) ==
  s.lastActiveDate # NoDate /\ d - s.lastActiveDate = 2 /\ s.currentStreak > 0

Frozen(s, d) ==
  /\ s.lastActiveDate # NoDate /\ d - s.lastActiveDate = 2
  /\ s.currentStreak > 0 /\ ~s.streakFreezeUsed

Continued(s, d) ==
  IF s.lastActiveDate # NoDate /\ (d - s.lastActiveDate = 1 \/ Frozen(s, d))
  THEN Counter(s.currentStreak + 1, MaxStreak)
  ELSE 1

ApplyLateActivity(s, d) ==
  [s EXCEPT !.currentStreak = Continued(s, d),
            !.longestStreak = Greater(@, Continued(s, d)),
            !.totalReadings = Counter(@ + 1, MaxTotal),
            !.lastActiveDate = d,
            !.streakFreezeUsed = Frozen(s, d)]

ApplyActivity(s, d) ==
  LET counted == [s EXCEPT !.totalReadings = Counter(@ + 1, MaxTotal)] IN
  IF d <= s.lastActiveDate
  THEN counted
  ELSE [counted EXCEPT
          !.currentStreak = Continued(s, d),
          !.longestStreak = Greater(@, Continued(s, d)),
          !.lastActiveDate = d,
          !.streakFreezeUsed = Frozen(s, d)]

-----------------------------------------------------------------------------
(* The requests.                                                           *)

\* No open transaction holds the row, or the key of the row to be inserted.
RowIsFree == \A p \in Proc : ~At(p, "count")

\* recordActivity checks and normalises dates before it reaches the database.
BeginEvent(p) ==
  /\ At(p, "idle")
  /\ \E e \in Event, s \in copies :
       /\ IsPlausible(activityDate[e])
       /\ req' = [req EXCEPT ![p].pc = "event", ![p].event = e,
                             ![p].snapshot = NormalizeSnapshot(s)]
  /\ UNCHANGED <<today, exists, row, events, activityDate, copies, advances>>

\* What the upsert makes of the row: without a row it inserts the snapshot.
Upserted(s) == IF exists THEN Merge(row, s) ELSE s

\* A new state of the row is committed and answered.
Commit(state) ==
  /\ exists' = TRUE /\ row' = state
  /\ copies' = copies \cup {state}

\* upsert: one statement, which waits for the row.
Upload ==
  /\ RowIsFree
  /\ \E s \in copies : Commit(Upserted(NormalizeSnapshot(s)))
  /\ UNCHANGED <<today, events, activityDate, req, advances>>

\* The first statement of an event's transaction.
MergeSnapshot(p) ==
  /\ At(p, "event") /\ RowIsFree
  /\ req' = [req EXCEPT ![p].pc = "count", ![p].state = Upserted(req[p].snapshot)]
  /\ UNCHANGED <<today, exists, row, events, activityDate, copies, advances>>

CountEventAgain(p) ==
  LET d == activityDate[req[p].event] IN
  /\ At(p, "count")
  /\ events' = events \cup {req[p].event}
  /\ Commit(ApplyActivity(req[p].state, d))
  /\ req' = [req EXCEPT ![p] = Idle]
  /\ advances' = IF d > req[p].state.lastActiveDate
                 THEN advances \cup {d} ELSE advances
  /\ UNCHANGED <<today, activityDate>>

CountEvent(p) ==
  LET e == req[p].event
      d == activityDate[e]
  IN /\ At(p, "count") /\ e \notin events
     /\ events' = events \cup {e}
     /\ Commit(ApplyActivity(req[p].state, d))
     /\ req' = [req EXCEPT ![p] = Idle]
     /\ advances' = IF d > req[p].state.lastActiveDate
                    THEN advances \cup {d} ELSE advances
     /\ UNCHANGED <<today, activityDate>>

\* ON CONFLICT DO NOTHING: only the merge is committed.
DuplicateEvent(p) ==
  /\ At(p, "count") /\ req[p].event \in events
  /\ Commit(req[p].state)
  /\ req' = [req EXCEPT ![p] = Idle]
  /\ UNCHANGED <<today, events, activityDate, advances>>

\* The database or the connection fails: nothing of the request remains.
Fail(p) ==
  /\ ~At(p, "idle")
  /\ req' = [req EXCEPT ![p] = Idle]
  /\ UNCHANGED <<today, exists, row, events, activityDate, copies, advances>>

NextDay ==
  /\ today < LastDay
  /\ today' = today + 1
  /\ UNCHANGED <<exists, row, events, activityDate, req, copies, advances>>

Step(p) ==
  \/ BeginEvent(p)
  \/ MergeSnapshot(p) \/ CountEvent(p) \/ DuplicateEvent(p)
  \/ Fail(p)

Next == NextDay \/ Upload \/ \E p \in Proc : Step(p)

Spec == Init /\ [][Next]_vars

-----------------------------------------------------------------------------
(* Properties.                                                             *)

\* The server counts as EventCounter says: each event once, however often it
\* is sent and with whatever copy, in spite of failures
\* (streak.service.spec.ts:149, 353).
Counting == INSTANCE EventCounter WITH
  counted <- events, total <- row.totalReadings,
  Imported <- {s.totalReadings : s \in Offline}

CountsEventsOnce == Counting!Spec

\* The CHECK constraints of user_streaks (1792886400000-UserStreaks.ts:20-29).
PassesChecks(s) ==
  /\ s.longestStreak >= s.currentStreak
  /\ s.lastActiveDate = NoDate => s.currentStreak = 0 /\ ~s.streakFreezeUsed
  /\ s.dailyCardDate = NoDate => s.dailyCardId = NoCard

\* No statement is ever refused by the constraints of the table: neither the
\* row a statement proposes nor the row it makes of the present one.
ChecksHold ==
  /\ PassesChecks(row)
  /\ \A p \in Proc : PassesChecks(req[p].snapshot) /\ PassesChecks(req[p].state)

\* Nothing a device has seen is ever taken back: the last day, the totals and
\* the longest streak do not go down, the streak of a day does not shrink, and
\* a freeze that was used is not offered again (streak.service.ts:37-84).
RowGrows ==
  /\ row'.lastActiveDate >= row.lastActiveDate
  /\ row'.longestStreak >= row.longestStreak
  /\ row'.totalReadings >= row.totalReadings
  /\ row'.lastActiveDate = row.lastActiveDate =>
       /\ row'.currentStreak >= row.currentStreak
       /\ row.streakFreezeUsed => row'.streakFreezeUsed

\* Every step of the server keeps what the row shows (streak.service.ts:37-84).
NothingIsTakenBack == [][RowGrows]_vars

\* The card of a day is drawn once: a second device cannot replace it
\* (streak.service.ts:71-77).
CardStays ==
  /\ row'.dailyCardDate >= row.dailyCardDate
  /\ row'.dailyCardDate = row.dailyCardDate /\ row.dailyCardId # NoCard =>
       row'.dailyCardId = row.dailyCardId

\* Every step of the server keeps the card (streak.service.ts:71-77).
CardIsDrawnOnce == [][CardStays]_vars

\* What a device has shown its user stays, whatever other devices upload later
\* (streak.service.ts:37-84).
ShownStays == [][RowGrows /\ CardStays]_vars

\* It does not matter in which order two devices upload what they hold, except
\* for two cards of one day, of which the first stays (streak.service.ts:37-84).
\* It is said of states without an event under way: an event that fails leaves
\* the same row and the same copies.
UploadsCommute ==
  (\A p \in Proc : At(p, "idle")) =>
    \A s, t \in {NormalizeSnapshot(c) : c \in copies} :
      LET st == Merge(Merge(row, s), t)
          ts == Merge(Merge(row, t), s)
          twoCards == s.dailyCardDate = t.dailyCardDate /\ s.dailyCardId # t.dailyCardId
      IN IF twoCards THEN [st EXCEPT !.dailyCardId = ts.dailyCardId] = ts ELSE st = ts

\* The days of events after day d, and a set of days that makes a streak: at
\* most one is missing between two of them, and not twice in a row.
After(d) == {a \in advances : a > d}

Unbroken(D) ==
  \A d \in D :
    \/ \A c \in D : d <= c
    \/ d - 1 \in D
    \/ d - 2 \in D /\ (d - 3 \in D \/ d - 4 \notin D)

\* A streak is earned: it counts days of events that follow each other, or that
\* follow the streak some device brought along; a missed day is forgiven once
\* (streak.service.ts:279-327, streak.service.spec.ts:241).
StreakIsEarned ==
  row.currentStreak > 0 =>
    \/ \E d \in advances :
         /\ Unbroken(After(d - 1))
         /\ row.currentStreak = Counter(Cardinality(After(d - 1)), MaxStreak)
    \/ \E s \in Offline :
         LET D == After(s.lastActiveDate) IN
         /\ Unbroken(D \cup {s.lastActiveDate})
         /\ row.currentStreak = Counter(s.currentStreak + Cardinality(D), MaxStreak)
=============================================================================
