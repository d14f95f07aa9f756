---------------------------- MODULE StreakProofs ----------------------------
(***************************************************************************)
(* Proofs about Streak for every number of requests, events, devices and   *)
(* days: the statements respect the table's constraints, nothing a device  *)
(* has seen is taken back, uploads commute, the total implements           *)
(* EventCounter, and a streak is earned.                                   *)
(***************************************************************************)
EXTENDS Streak, FiniteSetTheorems, TLAPS

-----------------------------------------------------------------------------
(* Lemmas about the arithmetic of snapshots.                               *)

\* Counter keeps a number within its maximum, and leaves one that is alone.
LEMMA CounterBounds ==
  ASSUME NEW n \in Nat, NEW maximum \in Nat
  PROVE  /\ Counter(n, maximum) \in 0 .. maximum
         /\ n <= maximum => Counter(n, maximum) = n
  BY DEF Counter

\* A row without a streak is a snapshot the table accepts.
LEMMA NoStreakIsFine == NoStreak \in Snapshot /\ PassesChecks(NoStreak)
  BY StreakConstants DEF NoStreak, Snapshot, PassesChecks, NoDate

\* Normalising yields a snapshot the table accepts, with the same total.
LEMMA NormalizeIsFine ==
  ASSUME NEW s \in Snapshot
  PROVE  /\ NormalizeSnapshot(s) \in Snapshot
         /\ PassesChecks(NormalizeSnapshot(s))
         /\ NormalizeSnapshot(s).totalReadings = s.totalReadings
  <1> DEFINE last == PlausibleOrNone(s.lastActiveDate)
             card == PlausibleOrNone(s.dailyCardDate)
             current == IF last = NoDate THEN 0
                        ELSE Counter(s.currentStreak, MaxStreak)
             frozen == last # NoDate /\ s.streakFreezeUsed
             drawn == IF card = NoDate THEN NoCard ELSE s.dailyCardId
  <1> USE StreakConstants
  <1>1. last \in Date \cup {NoDate} /\ card \in Date \cup {NoDate}
    BY DEF PlausibleOrNone, Snapshot
  <1>2. s.currentStreak \in 0 .. MaxStreak /\ s.longestStreak \in 0 .. MaxStreak
        /\ s.totalReadings \in 0 .. MaxTotal
    BY DEF Snapshot
  <1>3. current \in 0 .. MaxStreak
    BY <1>2 DEF Counter
  <1>4. Greater(current, Counter(s.longestStreak, MaxStreak)) \in 0 .. MaxStreak
        /\ Greater(current, Counter(s.longestStreak, MaxStreak)) >= current
    BY <1>2, <1>3 DEF Greater, Counter
  <1>5. Counter(s.totalReadings, MaxTotal) = s.totalReadings
    BY <1>2 DEF Counter
  <1>6. drawn \in Card \cup {NoCard} /\ (card = NoDate => drawn = NoCard)
    BY DEF Snapshot
  <1>7. frozen \in BOOLEAN /\ (last = NoDate => frozen = FALSE /\ current = 0)
    OBVIOUS
  <1> HIDE DEF last, card, current, frozen, drawn
  <1>8. NormalizeSnapshot(s) =
          [currentStreak |-> current,
           longestStreak |-> Greater(current, Counter(s.longestStreak, MaxStreak)),
           totalReadings |-> Counter(s.totalReadings, MaxTotal),
           lastActiveDate |-> last,
           streakFreezeUsed |-> frozen,
           dailyCardDate |-> card,
           dailyCardId |-> drawn]
    BY DEF NormalizeSnapshot, last, card, current, frozen, drawn
  <1>9. NormalizeSnapshot(s) \in Snapshot
    BY <1>1, <1>2, <1>3, <1>4, <1>5, <1>6, <1>7, <1>8 DEF Snapshot
  <1>10. PassesChecks(NormalizeSnapshot(s))
    BY <1>4, <1>6, <1>7, <1>8 DEF PassesChecks
  <1> QED
    BY <1>5, <1>8, <1>9, <1>10

\* s shows everything r shows: what NothingIsTakenBack and CardIsDrawnOnce say
\* of two successive rows.
Keeps(r, s) ==
  /\ s.lastActiveDate >= r.lastActiveDate
  /\ s.longestStreak >= r.longestStreak
  /\ s.totalReadings >= r.totalReadings
  /\ s.lastActiveDate = r.lastActiveDate =>
       /\ s.currentStreak >= r.currentStreak
       /\ r.streakFreezeUsed => s.streakFreezeUsed

KeepsCard(r, s) ==
  /\ s.dailyCardDate >= r.dailyCardDate
  /\ s.dailyCardDate = r.dailyCardDate /\ r.dailyCardId # NoCard =>
       s.dailyCardId = r.dailyCardId

\* Dates and counters of a snapshot are natural numbers.
LEMMA SnapshotFields ==
  ASSUME NEW s \in Snapshot
  PROVE  /\ s.currentStreak \in Nat /\ s.longestStreak \in Nat
         /\ s.totalReadings \in Nat
         /\ s.lastActiveDate \in Nat /\ s.dailyCardDate \in Nat
         /\ s.streakFreezeUsed \in BOOLEAN
  BY StreakConstants DEF Snapshot, Date, NoDate

\* The statement makes of two good snapshots a good one that keeps the row.
LEMMA MergeIsFine ==
  ASSUME NEW r \in Snapshot, NEW s \in Snapshot
  PROVE  Merge(r, s) \in Snapshot
  <1>1. \A a, b \in Nat : Greater(a, b) \in {a, b}
    BY DEF Greater
  <1> QED
    BY <1>1, StreakConstants DEF Merge, Snapshot, Greater, Date, NoDate

LEMMA MergePassesChecks ==
  ASSUME NEW r \in Snapshot, NEW s \in Snapshot, PassesChecks(r), PassesChecks(s)
  PROVE  PassesChecks(Merge(r, s))
  BY SnapshotFields DEF Merge, PassesChecks, Greater, NoDate

LEMMA MergeKeeps ==
  ASSUME NEW r \in Snapshot, NEW s \in Snapshot, PassesChecks(r), PassesChecks(s)
  PROVE  Keeps(r, Merge(r, s)) /\ KeepsCard(r, Merge(r, s))
  BY SnapshotFields DEF Merge, PassesChecks, Greater, NoDate, Keeps, KeepsCard

\* An activity keeps a good snapshot good.
LEMMA ApplyIsFine ==
  ASSUME NEW s \in Snapshot, NEW d \in Date, PassesChecks(s)
  PROVE  /\ ApplyActivity(s, d) \in Snapshot
         /\ PassesChecks(ApplyActivity(s, d))
         /\ Keeps(s, ApplyActivity(s, d)) /\ KeepsCard(s, ApplyActivity(s, d))
         /\ ApplyActivity(s, d).totalReadings = Counter(s.totalReadings + 1, MaxTotal)
  <1> USE StreakConstants
  <1>1. Continued(s, d) \in 0 .. MaxStreak
    BY DEF Continued, Counter, Snapshot
  <1>2. Counter(s.totalReadings + 1, MaxTotal) \in 0 .. MaxTotal
        /\ Counter(s.totalReadings + 1, MaxTotal) >= s.totalReadings
    BY DEF Counter, Snapshot
  <1>3. Greater(s.longestStreak, Continued(s, d)) \in 0 .. MaxStreak
        /\ Greater(s.longestStreak, Continued(s, d)) >= s.longestStreak
        /\ Greater(s.longestStreak, Continued(s, d)) >= Continued(s, d)
    BY <1>1 DEF Greater, Snapshot
  <1>4. Frozen(s, d) \in BOOLEAN
    BY DEF Frozen
  <1>5. d \in Nat \ {0}
    BY DEF Date
  <1> DEFINE counted == [s EXCEPT !.totalReadings = Counter(@ + 1, MaxTotal)]
  <1>6. CASE d <= s.lastActiveDate
    <2>1. ApplyActivity(s, d) = counted
      BY <1>6 DEF ApplyActivity
    <2> QED
      BY <2>1, <1>2, SnapshotFields DEF Snapshot, PassesChecks, Keeps, KeepsCard
  <1>7. CASE ~(d <= s.lastActiveDate)
    <2>1. ApplyActivity(s, d) =
            [s EXCEPT !.totalReadings = Counter(s.totalReadings + 1, MaxTotal),
                      !.currentStreak = Continued(s, d),
                      !.longestStreak = Greater(s.longestStreak, Continued(s, d)),
                      !.lastActiveDate = d,
                      !.streakFreezeUsed = Frozen(s, d)]
      BY <1>7 DEF ApplyActivity, Snapshot
    <2>2. ApplyActivity(s, d) \in Snapshot
      BY <2>1, <1>1, <1>2, <1>3, <1>4 DEF Snapshot
    <2>3. PassesChecks(ApplyActivity(s, d))
      BY <2>1, <1>3, <1>5 DEF Snapshot, PassesChecks, NoDate
    <2>4. d > s.lastActiveDate
      BY <1>5, <1>7, SnapshotFields
    <2>5. /\ ApplyActivity(s, d).lastActiveDate = d
          /\ ApplyActivity(s, d).longestStreak >= s.longestStreak
          /\ ApplyActivity(s, d).totalReadings >= s.totalReadings
          /\ ApplyActivity(s, d).totalReadings = Counter(s.totalReadings + 1, MaxTotal)
          /\ ApplyActivity(s, d).dailyCardDate = s.dailyCardDate
          /\ ApplyActivity(s, d).dailyCardId = s.dailyCardId
      BY <2>1, <1>2, <1>3 DEF Snapshot
    <2> QED
      BY <2>2, <2>3, <2>4, <2>5, <1>5, SnapshotFields DEF Keeps, KeepsCard
  <1> QED
    BY <1>6, <1>7
-----------------------------------------------------------------------------
(* The invariant.                                                          *)

\* What a waiting or running event stands on.
Sound(p) ==
  /\ ~At(p, "idle") => req[p].event \in Event
  /\ At(p, "count") => req[p].state = Upserted(req[p].snapshot)

\* One transaction holds the row.
Alone(p, q) == At(p, "count") /\ At(q, "count") => p = q

\* A total a device knows is one it brought along, or one the row has reached.
Known(n) == n \in {s.totalReadings : s \in Offline} \/ n <= row.totalReadings

StreakInv ==
  /\ TypeOK /\ ChecksHold
  /\ ~exists => row = NoStreak
  /\ \A p \in Proc : Sound(p)
  /\ \A p, q \in Proc : Alone(p, q)
  /\ \A s \in copies : Known(s.totalReadings)
  /\ \A p \in Proc : Known(req[p].snapshot.totalReadings)

\* What the upsert makes of the row.
LEMMA UpsertedIsFine ==
  ASSUME StreakInv, NEW s \in Snapshot, PassesChecks(s)
  PROVE  /\ Upserted(s) \in Snapshot /\ PassesChecks(Upserted(s))
         /\ Keeps(row, Upserted(s)) /\ KeepsCard(row, Upserted(s))
         /\ Upserted(s).totalReadings = Greater(row.totalReadings, s.totalReadings)
  <1>1. row \in Snapshot /\ PassesChecks(row)
    BY DEF StreakInv, TypeOK, ChecksHold
  <1>2. CASE exists
    <2>1. Upserted(s) = Merge(row, s)
      BY <1>2 DEF Upserted
    <2>2. Merge(row, s).totalReadings = Greater(row.totalReadings, s.totalReadings)
      BY DEF Merge
    <2> QED
      BY <1>1, <2>1, <2>2, MergeIsFine, MergePassesChecks, MergeKeeps
  <1>3. CASE ~exists
    <2>1. Upserted(s) = s /\ row = NoStreak
      BY <1>3 DEF Upserted, StreakInv
    <2>2. Keeps(NoStreak, s) /\ KeepsCard(NoStreak, s)
      BY SnapshotFields DEF Keeps, KeepsCard, NoStreak, NoDate
    <2>3. s.totalReadings = Greater(0, s.totalReadings)
      BY SnapshotFields DEF Greater
    <2> QED
      BY <2>1, <2>2, <2>3 DEF NoStreak
  <1> QED
    BY <1>2, <1>3

\* What a commit keeps of what the row showed before it.
LEMMA CountedIsFine ==
  ASSUME StreakInv, NEW p \in Proc, At(p, "count")
  PROVE  /\ req[p].event \in Event /\ activityDate[req[p].event] \in Date
         /\ req[p].state \in Snapshot /\ PassesChecks(req[p].state)
         /\ Keeps(row, req[p].state) /\ KeepsCard(row, req[p].state)
         /\ req[p].state.totalReadings
              = Greater(row.totalReadings, req[p].snapshot.totalReadings)
  <1>1. req[p].event \in Event /\ req[p].state = Upserted(req[p].snapshot)
    BY DEF StreakInv, Sound, At
  <1>2. req[p].snapshot \in Snapshot /\ PassesChecks(req[p].snapshot)
    BY DEF StreakInv, TypeOK, Request, ChecksHold
  <1>3. activityDate[req[p].event] \in Date
    BY <1>1 DEF StreakInv, TypeOK
  <1> QED
    BY <1>1, <1>2, <1>3, UpsertedIsFine

\* Rows that keep a row that keeps a row.
LEMMA KeepsIsTransitive ==
  ASSUME NEW r \in Snapshot, NEW s \in Snapshot, NEW t \in Snapshot,
         Keeps(r, s), Keeps(s, t), KeepsCard(r, s), KeepsCard(s, t)
  PROVE  Keeps(r, t) /\ KeepsCard(r, t)
  BY SnapshotFields DEF Keeps, KeepsCard

\* The row a step leaves keeps the row it found.
LEMMA CommittedRow ==
  ASSUME StreakInv, [Next]_vars
  PROVE  row' \in Snapshot /\ PassesChecks(row')
         /\ Keeps(row, row') /\ KeepsCard(row, row')
  <1>1. row \in Snapshot /\ PassesChecks(row)
    BY DEF StreakInv, TypeOK, ChecksHold
  <1>2. CASE row' = row
    BY <1>1, <1>2, SnapshotFields DEF Keeps, KeepsCard
  <1>3. CASE Upload
    <2>1. PICK s \in copies : row' = Upserted(NormalizeSnapshot(s))
      BY <1>3 DEF Upload, Commit
    <2>2. s \in Snapshot
      BY <2>1 DEF StreakInv, TypeOK
    <2> QED
      BY <2>1, <2>2, NormalizeIsFine, UpsertedIsFine
  <1>4. ASSUME NEW p \in Proc, CountEvent(p)
        PROVE  row' \in Snapshot /\ PassesChecks(row')
               /\ Keeps(row, row') /\ KeepsCard(row, row')
    <2>1. At(p, "count") /\ row' = ApplyActivity(req[p].state, activityDate[req[p].event])
      BY <1>4 DEF CountEvent, Commit
    <2> QED
      BY <1>1, <2>1, CountedIsFine, ApplyIsFine, KeepsIsTransitive
  <1>5. ASSUME NEW p \in Proc, DuplicateEvent(p)
        PROVE  row' \in Snapshot /\ PassesChecks(row')
               /\ Keeps(row, row') /\ KeepsCard(row, row')
    BY <1>5, CountedIsFine DEF DuplicateEvent, Commit
  <1> QED
    BY <1>2, <1>3, <1>4, <1>5
    DEF Next, Step, NextDay, BeginEvent, MergeSnapshot, Fail, vars
\* The initial states satisfy the invariant.
LEMMA InitStreakInv == Init => StreakInv
  <1> SUFFICES ASSUME Init
               PROVE  StreakInv
    OBVIOUS
  <1>1. Idle \in Request /\ Idle.pc = "idle" /\ Idle.snapshot = NoStreak /\ Idle.state = NoStreak
    BY NoStreakIsFine DEF Idle, Request
  <1>2. TypeOK
    <2>1. today \in FirstDay .. LastDay
      BY StreakConstants DEF Init
    <2>2. copies \subseteq Snapshot
      BY NoStreakIsFine, StreakConstants DEF Init
    <2>3. req \in [Proc -> Request]
      BY <1>1 DEF Init
    <2> QED
      BY <2>1, <2>2, <2>3, NoStreakIsFine DEF Init, TypeOK
  <1>3. ChecksHold
    BY <1>1, NoStreakIsFine DEF Init, ChecksHold
  <1>4. NoStreak.totalReadings = 0
    BY DEF NoStreak
  <1>5. \A s \in copies : Known(s.totalReadings)
    BY <1>4 DEF Init, Known
  <1> QED
    BY <1>1, <1>2, <1>3, <1>4, <1>5 DEF Init, StreakInv, Sound, Alone, Known, At

\* What is known stays known when the total does not go down.
LEMMA KnownStays ==
  ASSUME NEW n \in Nat, Known(n), row \in Snapshot, row' \in Snapshot,
         row'.totalReadings >= row.totalReadings
  PROVE  Known(n)'
  BY SnapshotFields DEF Known

\* Every step of a request or of the calendar keeps the invariant.
LEMMA NextStreakInv ==
  ASSUME StreakInv, [Next]_vars
  PROVE  StreakInv'
  <1> USE StreakConstants
  <1>1. row \in Snapshot /\ row' \in Snapshot /\ PassesChecks(row')
        /\ row'.totalReadings >= row.totalReadings
    BY CommittedRow DEF StreakInv, TypeOK, Keeps
  <1>2. Idle \in Request /\ Idle.pc = "idle" /\ Idle.snapshot = NoStreak /\ Idle.state = NoStreak
    BY NoStreakIsFine DEF Idle, Request
  <1>3. \A s \in copies : Known(s.totalReadings)'
    BY <1>1, KnownStays, SnapshotFields DEF StreakInv, TypeOK
  <1>4. \A p \in Proc : req[p] \in Request /\ req[p].snapshot \in Snapshot
                        /\ req[p].state \in Snapshot
                        /\ PassesChecks(req[p].snapshot) /\ PassesChecks(req[p].state)
    BY DEF StreakInv, TypeOK, Request, ChecksHold
  <1>5. \A n \in Nat : Known(n) => Known(n)'
    BY <1>1, KnownStays
  <1>6. Known(NoStreak.totalReadings)'
    BY <1>1, SnapshotFields DEF Known, NoStreak
  <1>7. \A n \in Nat : n <= row'.totalReadings => Known(n)'
    BY DEF Known
  <1>8. CASE UNCHANGED vars
    BY <1>8 DEF vars, StreakInv, TypeOK, ChecksHold, Sound, Alone, Known, At, Upserted
  <1>9. CASE NextDay
    <2>1. TypeOK'
      BY <1>9 DEF NextDay, StreakInv, TypeOK
    <2> QED
      BY <1>9, <2>1 DEF NextDay, StreakInv, ChecksHold, Sound, Alone, Known, At, Upserted
  <1>10. CASE Upload
    <2>1. copies' = copies \cup {row'} /\ exists' = TRUE
          /\ today' = today /\ events' = events /\ activityDate' = activityDate
          /\ req' = req /\ advances' = advances
      BY <1>10 DEF Upload, Commit
    <2>6. \A p \in Proc : ~At(p, "count")
      BY <1>10 DEF Upload, RowIsFree
    <2>2. TypeOK'
      BY <1>1, <2>1 DEF StreakInv, TypeOK
    <2>3. ChecksHold'
      BY <1>1, <2>1 DEF StreakInv, ChecksHold
    <2>4. \A s \in copies' : Known(s.totalReadings)'
      BY <1>1, <1>3, <1>7, <2>1, SnapshotFields
    <2>5. \A p \in Proc : Known(req[p].snapshot.totalReadings)'
      BY <1>4, <1>5, <2>1, SnapshotFields DEF StreakInv
    <2> QED
      BY <2>1, <2>2, <2>3, <2>4, <2>5, <2>6 DEF StreakInv, Sound, Alone, At
  <1>11. ASSUME NEW p \in Proc, BeginEvent(p)
         PROVE  StreakInv'
    <2>1. PICK e \in Event, s \in copies :
            req' = [req EXCEPT ![p].pc = "event", ![p].event = e,
                               ![p].snapshot = NormalizeSnapshot(s)]
      BY <1>11 DEF BeginEvent
    <2>2. s \in Snapshot
      BY <2>1 DEF StreakInv, TypeOK
    <2> DEFINE r == [req[p] EXCEPT !.pc = "event", !.event = e,
                                   !.snapshot = NormalizeSnapshot(s)]
    <2>3. req' = [req EXCEPT ![p] = r]
      BY <2>1
    <2>4. r \in Request /\ r.pc = "event" /\ r.event = e
          /\ r.snapshot = NormalizeSnapshot(s) /\ r.state = req[p].state
      BY <1>4, <2>2, NormalizeIsFine DEF Request
    <2> HIDE DEF r
    <2>5. \A q \in Proc : req'[q] = IF q = p THEN r ELSE req[q]
      BY <2>3 DEF StreakInv, TypeOK
    <2>6. TypeOK'
      BY <1>11, <2>3, <2>4 DEF BeginEvent, StreakInv, TypeOK
    <2>7. ChecksHold'
      BY <1>1, <1>4, <2>2, <2>4, <2>5, NormalizeIsFine DEF ChecksHold
    <2>8. Known(NormalizeSnapshot(s).totalReadings)
      BY <2>1, <2>2, NormalizeIsFine DEF StreakInv
    <2> QED
      BY <1>11, <2>4, <2>5, <2>6, <2>7, <2>8, ZenonT(60)
      DEF BeginEvent, StreakInv, Sound, Alone, Known, At, Upserted
  <1>12. ASSUME NEW p \in Proc, MergeSnapshot(p)
         PROVE  StreakInv'
    <2> DEFINE r == [req[p] EXCEPT !.pc = "count", !.state = Upserted(req[p].snapshot)]
    <2>1. req' = [req EXCEPT ![p] = r] /\ At(p, "event")
          /\ (\A q \in Proc : ~At(q, "count"))
          /\ UNCHANGED <<today, exists, row, events, activityDate, copies, advances>>
      BY <1>12 DEF MergeSnapshot, RowIsFree
    <2>2. Upserted(req[p].snapshot) \in Snapshot
          /\ PassesChecks(Upserted(req[p].snapshot))
      BY <1>4, UpsertedIsFine
    <2>3. r \in Request /\ r.pc = "count" /\ r.event = req[p].event
          /\ r.snapshot = req[p].snapshot /\ r.state = Upserted(req[p].snapshot)
      BY <1>4, <2>2 DEF Request
    <2> HIDE DEF r
    <2>4. \A q \in Proc : req'[q] = IF q = p THEN r ELSE req[q]
      BY <2>1 DEF StreakInv, TypeOK
    <2>5. TypeOK'
      BY <2>1, <2>3 DEF StreakInv, TypeOK
    <2>6. ChecksHold'
      BY <1>1, <1>4, <2>2, <2>3, <2>4 DEF ChecksHold
    <2>7. req[p].event \in Event
      BY <2>1 DEF StreakInv, Sound, At
    <2> QED
      BY <2>1, <2>3, <2>4, <2>5, <2>6, <2>7
      DEF StreakInv, Sound, Alone, Known, At, Upserted
  <1>13. ASSUME NEW p \in Proc, CountEvent(p) \/ DuplicateEvent(p)
         PROVE  StreakInv'
    <2>1. copies' = copies \cup {row'} /\ exists' = TRUE /\ At(p, "count")
          /\ req' = [req EXCEPT ![p] = Idle]
          /\ UNCHANGED <<today, activityDate>>
      BY <1>13 DEF CountEvent, DuplicateEvent, Commit
    <2>2. \A q \in Proc : req'[q] = IF q = p THEN Idle ELSE req[q]
      BY <2>1 DEF StreakInv, TypeOK
    <2>3. events' \subseteq Event /\ advances' \subseteq Date
      BY <1>13, CountedIsFine DEF CountEvent, DuplicateEvent, StreakInv, TypeOK
    <2>4. TypeOK'
      BY <1>1, <1>2, <2>1, <2>3 DEF StreakInv, TypeOK
    <2>5. ChecksHold'
      BY <1>1, <1>2, <1>4, <2>2, NoStreakIsFine DEF ChecksHold
    <2>6. \A s \in copies' : Known(s.totalReadings)'
      BY <1>1, <1>3, <1>7, <2>1, SnapshotFields
    <2>7. \A q \in Proc : Known(req[q].snapshot.totalReadings)'
      BY <1>2, <1>4, <1>5, <1>6, <2>2, SnapshotFields DEF StreakInv
    <2>8. \A q \in Proc : ~(At(q, "count"))'
      BY <1>2, <2>1, <2>2 DEF StreakInv, Alone, At
    <2>9. \A q \in Proc : Sound(q)'
      BY <1>2, <2>2, <2>8 DEF StreakInv, Sound, At
    <2> QED
      BY <2>1, <2>4, <2>5, <2>6, <2>7, <2>8, <2>9 DEF StreakInv, Alone
  <1>14. ASSUME NEW p \in Proc, Fail(p)
         PROVE  StreakInv'
    <2>1. \A q \in Proc : req'[q] = IF q = p THEN Idle ELSE req[q]
      BY <1>14 DEF Fail, StreakInv, TypeOK
    <2>2. TypeOK'
      BY <1>2, <1>14 DEF Fail, StreakInv, TypeOK
    <2>3. ChecksHold'
      BY <1>1, <1>2, <1>4, <2>1, NoStreakIsFine DEF ChecksHold
    <2>4. Known(NoStreak.totalReadings)
      BY SnapshotFields, <1>1 DEF Known, NoStreak
    <2> QED
      BY <1>2, <1>14, <2>1, <2>2, <2>3, <2>4
      DEF Fail, StreakInv, Sound, Alone, Known, At, Upserted
  <1> QED
    BY <1>8, <1>9, <1>10, <1>11, <1>12, <1>13, <1>14 DEF Next, Step

LEMMA StreakInvAlways == Spec => []StreakInv
  BY InitStreakInv, NextStreakInv, PTL DEF Spec

-----------------------------------------------------------------------------
(* The theorems.                                                           *)

\* Every reachable state is well typed (streak.service.ts:20-36).
THEOREM StreakTypeCorrect == Spec => []TypeOK
  BY StreakInvAlways, PTL DEF StreakInv

\* No statement is refused by the constraints of user_streaks, whatever
\* snapshots devices send (streak.service.ts:206-232,
\* 1792886400000-UserStreaks.ts:20-29).
THEOREM ConstraintsAlwaysHold == Spec => []ChecksHold
  BY StreakInvAlways, PTL DEF StreakInv

\* Nothing a device has seen is taken back (streak.service.ts:37-84, 122-189).
THEOREM NothingIsEverTakenBack == Spec => NothingIsTakenBack
  <1>1. ASSUME StreakInv, [Next]_vars
        PROVE  [RowGrows]_vars
    BY <1>1, CommittedRow DEF Keeps, RowGrows
  <1> QED
    BY <1>1, StreakInvAlways, PTL DEF Spec, NothingIsTakenBack

\* The card of a day is drawn once (streak.service.ts:71-77).
THEOREM CardIsAlwaysDrawnOnce == Spec => CardIsDrawnOnce
  <1>1. ASSUME StreakInv, [Next]_vars
        PROVE  [CardStays]_vars
    BY <1>1, CommittedRow DEF KeepsCard, CardStays
  <1> QED
    BY <1>1, StreakInvAlways, PTL DEF Spec, CardIsDrawnOnce

\* Uploads commute, but for two cards of one day (streak.service.ts:37-84).
LEMMA MergesCommute ==
  ASSUME NEW r \in Snapshot, NEW s \in Snapshot, NEW t \in Snapshot,
         PassesChecks(r), PassesChecks(s), PassesChecks(t)
  PROVE  LET st == Merge(Merge(r, s), t)
             ts == Merge(Merge(r, t), s)
         IN /\ st.currentStreak = ts.currentStreak
            /\ st.longestStreak = ts.longestStreak
            /\ st.totalReadings = ts.totalReadings
            /\ st.lastActiveDate = ts.lastActiveDate
            /\ st.streakFreezeUsed = ts.streakFreezeUsed
            /\ st.dailyCardDate = ts.dailyCardDate
            /\ ~(s.dailyCardDate = t.dailyCardDate /\ s.dailyCardId # t.dailyCardId)
                 => st.dailyCardId = ts.dailyCardId
  <1> DEFINE st == Merge(Merge(r, s), t)
             ts == Merge(Merge(r, t), s)
  <1>1. /\ st.longestStreak = ts.longestStreak
        /\ st.totalReadings = ts.totalReadings
        /\ st.lastActiveDate = ts.lastActiveDate
        /\ st.dailyCardDate = ts.dailyCardDate
    <2>1. \A a, b, c \in Nat : Greater(Greater(a, b), c) = Greater(Greater(a, c), b)
      BY DEF Greater
    <2>2. \A x, y : /\ Merge(x, y).longestStreak = Greater(x.longestStreak, y.longestStreak)
                    /\ Merge(x, y).totalReadings = Greater(x.totalReadings, y.totalReadings)
                    /\ Merge(x, y).lastActiveDate = Greater(x.lastActiveDate, y.lastActiveDate)
                    /\ Merge(x, y).dailyCardDate = Greater(x.dailyCardDate, y.dailyCardDate)
      BY DEF Merge
    <2> QED
      BY <2>1, <2>2, SnapshotFields
  <1>2. st.currentStreak = ts.currentStreak
    BY SnapshotFields, SMTT(60) DEF Merge, Greater, PassesChecks, NoDate
  <1>3. st.streakFreezeUsed = ts.streakFreezeUsed
    BY SnapshotFields, SMTT(60) DEF Merge, Greater, PassesChecks, NoDate
  <1>4. ~(s.dailyCardDate = t.dailyCardDate /\ s.dailyCardId # t.dailyCardId)
           => st.dailyCardId = ts.dailyCardId
    BY SnapshotFields, SMTT(60) DEF Merge, Greater, PassesChecks, NoDate
  <1> QED
    BY <1>1, <1>2, <1>3, <1>4

\* Two snapshots with the same fields are the same.
LEMMA SnapshotsByFields ==
  ASSUME NEW s \in Snapshot, NEW t \in Snapshot,
         s.currentStreak = t.currentStreak, s.longestStreak = t.longestStreak,
         s.totalReadings = t.totalReadings, s.lastActiveDate = t.lastActiveDate,
         s.streakFreezeUsed = t.streakFreezeUsed, s.dailyCardDate = t.dailyCardDate
  PROVE  /\ [s EXCEPT !.dailyCardId = t.dailyCardId] = t
         /\ s.dailyCardId = t.dailyCardId => s = t
  BY DEF Snapshot

\* Whatever two devices hold, the order of their uploads does not matter
\* (streak.service.ts:37-84).
THEOREM UploadsAlwaysCommute == Spec => []UploadsCommute
  <1>1. ASSUME StreakInv
        PROVE  UploadsCommute
    <2>1. SUFFICES ASSUME NEW s \in {NormalizeSnapshot(c) : c \in copies},
                          NEW t \in {NormalizeSnapshot(c) : c \in copies}
                   PROVE  LET st == Merge(Merge(row, s), t)
                              ts == Merge(Merge(row, t), s)
                              twoCards == s.dailyCardDate = t.dailyCardDate
                                          /\ s.dailyCardId # t.dailyCardId
                          IN IF twoCards
                             THEN [st EXCEPT !.dailyCardId = ts.dailyCardId] = ts
                             ELSE st = ts
      BY DEF UploadsCommute
    <2>2. /\ row \in Snapshot /\ PassesChecks(row)
          /\ s \in Snapshot /\ PassesChecks(s) /\ t \in Snapshot /\ PassesChecks(t)
      BY <1>1, NormalizeIsFine DEF StreakInv, TypeOK, ChecksHold
    <2> DEFINE st == Merge(Merge(row, s), t)
               ts == Merge(Merge(row, t), s)
    <2>3. st \in Snapshot /\ ts \in Snapshot
      BY <2>2, MergeIsFine
    <2>4. /\ st.currentStreak = ts.currentStreak
          /\ st.longestStreak = ts.longestStreak
          /\ st.totalReadings = ts.totalReadings
          /\ st.lastActiveDate = ts.lastActiveDate
          /\ st.streakFreezeUsed = ts.streakFreezeUsed
          /\ st.dailyCardDate = ts.dailyCardDate
          /\ ~(s.dailyCardDate = t.dailyCardDate /\ s.dailyCardId # t.dailyCardId)
               => st.dailyCardId = ts.dailyCardId
      BY <2>2, MergesCommute
    <2> HIDE DEF st, ts
    <2>5. /\ [st EXCEPT !.dailyCardId = ts.dailyCardId] = ts
          /\ st.dailyCardId = ts.dailyCardId => st = ts
      BY <2>3, <2>4, SnapshotsByFields
    <2>6. IF s.dailyCardDate = t.dailyCardDate /\ s.dailyCardId # t.dailyCardId
          THEN [st EXCEPT !.dailyCardId = ts.dailyCardId] = ts
          ELSE st = ts
      BY <2>4, <2>5
    <2> QED
      BY <2>6 DEF st, ts
  <1> QED
    BY <1>1, StreakInvAlways, PTL

\* The total and the events of a streak implement EventCounter: each event
\* counts once, and uploads add no more than what devices brought along
\* (streak.service.ts:122-189).
THEOREM StreakCountsEventsOnce == Spec => CountsEventsOnce
  <1>1. Init => Counting!Init
    BY DEF Init, Counting!Init, NoStreak
  <1>2. ASSUME StreakInv, [Next]_vars
        PROVE  [Counting!Next]_(Counting!vars)
    <2> DEFINE imported == {s.totalReadings : s \in Offline}
               total == row.totalReadings
    <2>1. \A s \in Snapshot : s.totalReadings \in Nat
      BY SnapshotFields
    <2>2. row \in Snapshot /\ total \in Nat
      BY <1>2, <2>1 DEF StreakInv, TypeOK
    <2>3. CASE row' = row /\ events' = events
      BY <2>3 DEF Counting!vars
    <2>4. ASSUME NEW n \in Nat, Known(n), row'.totalReadings = Greater(total, n),
                 events' = events
          PROVE  [Counting!Next]_(Counting!vars)
      <3>1. CASE n \in imported
        BY <2>2, <2>4, <3>1
        DEF Counting!Next, Counting!Import, Counting!Raised, Greater
      <3>2. CASE n <= total
        <4>1. row'.totalReadings = total
          BY <2>2, <2>4, <3>2 DEF Greater
        <4> QED
          BY <2>4, <4>1 DEF Counting!vars
      <3> QED
        BY <2>4, <3>1, <3>2 DEF Known
    <2>5. CASE Upload
      <3>1. PICK s \in copies : row' = Upserted(NormalizeSnapshot(s)) /\ events' = events
        BY <2>5 DEF Upload, Commit
      <3>2. s \in Snapshot /\ Known(s.totalReadings)
        BY <1>2, <3>1 DEF StreakInv, TypeOK
      <3>3. row'.totalReadings = Greater(total, s.totalReadings)
        BY <1>2, <3>1, <3>2, NormalizeIsFine, UpsertedIsFine
      <3> QED
        BY <2>1, <2>4, <3>1, <3>2, <3>3
    <2>6. ASSUME NEW p \in Proc, DuplicateEvent(p)
          PROVE  [Counting!Next]_(Counting!vars)
      <3>1. /\ row'.totalReadings = Greater(total, req[p].snapshot.totalReadings)
            /\ events' = events
        BY <1>2, <2>6, CountedIsFine DEF DuplicateEvent, Commit
      <3>2. req[p].snapshot \in Snapshot /\ Known(req[p].snapshot.totalReadings)
        BY <1>2 DEF StreakInv, TypeOK, Request
      <3> QED
        BY <2>1, <2>4, <3>1, <3>2
    <2>7. ASSUME NEW p \in Proc, CountEvent(p)
          PROVE  [Counting!Next]_(Counting!vars)
      <3> DEFINE e == req[p].event
                 n == req[p].snapshot.totalReadings
      <3>1. At(p, "count") /\ e \notin events /\ events' = events \cup {e}
            /\ row' = ApplyActivity(req[p].state, activityDate[e])
        BY <2>7 DEF CountEvent, Commit
      <3>2. /\ e \in Event /\ activityDate[e] \in Date
            /\ req[p].state \in Snapshot /\ PassesChecks(req[p].state)
            /\ req[p].state.totalReadings = Greater(total, n)
        BY <1>2, <3>1, CountedIsFine
      <3>3. row'.totalReadings = Counter(Greater(total, n) + 1, MaxTotal)
        BY <3>1, <3>2, ApplyIsFine
      <3>4. n \in Nat /\ Known(n)
        BY <1>2, <2>1 DEF StreakInv, TypeOK, Request
      <3>5. PICK t \in imported \cup {0} : Greater(total, n) = Greater(total, t)
        <4>1. CASE n \in imported
          BY <4>1
        <4>2. CASE n <= total
          <5>1. Greater(total, n) = Greater(total, 0)
            BY <2>2, <3>4, <4>2 DEF Greater
          <5> QED
            BY <5>1
        <4> QED
          BY <3>4, <4>1, <4>2 DEF Known
      <3>6. t \in Nat
        BY <2>1, StreakConstants
      <3>7. row'.totalReadings = Counting!Capped(Counting!Raised(t) + 1)
        BY <2>2, <3>3, <3>5, <3>6
        DEF Counting!Capped, Counting!Raised, Greater, Counter
      <3> QED
        BY <3>1, <3>2, <3>7 DEF Counting!Next, Counting!Count
    <2> QED
      BY <1>2, <2>3, <2>5, <2>6, <2>7
      DEF Next, Step, NextDay, BeginEvent, MergeSnapshot, Fail, vars
  <1> QED
    BY <1>1, <1>2, StreakInvAlways, PTL DEF Spec, CountsEventsOnce, Counting!Spec

\* What a device has shown its user stays (streak.service.ts:37-84).
THEOREM ShownAlwaysStays == Spec => ShownStays
  BY NothingIsEverTakenBack, CardIsAlwaysDrawnOnce, PTL
     DEF ShownStays, NothingIsTakenBack, CardIsDrawnOnce

-----------------------------------------------------------------------------
(***************************************************************************)
(* Streaks are earned.  Every snapshot, wherever it is kept, shows a       *)
(* streak of days that it can account for: days of events up to its last   *)
(* active day, from the first of them or from the end of a streak that a   *)
(* device brought along.                                                   *)
(***************************************************************************)

\* The days of events after day a, up to day b.
Days(a, b) == {x \in advances : a < x /\ x <= b}

\* D is the run of days that ends with c's last active day; a gap just before
\* that day has used up the freeze.
IsRun(D, c) ==
  /\ Unbroken(D) /\ c.lastActiveDate \in D
  /\ c.lastActiveDate - 1 \notin D /\ c.lastActiveDate - 2 \in D => c.streakFreezeUsed

OwnRun(c, d) ==
  LET D == Days(d - 1, c.lastActiveDate) IN
  /\ c.lastActiveDate <= row.lastActiveDate
  /\ IsRun(D, c)
  /\ c.currentStreak = Counter(Cardinality(D), MaxStreak)

BroughtRun(c, s) ==
  LET D == Days(s.lastActiveDate, c.lastActiveDate) IN
  /\ s.lastActiveDate <= c.lastActiveDate
  /\ c.lastActiveDate = s.lastActiveDate \/ c.lastActiveDate <= row.lastActiveDate
  /\ IsRun(D \cup {s.lastActiveDate}, c)
  /\ c.currentStreak = Counter(s.currentStreak + Cardinality(D), MaxStreak)

Accounted(c) ==
  c.currentStreak > 0 =>
    (\E d \in advances : OwnRun(c, d)) \/ (\E s \in Offline : BroughtRun(c, s))

EarnedInv ==
  /\ StreakInv
  /\ \A a \in advances : a <= row.lastActiveDate
  /\ Accounted(row)
  /\ \A c \in copies : Accounted(c)
  /\ \A p \in Proc : Accounted(req[p].snapshot) /\ Accounted(req[p].state)

\* A run goes on with the next day, or after a gap of one day when there was
\* none just before.
LEMMA RunGoesOn ==
  ASSUME NEW D \in SUBSET Int, NEW last \in D, NEW d \in Int,
         \A x \in D : x <= last, Unbroken(D),
         d = last + 1 \/ (d = last + 2 /\ (last - 1 \in D \/ last - 2 \notin D))
  PROVE  Unbroken(D \cup {d})
  <1>1. SUFFICES ASSUME NEW x \in D \cup {d}
                 PROVE  \/ \A c \in D \cup {d} : x <= c
                        \/ x - 1 \in D \cup {d}
                        \/ /\ x - 2 \in D \cup {d}
                           /\ x - 3 \in D \cup {d} \/ x - 4 \notin D \cup {d}
    BY DEF Unbroken
  <1>2. CASE x = d
    BY <1>2
  <1>3. CASE x \in D
    <2>1. x <= last /\ x < d
      BY <1>3
    <2>2. \/ \A c \in D : x <= c
          \/ x - 1 \in D
          \/ x - 2 \in D /\ (x - 3 \in D \/ x - 4 \notin D)
      BY <1>3 DEF Unbroken
    <2>3. x - 4 # d
      BY <2>1
    <2> QED
      BY <2>1, <2>2, <2>3
  <1> QED
    BY <1>2, <1>3

\* Counting one day more.
LEMMA CountingOn ==
  ASSUME NEW n \in Nat
  PROVE  Counter(Counter(n, MaxStreak) + 1, MaxStreak) = Counter(n + 1, MaxStreak)
  BY StreakConstants DEF Counter

\* There are finitely many days.
LEMMA DaysAreFinite ==
  ASSUME advances \subseteq Date, NEW a, NEW b
  PROVE  IsFiniteSet(Days(a, b)) /\ Cardinality(Days(a, b)) \in Nat
  <1>1. IsFiniteSet(Date)
    BY FS_Interval, StreakConstants DEF Date
  <1>2. Days(a, b) \subseteq Date
    BY DEF Days
  <1> QED
    BY <1>1, <1>2, FS_Subset, FS_CardinalityType

\* Snapshots with one streak are accounted for alike, and so is one that says
\* more readily that the freeze is used.
LEMMA SameStreak ==
  ASSUME NEW c, NEW e, Accounted(c),
         \/ e.currentStreak = 0
         \/ /\ e.currentStreak = c.currentStreak
            /\ e.lastActiveDate = c.lastActiveDate
            /\ c.streakFreezeUsed => e.streakFreezeUsed
  PROVE  Accounted(e)
  <1>1. CASE e.currentStreak = 0
    BY <1>1 DEF Accounted
  <1>2. CASE /\ e.currentStreak = c.currentStreak
             /\ e.lastActiveDate = c.lastActiveDate
             /\ c.streakFreezeUsed => e.streakFreezeUsed
    <2>1. \A D : IsRun(D, c) => IsRun(D, e)
      BY <1>2 DEF IsRun
    <2>2. \A d : OwnRun(c, d) => OwnRun(e, d)
      BY <1>2, <2>1 DEF OwnRun
    <2>3. \A s : BroughtRun(c, s) => BroughtRun(e, s)
      BY <1>2, <2>1 DEF BroughtRun
    <2> QED
      BY <1>2, <2>2, <2>3 DEF Accounted
  <1> QED
    BY <1>1, <1>2

\* Normalising and merging.
LEMMA NormalizedIsAccounted ==
  ASSUME NEW s \in Snapshot, Accounted(s)
  PROVE  Accounted(NormalizeSnapshot(s))
  <1> DEFINE e == NormalizeSnapshot(s)
  <1>1. CASE PlausibleOrNone(s.lastActiveDate) = NoDate
    <2>1. e.currentStreak = 0
      BY <1>1 DEF NormalizeSnapshot
    <2> QED
      BY <2>1, SameStreak
  <1>2. CASE PlausibleOrNone(s.lastActiveDate) # NoDate
    <2>1. PlausibleOrNone(s.lastActiveDate) = s.lastActiveDate
      BY <1>2 DEF PlausibleOrNone
    <2>2. s.currentStreak \in 0 .. MaxStreak /\ MaxStreak \in Nat
      BY StreakConstants DEF Snapshot
    <2>3. Counter(s.currentStreak, MaxStreak) = s.currentStreak
      BY <2>2 DEF Counter
    <2>4. e.currentStreak = s.currentStreak /\ e.lastActiveDate = s.lastActiveDate
      BY <1>2, <2>1, <2>3 DEF NormalizeSnapshot
    <2>5. s.streakFreezeUsed => e.streakFreezeUsed
      BY <1>2 DEF NormalizeSnapshot
    <2> QED
      BY <2>4, <2>5, SameStreak
  <1> QED
    BY <1>1, <1>2

LEMMA MergedIsAccounted ==
  ASSUME NEW r \in Snapshot, NEW s \in Snapshot, Accounted(r), Accounted(s),
         PassesChecks(r)
  PROVE  Accounted(Merge(r, s))
  <1> DEFINE e == Merge(r, s)
  <1>1. /\ r.lastActiveDate \in Nat /\ s.lastActiveDate \in Nat
        /\ r.currentStreak \in Nat /\ s.currentStreak \in Nat
        /\ r.streakFreezeUsed \in BOOLEAN /\ s.streakFreezeUsed \in BOOLEAN
        /\ r.lastActiveDate = 0 => r.currentStreak = 0
    BY SnapshotFields DEF PassesChecks, NoDate
  <1>2. e.lastActiveDate = Greater(r.lastActiveDate, s.lastActiveDate)
    BY DEF Merge
  <1>3. CASE s.lastActiveDate > r.lastActiveDate
    <2>1. e.currentStreak = s.currentStreak /\ e.streakFreezeUsed = s.streakFreezeUsed
      BY <1>3 DEF Merge
    <2> QED
      BY <1>1, <1>2, <1>3, <2>1, SameStreak DEF Greater
  <1>4. CASE s.lastActiveDate < r.lastActiveDate
    <2>1. e.currentStreak = r.currentStreak /\ e.streakFreezeUsed = r.streakFreezeUsed
      BY <1>1, <1>4 DEF Merge, NoDate
    <2> QED
      BY <1>1, <1>2, <1>4, <2>1, SameStreak DEF Greater
  <1>5. CASE s.lastActiveDate = r.lastActiveDate /\ r.lastActiveDate # 0
    <2>1. /\ e.currentStreak = Greater(r.currentStreak, s.currentStreak)
          /\ e.streakFreezeUsed = (r.streakFreezeUsed \/ s.streakFreezeUsed)
      BY <1>1, <1>5 DEF Merge, NoDate
    <2>2. e.lastActiveDate = r.lastActiveDate /\ e.lastActiveDate = s.lastActiveDate
      BY <1>1, <1>2, <1>5 DEF Greater
    <2>3. e.currentStreak = r.currentStreak \/ e.currentStreak = s.currentStreak
      BY <2>1 DEF Greater
    <2> QED
      BY <1>1, <2>1, <2>2, <2>3, SameStreak
  <1>6. CASE s.lastActiveDate = r.lastActiveDate /\ r.lastActiveDate = 0
    <2>1. e.currentStreak = s.currentStreak /\ e.streakFreezeUsed = s.streakFreezeUsed
      BY <1>6 DEF Merge, NoDate
    <2> QED
      BY <1>1, <1>2, <1>6, <2>1, SameStreak DEF Greater
  <1> QED
    BY <1>1, <1>3, <1>4, <1>5, <1>6

\* What is accounted for stays so when the row moves on, and when the day of an
\* event is added behind all the others.
LEMMA AccountedStays ==
  ASSUME NEW c \in Snapshot, Accounted(c), row \in Snapshot, row' \in Snapshot,
         advances \subseteq Date,
         row'.lastActiveDate >= row.lastActiveDate,
         \/ advances' = advances
         \/ \E d \in Date : d > row.lastActiveDate /\ advances' = advances \cup {d}
  PROVE  Accounted(c)'
  <1>1. /\ c.lastActiveDate \in Nat /\ row.lastActiveDate \in Nat
        /\ row'.lastActiveDate \in Nat
    BY SnapshotFields
  <1>2. ASSUME NEW a \in Int, c.lastActiveDate <= row.lastActiveDate \/ a = c.lastActiveDate
        PROVE  Days(a, c.lastActiveDate)' = Days(a, c.lastActiveDate)
    BY <1>1, <1>2 DEF Days, Date
  <1>3. ASSUME NEW d \in advances, d \in Int, OwnRun(c, d)
        PROVE  d \in advances' /\ OwnRun(c, d)'
    <2>1. Days(d - 1, c.lastActiveDate)' = Days(d - 1, c.lastActiveDate)
      BY <1>2, <1>3 DEF OwnRun
    <2> QED
      BY <1>1, <1>3, <2>1 DEF OwnRun, IsRun
  <1>4. ASSUME NEW s \in Offline, BroughtRun(c, s)
        PROVE  BroughtRun(c, s)'
    <2>1. s.lastActiveDate \in Int
      BY SnapshotFields, StreakConstants
    <2>2. Days(s.lastActiveDate, c.lastActiveDate)' = Days(s.lastActiveDate, c.lastActiveDate)
      BY <1>2, <1>4, <2>1 DEF BroughtRun
    <2> QED
      BY <1>1, <1>4, <2>1, <2>2 DEF BroughtRun, IsRun
  <1>5. \A d \in advances : d \in Int
    BY DEF Date
  <1> QED
    BY <1>3, <1>4, <1>5 DEF Accounted

\* A day behind all the others is one more day of each run.
LEMMA OneMoreDay ==
  ASSUME NEW A \in SUBSET Nat, NEW last \in Nat, NEW d \in Nat, last < d,
         \A x \in A : x <= last, NEW a \in Int, a < d
  PROVE  /\ {x \in A \cup {d} : a < x /\ x <= d} = {x \in A : a < x /\ x <= last} \cup {d}
         /\ {x \in A : a < x /\ x <= last} \in SUBSET Nat
         /\ d \notin {x \in A : a < x /\ x <= last}
  <1>1. \A x \in A : x \in Nat /\ x # d /\ x <= d
    OBVIOUS
  <1>2. d <= d
    OBVIOUS
  <1>3. \A x : x \in {y \in A \cup {d} : a < y /\ y <= d}
               <=> x \in {y \in A : a < y /\ y <= last} \cup {d}
    BY <1>1, <1>2
  <1> QED
    BY <1>1, <1>3

\* An event on a later day: the streak it leaves counts that day.
LEMMA AppliedIsAccounted ==
  ASSUME NEW c \in Snapshot, PassesChecks(c), Accounted(c), NEW d \in Date,
         d > c.lastActiveDate, c.lastActiveDate >= row.lastActiveDate,
         row \in Snapshot, advances \subseteq Date,
         \A a \in advances : a <= row.lastActiveDate,
         row' = ApplyActivity(c, d), advances' = advances \cup {d}
  PROVE  Accounted(row)'
  <1>1. /\ row'.currentStreak = Continued(c, d) /\ row'.lastActiveDate = d
        /\ row'.streakFreezeUsed = Frozen(c, d)
    <2>1. ~(d <= c.lastActiveDate)
      BY SnapshotFields DEF Date
    <2> QED
      BY <2>1 DEF ApplyActivity, Snapshot
  <1>2. /\ d \in Nat \ {0} /\ c.lastActiveDate \in Nat /\ c.currentStreak \in Nat
        /\ row.lastActiveDate \in Nat /\ c.streakFreezeUsed \in BOOLEAN
        /\ MaxStreak \in Nat \ {0}
        /\ c.currentStreak > 0 => c.lastActiveDate # NoDate
    BY SnapshotFields, StreakConstants DEF Date, PassesChecks
  <1>3. \A a \in advances : a \in Nat /\ a <= c.lastActiveDate /\ a < d
    BY <1>2 DEF Date
  <1> DEFINE last == c.lastActiveDate
  <1>4. ASSUME NEW a \in Int, a < d
        PROVE  /\ Days(a, d)' = Days(a, last) \cup {d}
               /\ Days(a, last) \subseteq Nat /\ d \notin Days(a, last)
               /\ \A x \in Days(a, last) : x <= last
               /\ Cardinality(Days(a, d)') = Cardinality(Days(a, last)) + 1
               /\ Cardinality(Days(a, last)) \in Nat
    <2>0. PICK A : A = advances /\ A \in SUBSET Nat
      BY <1>3
    <2>1. /\ {x \in A \cup {d} : a < x /\ x <= d}
               = {x \in A : a < x /\ x <= last} \cup {d}
          /\ {x \in A : a < x /\ x <= last} \in SUBSET Nat
          /\ d \notin {x \in A : a < x /\ x <= last}
      BY <1>2, <1>3, <1>4, <2>0, OneMoreDay
    <2>2. /\ Days(a, d)' = Days(a, last) \cup {d}
          /\ Days(a, last) \subseteq Nat /\ d \notin Days(a, last)
      BY <2>0, <2>1 DEF Days
    <2>5. \A x \in Days(a, last) : x <= last
      BY DEF Days
    <2>3. IsFiniteSet(Days(a, last)) /\ Cardinality(Days(a, last)) \in Nat
      BY DaysAreFinite
    <2>4. Cardinality(Days(a, last) \cup {d}) = Cardinality(Days(a, last)) + 1
      BY <2>2, <2>3, FS_AddElement
    <2> QED
      BY <2>2, <2>3, <2>4, <2>5
  <1>5. CASE c.currentStreak = 0 \/ ~(d = last + 1 \/ Frozen(c, d))
    <2>1. Continued(c, d) = 1
      BY <1>2, <1>5 DEF Continued, Counter, Frozen
    <2>2. Days(d - 1, d)' = {d}
      <3>1. Days(d - 1, last) = {}
        <4>1. ASSUME NEW x \in advances, d - 1 < x
              PROVE  FALSE
          <5>1. x \in Nat /\ d \in Nat /\ x < d
            BY <1>2, <1>3
          <5> QED
            BY <4>1, <5>1
        <4> QED
          BY <4>1 DEF Days
      <3> QED
        BY <1>2, <1>4, <3>1
    <2>3. Cardinality({d}) = 1 /\ Counter(1, MaxStreak) = 1
      BY <1>2, FS_Singleton DEF Counter
    <2>4. IsRun({d}, row')
      BY <1>1, <1>2 DEF IsRun, Unbroken
    <2>5. row'.lastActiveDate <= row'.lastActiveDate
      BY <1>1, <1>2
    <2>6. OwnRun(row, d)'
      BY <1>1, <2>1, <2>2, <2>3, <2>4, <2>5 DEF OwnRun, IsRun
    <2> QED
      BY <2>6 DEF Accounted
  <1>6. CASE c.currentStreak > 0 /\ (d = last + 1 \/ Frozen(c, d))
    <2>1. Continued(c, d) = Counter(c.currentStreak + 1, MaxStreak)
      BY <1>2, <1>6 DEF Continued, Frozen
    <2>2. ASSUME NEW D \in SUBSET Nat, IsRun(D, c), \A x \in D : x <= last
          PROVE  IsRun(D \cup {d}, row')
      <3>1. \/ d = last + 1
            \/ d = last + 2 /\ (last - 1 \in D \/ last - 2 \notin D) /\ Frozen(c, d)
        BY <1>2, <1>6, <2>2 DEF Frozen, IsRun
      <3>2. Unbroken(D \cup {d})
        BY <1>2, <2>2, <3>1, RunGoesOn DEF IsRun
      <3>3. d - 1 \notin D /\ d - 2 \in D => Frozen(c, d)
        BY <1>2, <2>2, <3>1 DEF IsRun
      <3>4. d - 1 # d /\ d - 2 # d
        BY <1>2
      <3> QED
        BY <1>1, <3>2, <3>3, <3>4 DEF IsRun, Unbroken
    <2>3. ASSUME NEW b \in advances, OwnRun(c, b)
          PROVE  OwnRun(row, b)'
      <3>1. b \in Nat /\ b < d /\ b - 1 < d
        BY <1>2, <1>3
      <3> DEFINE D == Days(b - 1, last)
      <3>2. /\ Days(b - 1, d)' = D \cup {d} /\ D \subseteq Nat
            /\ \A x \in D : x <= last
            /\ Cardinality(Days(b - 1, d)') = Cardinality(D) + 1 /\ Cardinality(D) \in Nat
        BY <1>4, <3>1
      <3> HIDE DEF D
      <3>3. IsRun(D, c) /\ c.currentStreak = Counter(Cardinality(D), MaxStreak)
        BY <2>3 DEF OwnRun, D
      <3>4. IsRun(D \cup {d}, row')
        BY <2>2, <3>2, <3>3
      <3>5. row'.currentStreak = Counter(Cardinality(Days(b - 1, d)'), MaxStreak)
        BY <1>1, <2>1, <3>2, <3>3, CountingOn
      <3>6. row'.lastActiveDate <= row'.lastActiveDate
        BY <1>1, <1>2
      <3> QED
        BY <1>1, <3>2, <3>4, <3>5, <3>6 DEF OwnRun, IsRun
    <2>4. ASSUME NEW s \in Offline, BroughtRun(c, s)
          PROVE  BroughtRun(row, s)'
      <3> DEFINE a == s.lastActiveDate
                 D == Days(a, last)
      <3>1. a \in Nat /\ a <= last /\ a < d /\ s.currentStreak \in Nat
        BY <1>2, <2>4, SnapshotFields, StreakConstants DEF BroughtRun
      <3>2. /\ Days(a, d)' = D \cup {d} /\ D \subseteq Nat /\ \A x \in D : x <= last
            /\ Cardinality(Days(a, d)') = Cardinality(D) + 1 /\ Cardinality(D) \in Nat
        BY <1>4, <3>1
      <3>3. IsRun(D \cup {a}, c) /\ c.currentStreak = Counter(s.currentStreak + Cardinality(D), MaxStreak)
        BY <2>4 DEF BroughtRun
      <3> HIDE DEF D, a
      <3>4. IsRun((D \cup {a}) \cup {d}, row')
        BY <2>2, <3>1, <3>2, <3>3
      <3>5. (D \cup {a}) \cup {d} = Days(a, d)' \cup {a}
        BY <3>2
      <3>6. row'.currentStreak = Counter(s.currentStreak + Cardinality(Days(a, d)'), MaxStreak)
        <4>1. s.currentStreak + Cardinality(D) \in Nat
          BY <3>1, <3>2
        <4>2. row'.currentStreak = Counter(s.currentStreak + Cardinality(D) + 1, MaxStreak)
          BY <1>1, <2>1, <3>3, <4>1, CountingOn
        <4> QED
          BY <3>1, <3>2, <4>2
      <3>7. a <= d /\ row'.lastActiveDate <= row'.lastActiveDate
        BY <1>1, <1>2, <3>1
      <3> QED
        BY <1>1, <3>4, <3>5, <3>6, <3>7 DEF BroughtRun, IsRun, a
    <2> QED
      BY <1>6, <2>3, <2>4 DEF Accounted
  <1> QED
    BY <1>2, <1>5, <1>6

\* What a request that holds the row carries is accounted for, whatever it made
\* of the row.
LEMMA UpsertedIsAccounted ==
  ASSUME EarnedInv, NEW s \in Snapshot, Accounted(s)
  PROVE  Accounted(Upserted(s))
  BY MergedIsAccounted DEF Upserted, EarnedInv, StreakInv, TypeOK, ChecksHold

LEMMA InitEarnedInv == Init => EarnedInv
  <1> SUFFICES ASSUME Init
               PROVE  EarnedInv
    OBVIOUS
  <1>1. NoStreak.currentStreak = 0 /\ Idle.snapshot = NoStreak /\ Idle.state = NoStreak
    BY DEF NoStreak, Idle
  <1>2. Accounted(NoStreak)
    BY <1>1 DEF Accounted
  <1>3. ASSUME NEW s \in Offline
        PROVE  Accounted(s)
    <2> DEFINE last == s.lastActiveDate
    <2>1. last \in Nat /\ s.currentStreak \in 0 .. MaxStreak /\ MaxStreak \in Nat
      BY SnapshotFields, StreakConstants DEF Snapshot
    <2>2. Days(last, last) = {}
      BY <2>1 DEF Days, Init
    <2>3. Cardinality({}) = 0
      BY FS_EmptySet
    <2>4. s.currentStreak = Counter(s.currentStreak + 0, MaxStreak)
      BY <2>1 DEF Counter
    <2>5. IsRun({} \cup {last}, s)
      BY <2>1 DEF IsRun, Unbroken
    <2>6. BroughtRun(s, s)
      BY <2>1, <2>2, <2>3, <2>4, <2>5 DEF BroughtRun
    <2> QED
      BY <2>6 DEF Accounted
  <1> QED
    BY <1>1, <1>2, <1>3, InitStreakInv DEF Init, EarnedInv

\* Every step leaves snapshots that are accounted for.
LEMMA NextEarnedInv == EarnedInv /\ [Next]_vars => EarnedInv'
  <1> SUFFICES ASSUME EarnedInv, [Next]_vars
               PROVE  EarnedInv'
    OBVIOUS
  <1>1. StreakInv /\ StreakInv'
    BY NextStreakInv DEF EarnedInv
  <1>2. /\ row \in Snapshot /\ row' \in Snapshot /\ advances \subseteq Date
        /\ row'.lastActiveDate >= row.lastActiveDate
        /\ row.lastActiveDate \in Nat /\ row'.lastActiveDate \in Nat
    BY <1>1, CommittedRow, SnapshotFields DEF StreakInv, TypeOK, Keeps
  <1>3. /\ \A a \in advances : a <= row.lastActiveDate /\ a <= row'.lastActiveDate
        /\ Accounted(row) /\ \A c \in copies : Accounted(c) /\ c \in Snapshot
        /\ \A p \in Proc : /\ Accounted(req[p].snapshot) /\ Accounted(req[p].state)
                           /\ req[p].snapshot \in Snapshot /\ req[p].state \in Snapshot
    <2>1. \A a \in advances : a <= row.lastActiveDate /\ a \in Nat
      BY <1>2 DEF EarnedInv, Date
    <2> QED
      BY <1>1, <1>2, <2>1 DEF EarnedInv, StreakInv, TypeOK, Request
  <1>4. \/ advances' = advances
        \/ \E d \in Date : d > row.lastActiveDate /\ advances' = advances \cup {d}
    <2>1. ASSUME NEW p \in Proc, CountEvent(p)
          PROVE  \/ advances' = advances
                 \/ \E d \in Date : d > row.lastActiveDate /\ advances' = advances \cup {d}
      <3>1. /\ At(p, "count") /\ activityDate[req[p].event] \in Date
            /\ req[p].state.lastActiveDate >= row.lastActiveDate
            /\ req[p].state.lastActiveDate \in Nat
        BY <1>1, <2>1, CountedIsFine, SnapshotFields DEF CountEvent, Keeps
      <3>2. activityDate[req[p].event] \in Nat
        BY <3>1 DEF Date
      <3> QED
        BY <1>2, <2>1, <3>1, <3>2 DEF CountEvent
    <2> QED
      BY <2>1 DEF Next, Step, NextDay, Upload, BeginEvent, MergeSnapshot, DuplicateEvent,
                  Fail, vars
  <1>5. ASSUME NEW c \in Snapshot, Accounted(c)
        PROVE  Accounted(c)'
    BY <1>2, <1>4, <1>5, AccountedStays
  <1>6. Accounted(NoStreak)
    BY DEF Accounted, NoStreak
  <1>7. /\ Idle.snapshot = NoStreak /\ Idle.state = NoStreak /\ NoStreak \in Snapshot
    BY NoStreakIsFine DEF Idle
  <1>8. /\ Accounted(row)'
        /\ \A a \in advances' : a <= row'.lastActiveDate
        /\ copies' \subseteq copies \cup {row'}
    <2>1. CASE row' = row /\ advances' = advances /\ copies' = copies
      <3>1. PICK r : r = row
        OBVIOUS
      <3>2. Accounted(r)'
        BY <1>2, <1>3, <1>5, <3>1
      <3> QED
        BY <1>3, <2>1, <3>1, <3>2
    <2>2. ASSUME NEW r \in Snapshot, Accounted(r), row' = r, advances' = advances
          PROVE  Accounted(row)' /\ \A a \in advances' : a <= row'.lastActiveDate
      <3>1. Accounted(r)'
        BY <1>5, <2>2
      <3> QED
        BY <1>3, <2>2, <3>1
    <2>3. CASE Upload
      <3>1. PICK s \in copies : row' = Upserted(NormalizeSnapshot(s))
        BY <2>3 DEF Upload, Commit
      <3>2. Accounted(Upserted(NormalizeSnapshot(s)))
        BY <1>3, NormalizeIsFine, NormalizedIsAccounted, UpsertedIsAccounted
      <3>3. copies' \subseteq copies \cup {row'} /\ advances' = advances
        BY <2>3 DEF Upload, Commit
      <3>4. PICK r : r = Upserted(NormalizeSnapshot(s))
        OBVIOUS
      <3> QED
        BY <1>2, <2>2, <3>1, <3>2, <3>3, <3>4
    <2>4. ASSUME NEW p \in Proc, DuplicateEvent(p)
          PROVE  /\ Accounted(row)'
                 /\ \A a \in advances' : a <= row'.lastActiveDate
                 /\ copies' \subseteq copies \cup {row'}
      <3>1. /\ row' = req[p].state /\ copies' \subseteq copies \cup {row'}
            /\ advances' = advances
        BY <2>4 DEF DuplicateEvent, Commit
      <3>2. PICK r : r = req[p].state
        OBVIOUS
      <3> QED
        BY <1>2, <1>3, <2>2, <3>1, <3>2
    <2>5. ASSUME NEW p \in Proc, CountEvent(p)
          PROVE  /\ Accounted(row)'
                 /\ \A a \in advances' : a <= row'.lastActiveDate
                 /\ copies' \subseteq copies \cup {row'}
      <3>1. PICK d, c : /\ d = activityDate[req[p].event] /\ c = req[p].state
        OBVIOUS
      <3>2. /\ row' = ApplyActivity(c, d) /\ copies' \subseteq copies \cup {row'}
            /\ advances' = IF d > c.lastActiveDate THEN advances \cup {d} ELSE advances
            /\ At(p, "count")
        BY <2>5, <3>1 DEF CountEvent, Commit
      <3>3. /\ d \in Date /\ c \in Snapshot /\ PassesChecks(c) /\ Accounted(c)
            /\ c.lastActiveDate >= row.lastActiveDate
            /\ c.lastActiveDate \in Nat /\ d \in Nat
        BY <1>1, <1>3, <3>1, <3>2, CountedIsFine, SnapshotFields DEF Keeps, Date
      <3>4. CASE d > c.lastActiveDate
        <4>1. Accounted(row)'
          BY <1>2, <1>3, <3>2, <3>3, <3>4, AppliedIsAccounted
        <4>2. row'.lastActiveDate = d
          <5>1. ~(d <= c.lastActiveDate)
            BY <3>3, <3>4
          <5> QED
            BY <3>2, <3>3, <5>1 DEF ApplyActivity, Snapshot
        <4> QED
          <5>1. advances' = advances \cup {d}
            BY <3>2, <3>4
          <5>2. \A a \in advances : a <= row.lastActiveDate /\ a \in Nat
            BY <1>2, <1>3 DEF Date
          <5>3. \A a \in advances' : a <= row'.lastActiveDate
            BY <1>2, <3>3, <3>4, <4>2, <5>1, <5>2
          <5> QED
            BY <3>2, <4>1, <5>3
      <3>5. CASE ~(d > c.lastActiveDate)
        <4>1. d <= c.lastActiveDate
          BY <3>3, <3>5
        <4>2. PICK r : r = ApplyActivity(c, d)
          OBVIOUS
        <4>3. /\ r.currentStreak = c.currentStreak /\ r.lastActiveDate = c.lastActiveDate
              /\ r.streakFreezeUsed = c.streakFreezeUsed
          BY <3>3, <4>1, <4>2 DEF ApplyActivity, Snapshot
        <4>4. Accounted(r)
          BY <3>3, <4>3, SameStreak
        <4> QED
          BY <1>2, <2>2, <3>2, <3>5, <4>2, <4>4
      <3> QED
        BY <3>4, <3>5
    <2> QED
      BY <2>1, <2>3, <2>4, <2>5
      DEF Next, Step, NextDay, BeginEvent, MergeSnapshot, Fail, vars
  <1>9. \A c \in copies' : Accounted(c)'
    <2>1. PICK r : r = row'
      OBVIOUS
    <2>2. Accounted(r)'
      BY <1>8, <2>1 DEF Accounted, OwnRun, BroughtRun, IsRun
    <2> QED
      BY <1>3, <1>5, <1>8, <2>1, <2>2
  <1>10. ASSUME NEW p \in Proc
         PROVE  Accounted(req[p].snapshot)' /\ Accounted(req[p].state)'
    <2>1. req \in [Proc -> Request] /\ req[p] \in Request
      BY <1>1 DEF StreakInv, TypeOK
    <2>2. PICK s, t : s = req'[p].snapshot /\ t = req'[p].state
      OBVIOUS
    <2>3. ASSUME s \in Snapshot, t \in Snapshot, Accounted(s), Accounted(t)
          PROVE  Accounted(req[p].snapshot)' /\ Accounted(req[p].state)'
      <3>1. Accounted(s)' /\ Accounted(t)'
        BY <1>5, <2>3
      <3> QED
        BY <2>2, <3>1 DEF Accounted, OwnRun, BroughtRun, IsRun
    <2>4. CASE req'[p] = req[p]
      BY <1>3, <2>2, <2>3, <2>4
    <2>5. CASE req'[p] = Idle
      BY <1>6, <1>7, <2>2, <2>3, <2>5
    <2>6. CASE BeginEvent(p)
      <3>1. PICK e \in Event, c \in copies :
              req' = [req EXCEPT ![p].pc = "event", ![p].event = e,
                                 ![p].snapshot = NormalizeSnapshot(c)]
        BY <2>6 DEF BeginEvent
      <3>2. s = NormalizeSnapshot(c) /\ t = req[p].state
        BY <2>1, <2>2, <3>1 DEF Request
      <3>3. Accounted(NormalizeSnapshot(c)) /\ NormalizeSnapshot(c) \in Snapshot
        BY <1>3, NormalizeIsFine, NormalizedIsAccounted
      <3> QED
        BY <1>3, <2>3, <3>2, <3>3
    <2>7. CASE MergeSnapshot(p)
      <3>1. req' = [req EXCEPT ![p].pc = "count", ![p].state = Upserted(req[p].snapshot)]
        BY <2>7 DEF MergeSnapshot
      <3>2. s = req[p].snapshot /\ t = Upserted(req[p].snapshot)
        BY <2>1, <2>2, <3>1 DEF Request
      <3>3. Accounted(Upserted(req[p].snapshot)) /\ Upserted(req[p].snapshot) \in Snapshot
        BY <1>1, <1>3, UpsertedIsAccounted, UpsertedIsFine DEF StreakInv, ChecksHold
      <3> QED
        BY <1>3, <2>3, <3>2, <3>3
    <2>8. ASSUME NEW q \in Proc, Step(q), ~BeginEvent(p), ~MergeSnapshot(p)
          PROVE  req'[p] = req[p] \/ req'[p] = Idle
      <3>1. q # p \/ CountEvent(q) \/ DuplicateEvent(q) \/ Fail(q)
        BY <2>8 DEF Step
      <3>2. CASE CountEvent(q) \/ DuplicateEvent(q) \/ Fail(q)
        BY <2>1, <3>2 DEF CountEvent, DuplicateEvent, Fail
      <3>3. CASE BeginEvent(q) /\ q # p
        BY <2>1, <3>3 DEF BeginEvent
      <3>4. CASE MergeSnapshot(q) /\ q # p
        BY <2>1, <3>4 DEF MergeSnapshot
      <3> QED
        BY <2>8, <3>1, <3>2, <3>3, <3>4 DEF Step
    <2> QED
      BY <2>4, <2>5, <2>6, <2>7, <2>8 DEF Next, NextDay, Upload, vars
  <1> QED
    BY <1>1, <1>8, <1>9, <1>10 DEF EarnedInv

\* Every streak the server shows is earned: it counts days of events that
\* follow each other, with at most one forgiven gap at a time, or it continues
\* one that a device brought along (streak.service.ts:279-327).
THEOREM StreaksAreAlwaysEarned == Spec => []StreakIsEarned
  <1>1. ASSUME EarnedInv
        PROVE  StreakIsEarned
    <2>0. row \in Snapshot /\ advances \subseteq Date
      BY <1>1 DEF EarnedInv, StreakInv, TypeOK
    <2>1. /\ \A a \in advances : a <= row.lastActiveDate /\ a \in Nat
          /\ row.lastActiveDate \in Nat
      <3>1. row.lastActiveDate \in Nat
        BY <2>0, SnapshotFields
      <3>2. Date \subseteq Nat
        BY StreakConstants DEF Date
      <3>3. \A a \in advances : a <= row.lastActiveDate
        BY <1>1 DEF EarnedInv
      <3> QED
        BY <2>0, <3>1, <3>2, <3>3
    <2>2. ASSUME NEW a \in Nat
          PROVE  After(a) = Days(a, row.lastActiveDate)
                 /\ After(a - 1) = Days(a - 1, row.lastActiveDate)
      BY <2>1, <2>2 DEF After, Days
    <2>3. \A s \in Offline : s.lastActiveDate \in Nat
      BY SnapshotFields, StreakConstants
    <2>4. ASSUME NEW d \in advances, OwnRun(row, d)
          PROVE  /\ Unbroken(After(d - 1))
                 /\ row.currentStreak = Counter(Cardinality(After(d - 1)), MaxStreak)
      BY <2>1, <2>2, <2>4 DEF OwnRun, IsRun
    <2>5. ASSUME NEW s \in Offline, BroughtRun(row, s)
          PROVE  LET D == After(s.lastActiveDate) IN
                 /\ Unbroken(D \cup {s.lastActiveDate})
                 /\ row.currentStreak = Counter(s.currentStreak + Cardinality(D), MaxStreak)
      BY <2>2, <2>3, <2>5 DEF BroughtRun, IsRun
    <2> QED
      BY <1>1, <2>4, <2>5 DEF EarnedInv, StreakIsEarned, Accounted
  <1> QED
    BY <1>1, InitEarnedInv, NextEarnedInv, PTL DEF Spec
=============================================================================
