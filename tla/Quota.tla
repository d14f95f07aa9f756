-------------------------------- MODULE Quota --------------------------------
(***************************************************************************)
(* The AI quota of one user in one app: a question is charged before the   *)
(* upstream model is asked, and given back, with one attempt, when no      *)
(* answer comes (consumeQuota, refundQuota and requestBonus of             *)
(* src/src/plans/plans.service.ts; proxyAi and interpretTuvi of            *)
(* src/src/plans/plans.controller.ts).                                     *)
(*                                                                         *)
(* Every change of the counters is a transaction under an advisory lock    *)
(* whose key names the month the request computed at its start.  The rows  *)
(* themselves are read without a lock and written back on commit.          *)
(*                                                                         *)
(* A transaction may fail and the process may die at any step.  A failed   *)
(* refund is not tried again, so a question can stay charged without an    *)
(* answer; `unrefunded' counts those.                                      *)
(***************************************************************************)
EXTENDS Integers, FiniteSets

CONSTANTS
  Proc,          \* concurrent requests
  DaysPerMonth,
  LastDay,       \* bound: the days are 0 .. LastDay
  DailyLimit,    \* plan.dailyLimit
  MonthlyLimit,  \* plan.monthlyLimit
  BonusAmount,   \* plan.bonusAmount
  BonusMax,      \* plan.bonusMaxPerDay
  MaxQuestions,  \* bound: questions charged to one day
  Ops            \* the operations a run lets clients call

ASSUME QuotaConstants ==
  /\ IsFiniteSet(Proc)
  /\ DaysPerMonth \in Nat \ {0} /\ LastDay \in Nat
  /\ DailyLimit \in Nat /\ MonthlyLimit \in Nat
  /\ BonusAmount \in Nat /\ BonusMax \in Nat /\ MaxQuestions \in Nat

Day == 0 .. LastDay
Month(d) == d \div DaysPerMonth
Months == {Month(d) : d \in Day}

VARIABLES
  today,     \* new Date()
  usage,     \* ai_usage: the row of each day
  req,       \* what each request is doing
  answered,  \* history: answered questions, by charged row and kind
  unrefunded \* history: questions that failed and stay charged, likewise

vars == <<today, usage, req, answered, unrefunded>>

\* The row getOrCreateUsage inserts; `exists' is whether it is in the table.
NoUsage == [exists |-> FALSE, dailyCount |-> 0, bonusRemaining |-> 0,
            bonusUsedToday |-> 0]
Usage == [exists : BOOLEAN, dailyCount : Nat, bonusRemaining : Nat,
          bonusUsedToday : Nat]

(***************************************************************************)
(* pc: "lock" waits for the advisory lock of `month'; "write" holds it and *)
(* is about to write `row'.  A charged question is "asked" until the       *)
(* upstream responds and "streaming" while its answer arrives.  `op' is    *)
(* what the transaction is for; `date' and `usedBonus' are the             *)
(* reservation, `rowDay' is the day whose row was really charged, and      *)
(* `content' and `error' are what the stream inspector has seen.           *)
(***************************************************************************)
Request ==
  [op : {"none", "ask", "bonus", "refund"},
   pc : {"idle", "lock", "write", "asked", "streaming"},
   date : Day, rowDay : Day, row : Usage, usedBonus : BOOLEAN,
   content : BOOLEAN, error : BOOLEAN]

Idle == [op |-> "none", pc |-> "idle", date |-> 0, rowDay |-> 0,
         row |-> NoUsage, usedBonus |-> FALSE, content |-> FALSE,
         error |-> FALSE]

TypeOK ==
  /\ today \in Day
  /\ usage \in [Day -> Usage]
  /\ req \in [Proc -> Request]
  /\ answered \in [Day \X BOOLEAN -> Nat]
  /\ unrefunded \in [Day \X BOOLEAN -> Nat]

Init ==
  /\ today = 0
  /\ usage = [d \in Day |-> NoUsage]
  /\ req = [p \in Proc |-> Idle]
  /\ answered = [c \in Day \X BOOLEAN |-> 0]
  /\ unrefunded = [c \in Day \X BOOLEAN |-> 0]

-----------------------------------------------------------------------------
At(p, label) == req[p].pc = label
Finish(p) == req' = [req EXCEPT ![p] = Idle]

\* Mutant: the counters are changed without the advisory lock.
MonthNeverLocked(m) == FALSE

\* pg_advisory_xact_lock on the month of the request's date.
MonthLocked(m) == \E p \in Proc : At(p, "write") /\ Month(req[p].date) = m

\* INSERT ... ON CONFLICT DO NOTHING waits for another transaction that is
\* about to create the same row.
RowBeingCreated ==
  ~usage[today].exists /\
    \E p \in Proc : At(p, "write") /\ req[p].op # "refund" /\ req[p].rowDay = today

\* The questions of a month, numbered by day: as many as its days count.
Questions(count, m) == UNION {{d} \X (1 .. count[d]) : d \in {e \in Day : Month(e) = m}}

DailyCounts == [d \in Day |-> usage[d].dailyCount]
MonthlyUsed(m) == Cardinality(Questions(DailyCounts, m))

\* Mutant: one question too many.
DailyExceededByOne(row) == row.dailyCount > DailyLimit + row.bonusRemaining

DailyExceeded(row) == row.dailyCount >= DailyLimit + row.bonusRemaining
MonthlyExceeded(p) == MonthlyUsed(Month(req[p].date)) >= MonthlyLimit

\* consumeQuota's change of the row.
UseBonus(row) == row.bonusRemaining > 0 /\ row.dailyCount >= DailyLimit
Charge(row) ==
  [row EXCEPT !.exists = TRUE, !.dailyCount = @ + 1,
              !.bonusRemaining = IF UseBonus(row) THEN @ - 1 ELSE @]

\* requestBonus's change of the row.
AddBonus(row) ==
  [row EXCEPT !.exists = TRUE, !.bonusUsedToday = @ + 1,
              !.bonusRemaining = @ + BonusAmount]

\* Mutant: the bonus question is not given back.
GiveBackCountOnly(row, usedBonus) == [row EXCEPT !.dailyCount = @ - 1]

\* refundQuota's change of the row.
GiveBack(row, usedBonus) ==
  [row EXCEPT !.dailyCount = @ - 1,
              !.bonusRemaining = IF usedBonus THEN @ + 1 ELSE @]

-----------------------------------------------------------------------------
(* The transactions.                                                       *)

\* checkQuota creates the row of the day and reads it, in no transaction.
CheckQuota ==
  /\ "check" \in Ops /\ ~usage[today].exists /\ ~RowBeingCreated
  /\ usage' = [usage EXCEPT ![today].exists = TRUE]
  /\ UNCHANGED <<today, req, answered, unrefunded>>

\* A question or a request for bonus questions computes its date and plan,
\* and then waits for the lock.
Start(p, op) ==
  /\ op \in Ops \cap {"ask", "bonus"} /\ At(p, "idle")
  /\ req' = [req EXCEPT ![p] = [Idle EXCEPT !.op = op, !.pc = "lock",
                                  !.date = today]]
  /\ UNCHANGED <<today, usage, answered, unrefunded>>

\* The lock is held: the row of the current day is read, or created.
ReadToCharge(p) ==
  LET row == usage[today] IN
  /\ At(p, "lock") /\ req[p].op = "ask" /\ ~MonthLocked(Month(req[p].date))
  /\ ~RowBeingCreated
  /\ ~DailyExceeded(row) /\ ~MonthlyExceeded(p)
  /\ row.dailyCount < MaxQuestions
  /\ req' = [req EXCEPT ![p].pc = "write", ![p].rowDay = today,
                        ![p].row = Charge(row), ![p].usedBonus = UseBonus(row)]
  /\ UNCHANGED <<today, usage, answered, unrefunded>>

\* QUOTA_EXCEEDED: the transaction is rolled back.
Refuse(p) ==
  /\ At(p, "lock") /\ req[p].op = "ask" /\ ~MonthLocked(Month(req[p].date))
  /\ ~RowBeingCreated
  /\ DailyExceeded(usage[today]) \/ MonthlyExceeded(p)
  /\ Finish(p)
  /\ UNCHANGED <<today, usage, answered, unrefunded>>

ReadToAddBonus(p) ==
  LET row == usage[today] IN
  /\ At(p, "lock") /\ req[p].op = "bonus" /\ ~MonthLocked(Month(req[p].date))
  /\ ~RowBeingCreated
  /\ row.bonusUsedToday < BonusMax
  /\ req' = [req EXCEPT ![p].pc = "write", ![p].rowDay = today,
                        ![p].row = AddBonus(row)]
  /\ UNCHANGED <<today, usage, answered, unrefunded>>

RefuseBonus(p) ==
  /\ At(p, "lock") /\ req[p].op = "bonus" /\ ~MonthLocked(Month(req[p].date))
  /\ ~RowBeingCreated
  /\ usage[today].bonusUsedToday >= BonusMax
  /\ Finish(p)
  /\ UNCHANGED <<today, usage, answered, unrefunded>>

\* refundQuota looks up the row of the reservation's date; without one, or with
\* nothing charged on it, the transaction ends there.
ReadToRefund(p) ==
  LET row == usage[req[p].date] IN
  /\ At(p, "lock") /\ req[p].op = "refund" /\ ~MonthLocked(Month(req[p].date))
  /\ req' = [req EXCEPT ![p] =
               IF row.exists /\ row.dailyCount > 0
               THEN [@ EXCEPT !.pc = "write",
                              !.row = GiveBack(row, req[p].usedBonus)]
               ELSE Idle]
  /\ UNCHANGED <<today, usage, answered, unrefunded>>

RowWritten(p) == IF req[p].op = "refund" THEN req[p].date ELSE req[p].rowDay

\* save and COMMIT; a charged question goes on to the upstream.
Write(p) ==
  /\ At(p, "write")
  /\ usage' = [usage EXCEPT ![RowWritten(p)] = req[p].row]
  /\ req' = [req EXCEPT ![p] =
               IF req[p].op = "ask"
               THEN [@ EXCEPT !.pc = "asked", !.row = NoUsage]
               ELSE Idle]
  /\ UNCHANGED <<today, answered, unrefunded>>

\* The transaction of a question or a bonus request fails and is rolled back, or
\* the process dies in it.  (A COMMIT whose answer is lost is a Write, and for a
\* question ProcessDies after it: the controller never learns of the charge.)
RequestFails(p) ==
  /\ req[p].op \in {"ask", "bonus"} /\ (At(p, "lock") \/ At(p, "write"))
  /\ Finish(p)
  /\ UNCHANGED <<today, usage, answered, unrefunded>>

-----------------------------------------------------------------------------
(* The life of a charged question.                                         *)

\* refundOnce sets `refunded' and then awaits refundQuota.
Refund(p) ==
  req' = [req EXCEPT ![p].op = "refund", ![p].pc = "lock"]

\* No connection, an error status or no body, after the retries there are.
UpstreamFails(p) ==
  /\ At(p, "asked")
  /\ Refund(p)
  /\ UNCHANGED <<today, usage, answered, unrefunded>>

StreamStarts(p) ==
  /\ At(p, "asked")
  /\ req' = [req EXCEPT ![p].pc = "streaming"]
  /\ UNCHANGED <<today, usage, answered, unrefunded>>

\* The inspector meets a delta with text, or an error frame.
Chunk(p) ==
  /\ At(p, "streaming")
  /\ \E field \in {"content", "error"} :
       req' = [req EXCEPT ![p][field] = TRUE]
  /\ UNCHANGED <<today, usage, answered, unrefunded>>

\* The stream ends, or the client has gone; finish().shouldRefund decides.
EndOfStream(p) ==
  /\ At(p, "streaming")
  /\ \/ /\ req[p].error \/ ~req[p].content
        /\ Refund(p)
        /\ UNCHANGED answered
     \/ /\ req[p].content /\ ~req[p].error
        /\ answered' = [answered EXCEPT ![<<req[p].rowDay, req[p].usedBonus>>] = @ + 1]
        /\ Finish(p)
  /\ UNCHANGED <<today, usage, unrefunded>>

\* The upstream breaks off, or its deadline passes.
StreamAborts(p) ==
  /\ At(p, "streaming")
  /\ Refund(p)
  /\ UNCHANGED <<today, usage, answered, unrefunded>>

\* The question p fails for good, and its charge stands.
StaysCharged(p) ==
  /\ unrefunded' = [unrefunded EXCEPT ![<<req[p].rowDay, req[p].usedBonus>>] = @ + 1]
  /\ Finish(p)
  /\ UNCHANGED <<today, usage, answered>>

\* refundQuota throws: the catch calls refundOnce again, which finds `refunded'
\* set and does nothing.  Or the process dies before the COMMIT.
RefundFails(p) ==
  /\ req[p].op = "refund"
  /\ StaysCharged(p)

\* The process dies while a question is open: nothing else knows of its charge.
ProcessDies(p) ==
  /\ At(p, "asked") \/ At(p, "streaming")
  /\ StaysCharged(p)

\* Unless a run has "straddle", no charge or bonus waits for the lock at midnight.
Midnight ==
  /\ today < LastDay
  /\ "straddle" \in Ops \/ \A p \in Proc : At(p, "lock") => req[p].op = "refund"
  /\ today' = today + 1
  /\ UNCHANGED <<usage, req, answered, unrefunded>>

Step(p) ==
  \/ Start(p, "ask") \/ Start(p, "bonus")
  \/ ReadToCharge(p) \/ Refuse(p)
  \/ ReadToAddBonus(p) \/ RefuseBonus(p)
  \/ ReadToRefund(p)
  \/ Write(p) \/ RequestFails(p)
  \/ UpstreamFails(p) \/ StreamStarts(p)
  \/ Chunk(p) \/ EndOfStream(p) \/ StreamAborts(p)
  \/ RefundFails(p) \/ ProcessDies(p)

Next == Midnight \/ CheckQuota \/ \E p \in Proc : Step(p)

Spec == Init /\ [][Next]_vars

-----------------------------------------------------------------------------
(* Properties.                                                             *)

\* The open questions whose charge stands on the row of a day, and all the
\* questions that do.
Pending(d) ==
  {p \in Proc : req[p].rowDay = d /\
     (At(p, "asked") \/ At(p, "streaming") \/ req[p].op = "refund")}
PendingWithBonus(d) == {p \in Pending(d) : req[p].usedBonus}

\* The questions of one row and kind that are over and stay charged.
Closed(c) == answered[c] + unrefunded[c]

Standing(d) == Closed(<<d, TRUE>>) + Closed(<<d, FALSE>>) + Cardinality(Pending(d))

\* The counter of a day is its answered questions, those still open, and those
\* whose one refund failed or whose process died: each is charged once, a
\* failure whose refund commits is given back once, and nothing else is given
\* back (plans.controller.ts:316-326, 380-385, plans.service.spec.ts:148).
ChargesAreAnswers ==
  \A d \in Day : usage[d].dailyCount = Standing(d)

\* Concurrent questions never draw more than the plan and the bonus presses
\* of the day allow, nor more than the month allows
\* (plans.service.ts:321-326).
NeverOverdrawn ==
  /\ \A d \in Day :
       Standing(d) <= DailyLimit + BonusAmount * usage[d].bonusUsedToday
  /\ \A m \in Months :
       Cardinality(Questions([d \in Day |-> Standing(d)], m)) <= MonthlyLimit

\* Bonus questions are not made up, and none is lost but with a refund: those
\* granted on a day are left, or stand charged to a question that is answered,
\* open, or failed without its refund (plans.service.ts:342-345, 375, 412).
BonusIsConserved ==
  \A d \in Day :
    usage[d].bonusRemaining + Closed(<<d, TRUE>>) + Cardinality(PendingWithBonus(d))
      = BonusAmount * usage[d].bonusUsedToday

\* A question is only refused for the day when no bonus question remains
\* (ai-usage.entity.ts:42).
RefusedWithoutBonus ==
  [][\A p \in Proc :
       Refuse(p) /\ ~MonthlyExceeded(p) => usage[today].bonusRemaining = 0]_vars
=============================================================================
