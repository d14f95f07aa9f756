----------------------------- MODULE QuotaProofs ------------------------------
(***************************************************************************)
(* Proofs about Quota, for any number of requests, days and limits, as     *)
(* long as no charge waits for its lock over midnight: that case is        *)
(* "straddle" of Ops, for which the three properties do not hold.          *)
(*                                                                         *)
(* Under that condition a request's date is the day of the row it changes, *)
(* so the lock of the month protects the row and the sum of the month from *)
(* the reading to the write.                                               *)
(***************************************************************************)
EXTENDS Quota, FiniteSetTheorems, TLAPS

-----------------------------------------------------------------------------
(* The inductive invariant.                                                *)

\* A request that has charged a question, and so has a claim on its row.
Open(r) == r.pc \in {"asked", "streaming"} \/ r.op = "refund"

\* A request stands where its operation may, and changes the row of its date.
DatedRequest(r) ==
  /\ r.pc = "idle" <=> r.op = "none"
  /\ r.pc \in {"asked", "streaming"} => r.op = "ask"
  /\ r.pc = "lock" /\ r.op # "refund" => r.date = today
  /\ r.pc = "write" \/ Open(r) => r.rowDay = r.date

\* What a request is about to write is still made from the row as it is, and
\* what it has checked still holds.
SoundRequest(r) ==
  r.pc = "write" =>
    /\ r.op = "ask" =>
         /\ r.row = Charge(usage[r.date]) /\ r.usedBonus = UseBonus(usage[r.date])
         /\ ~DailyExceeded(usage[r.date]) /\ usage[r.date].dailyCount < MaxQuestions
         /\ MonthlyUsed(Month(r.date)) < MonthlyLimit
    /\ r.op = "bonus" => r.row = AddBonus(usage[r.date])
    /\ r.op = "refund" =>
         /\ usage[r.date].exists /\ usage[r.date].dailyCount > 0
         /\ r.row = GiveBack(usage[r.date], r.usedBonus)

\* One request writes in a month.
Apart ==
  \A p, q \in Proc :
    At(p, "write") /\ At(q, "write") /\ Month(req[p].date) = Month(req[q].date) => p = q

RequestInv ==
  /\ \A p \in Proc : DatedRequest(req[p]) /\ SoundRequest(req[p])
  /\ Apart

\* A row is charged only when it is there, and up to the bound.
Rows ==
  \A d \in Day : /\ usage[d].dailyCount <= MaxQuestions
                 /\ usage[d].dailyCount > 0 => usage[d].exists

\* The limits, said of what is stored.
WithinLimits ==
  /\ \A d \in Day :
       usage[d].dailyCount <= DailyLimit + BonusAmount * usage[d].bonusUsedToday
  /\ \A m \in Months : MonthlyUsed(m) <= MonthlyLimit

TableInv == Rows /\ ChargesAreAnswers /\ BonusIsConserved /\ WithinLimits

QuotaInv == TypeOK /\ RequestInv /\ TableInv

-----------------------------------------------------------------------------
(* Lemmas about the questions of a month.                                  *)

LEMMA OneElement ==
  ASSUME NEW S, NEW x, IsFiniteSet(S)
  PROVE  /\ Cardinality(S) \in Nat
         /\ IsFiniteSet(S \cup {x}) /\ Cardinality(S \cup {x}) \in Nat
         /\ Cardinality(S \cup {x}) <= Cardinality(S) + 1
         /\ x \notin S => Cardinality(S \cup {x}) = Cardinality(S) + 1
         /\ IsFiniteSet(S \ {x}) /\ Cardinality(S \ {x}) \in Nat
         /\ x \in S => Cardinality(S) = Cardinality(S \ {x}) + 1
  <1>1. Cardinality(S) \in Nat
    BY FS_CardinalityType
  <1>2. /\ IsFiniteSet(S \cup {x})
        /\ Cardinality(S \cup {x}) = IF x \in S THEN Cardinality(S) ELSE Cardinality(S) + 1
    BY FS_AddElement
  <1>3. /\ IsFiniteSet(S \ {x})
        /\ Cardinality(S \ {x}) = IF x \in S THEN Cardinality(S) - 1 ELSE Cardinality(S)
    BY FS_RemoveElement
  <1>4. Cardinality(S \ {x}) \in Nat
    BY <1>3, FS_CardinalityType
  <1> QED
    BY <1>1, <1>2, <1>3, <1>4

LEMMA Elements ==
  ASSUME NEW c, NEW m, NEW x
  PROVE  x \in Questions(c, m) <=>
           \E d \in Day : Month(d) = m /\ x \in {d} \X (1 .. c[d])
  BY DEF Questions

LEMMA QuestionsAreFinite ==
  ASSUME NEW c \in [Day -> Nat], \A d \in Day : c[d] <= MaxQuestions, NEW m
  PROVE  IsFiniteSet(Questions(c, m)) /\ Cardinality(Questions(c, m)) \in Nat
  <1>1. IsFiniteSet(Day) /\ IsFiniteSet(1 .. MaxQuestions)
    BY QuotaConstants, FS_Interval DEF Day
  <1>2. IsFiniteSet(Day \X (1 .. MaxQuestions))
    BY <1>1, FS_Product
  <1>3. ASSUME NEW x \in Questions(c, m)
        PROVE  x \in Day \X (1 .. MaxQuestions)
    <2>1. PICK d \in Day : x \in {d} \X (1 .. c[d])
      BY <1>3, Elements
    <2>2. 1 .. c[d] \subseteq 1 .. MaxQuestions
      BY QuotaConstants
    <2> QED
      BY <2>1, <2>2
  <1>4. IsFiniteSet(Questions(c, m))
    BY <1>2, <1>3, FS_Subset
  <1> QED
    BY <1>4, FS_CardinalityType

\* A change of the count of one day changes the questions of its month only.
LEMMA OtherMonths ==
  ASSUME NEW c, NEW d, NEW m, \A e \in Day : Month(e) = m => c[e] = d[e]
  PROVE  Questions(c, m) = Questions(d, m)
  <1>1. \A x : x \in Questions(c, m) <=> x \in Questions(d, m)
    BY Elements
  <1> QED
    BY <1>1

LEMMA OneMoreQuestion ==
  ASSUME NEW c \in [Day -> Nat], \A d \in Day : c[d] <= MaxQuestions, NEW e \in Day
  PROVE  Cardinality(Questions([c EXCEPT ![e] = c[e] + 1], Month(e)))
           <= Cardinality(Questions(c, Month(e))) + 1
  <1> DEFINE m == Month(e)  d == [c EXCEPT ![e] = c[e] + 1]  y == <<e, c[e] + 1>>
  <1>1. ASSUME NEW x \in Questions(d, m)
        PROVE  x \in Questions(c, m) \cup {y}
    <2>1. PICK f \in Day : Month(f) = m /\ x \in {f} \X (1 .. d[f])
      BY <1>1, Elements
    <2>2. x \in {f} \X (1 .. c[f]) \/ x = y
      <3>1. CASE f # e
        BY <2>1, <3>1
      <3>2. CASE f = e
        <4>1. x[1] = e /\ x = <<x[1], x[2]>> /\ x[2] \in 1 .. c[e] + 1
          BY <2>1, <3>2
        <4>2. x[2] \in 1 .. c[e] \/ x[2] = c[e] + 1
          BY <4>1
        <4> QED
          BY <3>2, <4>1, <4>2
      <3> QED
        BY <3>1, <3>2
    <2> QED
      BY <2>1, <2>2, Elements
  <1>2. IsFiniteSet(Questions(c, m)) /\ Cardinality(Questions(c, m)) \in Nat
    BY QuestionsAreFinite
  <1>3. /\ IsFiniteSet(Questions(c, m) \cup {y})
        /\ Cardinality(Questions(c, m) \cup {y}) <= Cardinality(Questions(c, m)) + 1
    BY <1>2, OneElement
  <1>4. Questions(d, m) \in SUBSET (Questions(c, m) \cup {y})
    BY <1>1
  <1>5. /\ IsFiniteSet(Questions(d, m))
        /\ Cardinality(Questions(d, m)) <= Cardinality(Questions(c, m) \cup {y})
    BY <1>3, <1>4, FS_Subset
  <1>6. Cardinality(Questions(d, m)) \in Nat /\ Cardinality(Questions(c, m) \cup {y}) \in Nat
    BY <1>3, <1>5, FS_CardinalityType
  <1> QED
    BY <1>2, <1>3, <1>5, <1>6

LEMMA FewerQuestions ==
  ASSUME NEW c \in [Day -> Nat], NEW d \in [Day -> Nat], NEW m,
         \A e \in Day : c[e] <= MaxQuestions /\ d[e] <= c[e]
  PROVE  Cardinality(Questions(d, m)) <= Cardinality(Questions(c, m))
  <1>1. IsFiniteSet(Questions(c, m))
    BY QuestionsAreFinite
  <1>2. ASSUME NEW x \in Questions(d, m)
        PROVE  x \in Questions(c, m)
    <2>1. PICK f \in Day : Month(f) = m /\ x \in {f} \X (1 .. d[f])
      BY <1>2, Elements
    <2>2. 1 .. d[f] \subseteq 1 .. c[f]
      OBVIOUS
    <2> QED
      BY <2>1, <2>2, Elements
  <1> QED
    BY <1>1, <1>2, FS_Subset

-----------------------------------------------------------------------------
(* Lemmas about pending questions.                                         *)

LEMMA PendingIsFinite ==
  ASSUME NEW d
  PROVE  /\ IsFiniteSet(Pending(d)) /\ Cardinality(Pending(d)) \in Nat
         /\ IsFiniteSet(PendingWithBonus(d)) /\ Cardinality(PendingWithBonus(d)) \in Nat
  <1>1. IsFiniteSet(Pending(d)) /\ IsFiniteSet(PendingWithBonus(d))
    BY QuotaConstants, FS_Subset DEF Pending, PendingWithBonus
  <1> QED
    BY <1>1, FS_CardinalityType

LEMMA PendingIsOpen ==
  ASSUME NEW d
  PROVE  /\ Pending(d) = {p \in Proc : req[p].rowDay = d /\ Open(req[p])}
         /\ PendingWithBonus(d) =
              {p \in Proc : req[p].rowDay = d /\ Open(req[p]) /\ req[p].usedBonus}
  BY DEF Pending, PendingWithBonus, Open, At

\* A request that stays open, or stays closed, changes nothing.
LEMMA PendingStays ==
  ASSUME TypeOK, NEW p \in Proc, NEW r, req' = [req EXCEPT ![p] = r],
         Open(r) <=> Open(req[p]),
         Open(r) => r.rowDay = req[p].rowDay /\ r.usedBonus = req[p].usedBonus,
         NEW d
  PROVE  Pending(d)' = Pending(d) /\ PendingWithBonus(d)' = PendingWithBonus(d)
  BY DEF TypeOK, Pending, PendingWithBonus, Open, At

LEMMA PendingGrows ==
  ASSUME TypeOK, NEW p \in Proc, NEW r \in Request, req' = [req EXCEPT ![p] = r],
         ~Open(req[p]), Open(r), NEW d
  PROVE  /\ r.rowDay = d => Cardinality(Pending(d))' = Cardinality(Pending(d)) + 1
         /\ r.rowDay # d => Cardinality(Pending(d))' = Cardinality(Pending(d))
         /\ r.rowDay = d /\ r.usedBonus =>
              Cardinality(PendingWithBonus(d))' = Cardinality(PendingWithBonus(d)) + 1
         /\ ~(r.rowDay = d /\ r.usedBonus) =>
              Cardinality(PendingWithBonus(d))' = Cardinality(PendingWithBonus(d))
  <1>1. /\ p \notin Pending(d) /\ p \notin PendingWithBonus(d)
        /\ r.rowDay = d => Pending(d)' = Pending(d) \cup {p}
        /\ r.rowDay # d => Pending(d)' = Pending(d)
        /\ r.rowDay = d /\ r.usedBonus =>
             PendingWithBonus(d)' = PendingWithBonus(d) \cup {p}
        /\ ~(r.rowDay = d /\ r.usedBonus) => PendingWithBonus(d)' = PendingWithBonus(d)
    BY DEF TypeOK, Pending, PendingWithBonus, Open, At
  <1>2. /\ Cardinality(Pending(d)) \in Nat
        /\ Cardinality(Pending(d) \cup {p}) = Cardinality(Pending(d)) + 1
    BY <1>1, PendingIsFinite, OneElement
  <1>3. /\ Cardinality(PendingWithBonus(d)) \in Nat
        /\ Cardinality(PendingWithBonus(d) \cup {p}) = Cardinality(PendingWithBonus(d)) + 1
    BY <1>1, PendingIsFinite, OneElement
  <1> QED
    BY <1>1, <1>2, <1>3

LEMMA PendingShrinks ==
  ASSUME TypeOK, NEW p \in Proc, NEW r \in Request, req' = [req EXCEPT ![p] = r],
         Open(req[p]), ~Open(r), NEW d
  PROVE  /\ req[p].rowDay = d => Cardinality(Pending(d)) = Cardinality(Pending(d))' + 1
         /\ req[p].rowDay # d => Cardinality(Pending(d))' = Cardinality(Pending(d))
         /\ req[p].rowDay = d /\ req[p].usedBonus =>
              Cardinality(PendingWithBonus(d)) = Cardinality(PendingWithBonus(d))' + 1
         /\ ~(req[p].rowDay = d /\ req[p].usedBonus) =>
              Cardinality(PendingWithBonus(d))' = Cardinality(PendingWithBonus(d))
  <1>1. /\ req[p].rowDay = d => p \in Pending(d) /\ Pending(d)' = Pending(d) \ {p}
        /\ req[p].rowDay # d => Pending(d)' = Pending(d)
        /\ req[p].rowDay = d /\ req[p].usedBonus =>
             /\ p \in PendingWithBonus(d)
             /\ PendingWithBonus(d)' = PendingWithBonus(d) \ {p}
        /\ ~(req[p].rowDay = d /\ req[p].usedBonus) =>
             PendingWithBonus(d)' = PendingWithBonus(d)
    BY DEF TypeOK, Pending, PendingWithBonus, Open, At
  <1>2. /\ Cardinality(Pending(d)) \in Nat
        /\ p \in Pending(d) => Cardinality(Pending(d)) = Cardinality(Pending(d) \ {p}) + 1
    BY PendingIsFinite, OneElement
  <1>3. /\ Cardinality(PendingWithBonus(d)) \in Nat
        /\ p \in PendingWithBonus(d) =>
             Cardinality(PendingWithBonus(d)) = Cardinality(PendingWithBonus(d) \ {p}) + 1
    BY PendingIsFinite, OneElement
  <1> QED
    BY <1>1, <1>2, <1>3

-----------------------------------------------------------------------------
(* Lemmas about requests.                                                  *)

LEMMA IdleIsSound == Idle \in Request /\ DatedRequest(Idle) /\ SoundRequest(Idle) /\ ~Open(Idle)
  BY QuotaConstants DEF Idle, Request, NoUsage, Usage, Day, DatedRequest, SoundRequest, Open

\* What consumeQuota, requestBonus and refundQuota make of a row is a row.
LEMMA RowsAreRows ==
  ASSUME NEW row \in Usage
  PROVE  /\ Charge(row) \in Usage /\ AddBonus(row) \in Usage
         /\ \A b \in BOOLEAN : row.dailyCount > 0 => GiveBack(row, b) \in Usage
  <1>1. /\ row.exists \in BOOLEAN /\ row.dailyCount \in Nat
        /\ row.bonusRemaining \in Nat /\ row.bonusUsedToday \in Nat
    BY DEF Usage
  <1>2. Charge(row) \in Usage
    <2>1. CASE UseBonus(row)
      <3>1. row.bonusRemaining - 1 \in Nat /\ row.dailyCount + 1 \in Nat
        BY <1>1, <2>1 DEF UseBonus
      <3> QED
        BY <2>1, <3>1 DEF Usage, Charge
    <2>2. CASE ~UseBonus(row)
      <3>1. row.dailyCount + 1 \in Nat
        BY <1>1
      <3> QED
        BY <2>2, <3>1 DEF Usage, Charge
    <2> QED
      BY <2>1, <2>2
  <1>3. AddBonus(row) \in Usage
    <2>1. row.bonusUsedToday + 1 \in Nat /\ row.bonusRemaining + BonusAmount \in Nat
      BY <1>1, QuotaConstants
    <2> QED
      BY <2>1 DEF Usage, AddBonus
  <1>4. ASSUME NEW b \in BOOLEAN, row.dailyCount > 0
        PROVE  GiveBack(row, b) \in Usage
    <2>1. row.dailyCount - 1 \in Nat /\ row.bonusRemaining + 1 \in Nat
      BY <1>1, <1>4
    <2> QED
      BY <2>1 DEF Usage, GiveBack
  <1> QED
    BY <1>2, <1>3, <1>4

LEMMA ClosedAreNumbers ==
  ASSUME TypeOK, NEW d \in Day, NEW bonus \in BOOLEAN
  PROVE  Closed(<<d, bonus>>) \in Nat
  <1>1. answered[<<d, bonus>>] \in Nat /\ unrefunded[<<d, bonus>>] \in Nat
    BY DEF TypeOK
  <1> QED
    BY <1>1 DEF Closed

\* A request that moves on without writing, closing or answering a question.
LEMMA RequestMoves ==
  ASSUME QuotaInv, NEW p \in Proc, NEW r \in Request, req' = [req EXCEPT ![p] = r],
         UNCHANGED <<today, usage, answered, unrefunded>>,
         DatedRequest(r), SoundRequest(r),
         r.pc = "write" => ~MonthLocked(Month(r.date)),
         Open(r) <=> Open(req[p]),
         Open(r) => r.rowDay = req[p].rowDay /\ r.usedBonus = req[p].usedBonus
  PROVE  QuotaInv'
  <1>1. TypeOK'
    BY DEF QuotaInv, TypeOK
  <1>2. \A q \in Proc : req'[q] = IF q = p THEN r ELSE req[q]
    BY DEF QuotaInv, TypeOK
  <1>3. \A m : MonthlyUsed(m)' = MonthlyUsed(m)
    BY DEF MonthlyUsed, DailyCounts
  <1>4. \A q \in Proc : DatedRequest(req[q])' /\ SoundRequest(req[q])'
    BY <1>2, <1>3 DEF QuotaInv, RequestInv, DatedRequest, SoundRequest
  <1>5. Apart'
    BY <1>2 DEF QuotaInv, RequestInv, Apart, At, MonthLocked
  <1>6. \A d \in Day : Pending(d)' = Pending(d) /\ PendingWithBonus(d)' = PendingWithBonus(d)
    BY PendingStays DEF QuotaInv
  <1>7. Rows' /\ ChargesAreAnswers' /\ BonusIsConserved' /\ WithinLimits'
    BY <1>3, <1>6 DEF QuotaInv, TableInv, Rows, ChargesAreAnswers, Standing, Closed,
                      BonusIsConserved, WithinLimits
  <1> QED
    BY <1>1, <1>4, <1>5, <1>7 DEF QuotaInv, RequestInv, TableInv

-----------------------------------------------------------------------------
(* The steps.                                                              *)

LEMMA StartKeepsInv ==
  ASSUME QuotaInv, NEW p \in Proc, NEW op, Start(p, op)
  PROVE  QuotaInv'
  <1> DEFINE r == [Idle EXCEPT !.op = op, !.pc = "lock", !.date = today]
  <1>1. op \in {"ask", "bonus"} /\ req' = [req EXCEPT ![p] = r]
        /\ UNCHANGED <<today, usage, answered, unrefunded>>
    BY DEF Start
  <1>2. r \in Request /\ DatedRequest(r) /\ SoundRequest(r) /\ ~Open(r) /\ r.pc # "write"
    BY <1>1, IdleIsSound DEF QuotaInv, TypeOK, Request, Idle, DatedRequest, SoundRequest, Open
  <1>3. ~Open(req[p])
    BY DEF Start, At, QuotaInv, RequestInv, DatedRequest, Open
  <1> QED
    BY <1>1, <1>2, <1>3, RequestMoves

\* A request that is refused, or whose refund finds nothing.
LEMMA FinishKeepsInv ==
  ASSUME QuotaInv, NEW p \in Proc, ~Open(req[p]), Finish(p),
         UNCHANGED <<today, usage, answered, unrefunded>>
  PROVE  QuotaInv'
  BY IdleIsSound, RequestMoves DEF Finish, Idle

LEMMA ReadToChargeKeepsInv ==
  ASSUME QuotaInv, NEW p \in Proc, ReadToCharge(p)
  PROVE  QuotaInv'
  <1> DEFINE row == usage[today]
             r == [req[p] EXCEPT !.pc = "write", !.rowDay = today,
                                 !.row = Charge(row), !.usedBonus = UseBonus(row)]
  <1>1. /\ req[p].pc = "lock" /\ req[p].op = "ask" /\ req[p].date = today
        /\ today \in Day /\ row \in Usage /\ req[p] \in Request
    BY DEF ReadToCharge, At, QuotaInv, TypeOK, RequestInv, DatedRequest
  <1>2. req' = [req EXCEPT ![p] = r]
    BY DEF ReadToCharge, QuotaInv, TypeOK
  <1>3. r \in Request /\ r.pc = "write" /\ r.op = "ask" /\ r.date = today
    BY <1>1, RowsAreRows DEF Request, UseBonus
  <1>4. DatedRequest(r) /\ ~Open(r) /\ ~Open(req[p])
    BY <1>1 DEF DatedRequest, Open, Request
  <1>5. ~MonthlyExceeded(p) => MonthlyUsed(Month(today)) < MonthlyLimit
    <2>1. /\ \A d \in Day : DailyCounts[d] = usage[d].dailyCount /\ usage[d].dailyCount \in Nat
          /\ DailyCounts \in [Day -> Nat]
      BY DEF QuotaInv, TypeOK, Usage, DailyCounts
    <2>2. MonthlyUsed(Month(today)) \in Nat
      BY <2>1, QuestionsAreFinite DEF QuotaInv, TableInv, Rows, MonthlyUsed
    <2> QED
      BY <1>1, <2>2, QuotaConstants DEF MonthlyExceeded
  <1>6. SoundRequest(r)
    BY <1>1, <1>5 DEF SoundRequest, ReadToCharge, Request
  <1> QED
    BY <1>1, <1>2, <1>3, <1>4, <1>6, RequestMoves DEF ReadToCharge

LEMMA ReadToAddBonusKeepsInv ==
  ASSUME QuotaInv, NEW p \in Proc, ReadToAddBonus(p)
  PROVE  QuotaInv'
  <1> DEFINE row == usage[today]
             r == [req[p] EXCEPT !.pc = "write", !.rowDay = today, !.row = AddBonus(row)]
  <1>1. /\ req[p].pc = "lock" /\ req[p].op = "bonus" /\ req[p].date = today
        /\ today \in Day /\ row \in Usage /\ req[p] \in Request
    BY DEF ReadToAddBonus, At, QuotaInv, TypeOK, RequestInv, DatedRequest
  <1>2. req' = [req EXCEPT ![p] = r]
    BY DEF ReadToAddBonus, QuotaInv, TypeOK
  <1>3. r \in Request /\ r.pc = "write" /\ r.op = "bonus" /\ r.date = today
    BY <1>1, RowsAreRows DEF Request
  <1>4. DatedRequest(r) /\ ~Open(r) /\ ~Open(req[p]) /\ SoundRequest(r)
    BY <1>1 DEF DatedRequest, Open, Request, SoundRequest
  <1> QED
    BY <1>1, <1>2, <1>3, <1>4, RequestMoves DEF ReadToAddBonus

\* A charge that stands can be refunded: its row counts it.
LEMMA OpenIsCounted ==
  ASSUME QuotaInv, NEW p \in Proc, Open(req[p])
  PROVE  /\ req[p].rowDay = req[p].date /\ req[p].date \in Day
         /\ usage[req[p].date].exists /\ usage[req[p].date].dailyCount > 0
  <1> DEFINE d == req[p].date
  <1>1. req[p].rowDay = d /\ d \in Day
    BY DEF QuotaInv, RequestInv, DatedRequest, TypeOK, Request
  <1>2. p \in Pending(d)
    BY <1>1 DEF Pending, Open, At
  <1>3. Cardinality(Pending(d)) \in Nat /\ Cardinality(Pending(d)) # 0
    BY <1>2, PendingIsFinite, FS_EmptySet
  <1>4. /\ usage[d].dailyCount = Closed(<<d, TRUE>>) + Closed(<<d, FALSE>>) + Cardinality(Pending(d))
        /\ Closed(<<d, TRUE>>) \in Nat /\ Closed(<<d, FALSE>>) \in Nat
    BY <1>1, ClosedAreNumbers DEF QuotaInv, TableInv, ChargesAreAnswers, Standing, TypeOK
  <1>5. usage[d].dailyCount > 0
    <2> HIDE DEF d
    <2>1. Cardinality(Pending(d)) > 0
      BY <1>3
    <2> QED
      BY <1>4, <2>1, <1>3
  <1> QED
    BY <1>1, <1>5 DEF QuotaInv, TableInv, Rows

LEMMA ReadToRefundKeepsInv ==
  ASSUME QuotaInv, NEW p \in Proc, ReadToRefund(p)
  PROVE  QuotaInv'
  <1> DEFINE row == usage[req[p].date]
             r == [req[p] EXCEPT !.pc = "write", !.row = GiveBack(row, req[p].usedBonus)]
  <1>1. /\ req[p].pc = "lock" /\ req[p].op = "refund" /\ Open(req[p])
        /\ req[p] \in Request /\ req[p].usedBonus \in BOOLEAN
    BY DEF ReadToRefund, At, Open, QuotaInv, TypeOK, Request
  <1>2. /\ req[p].rowDay = req[p].date /\ req[p].date \in Day /\ row.exists /\ row.dailyCount > 0
    BY <1>1, OpenIsCounted
  <1>3. row \in Usage
    BY <1>2 DEF QuotaInv, TypeOK
  <1>4. req' = [req EXCEPT ![p] = r]
    BY <1>2 DEF ReadToRefund
  <1>5. r \in Request /\ r.pc = "write" /\ r.op = "refund" /\ r.date = req[p].date
        /\ r.rowDay = req[p].rowDay /\ r.usedBonus = req[p].usedBonus
    BY <1>1, <1>2, <1>3, RowsAreRows DEF Request
  <1>6. DatedRequest(r) /\ Open(r) /\ SoundRequest(r)
    BY <1>1, <1>2, <1>5 DEF DatedRequest, Open, Request, SoundRequest
  <1> QED
    BY <1>1, <1>4, <1>5, <1>6, RequestMoves DEF ReadToRefund

\* refundOnce, and the progress of an answer: the question stays charged.
LEMMA OpenKeepsInv ==
  ASSUME QuotaInv, NEW p \in Proc, Open(req[p]), NEW r \in Request,
         req' = [req EXCEPT ![p] = r],
         UNCHANGED <<today, usage, answered, unrefunded>>,
         (r.pc = "lock" /\ r.op = "refund") \/ (r.pc = "streaming" /\ r.op = "ask"),
         r.date = req[p].date, r.rowDay = req[p].rowDay, r.usedBonus = req[p].usedBonus
  PROVE  QuotaInv'
  <1>1. req[p].rowDay = req[p].date
    BY OpenIsCounted
  <1>2. DatedRequest(r) /\ Open(r) /\ SoundRequest(r) /\ r.pc # "write"
    BY <1>1 DEF DatedRequest, Open, SoundRequest
  <1> QED
    BY <1>2, RequestMoves

LEMMA RefundKeepsInv ==
  ASSUME QuotaInv, NEW p \in Proc, req[p].pc \in {"asked", "streaming"}, Refund(p),
         UNCHANGED <<today, usage, answered, unrefunded>>
  PROVE  QuotaInv'
  <1> DEFINE r == [req[p] EXCEPT !.op = "refund", !.pc = "lock"]
  <1>1. req[p] \in Request /\ Open(req[p]) /\ req' = [req EXCEPT ![p] = r]
    BY DEF QuotaInv, TypeOK, Open, Refund
  <1>2. /\ r \in Request /\ r.pc = "lock" /\ r.op = "refund"
        /\ r.date = req[p].date /\ r.rowDay = req[p].rowDay /\ r.usedBonus = req[p].usedBonus
    BY <1>1 DEF Request
  <1> QED
    BY <1>1, <1>2, OpenKeepsInv

LEMMA StreamKeepsInv ==
  ASSUME QuotaInv, NEW p \in Proc, StreamStarts(p) \/ Chunk(p)
  PROVE  QuotaInv'
  <1>1. req[p] \in Request /\ Open(req[p]) /\ req[p].op = "ask"
        /\ UNCHANGED <<today, usage, answered, unrefunded>>
    BY DEF QuotaInv, TypeOK, Open, StreamStarts, Chunk, At, RequestInv, DatedRequest
  <1>2. CASE StreamStarts(p)
    <2> DEFINE r == [req[p] EXCEPT !.pc = "streaming"]
    <2>1. /\ r \in Request /\ r.pc = "streaming" /\ r.op = "ask"
          /\ r.date = req[p].date /\ r.rowDay = req[p].rowDay
          /\ r.usedBonus = req[p].usedBonus /\ req' = [req EXCEPT ![p] = r]
      BY <1>1, <1>2 DEF Request, StreamStarts
    <2> QED
      BY <1>1, <2>1, OpenKeepsInv
  <1>3. CASE Chunk(p)
    <2>1. PICK field \in {"content", "error"} : req' = [req EXCEPT ![p][field] = TRUE]
      BY <1>3 DEF Chunk
    <2> DEFINE r == [req[p] EXCEPT ![field] = TRUE]
    <2>2. /\ r \in Request /\ r.pc = "streaming" /\ r.op = "ask"
          /\ r.date = req[p].date /\ r.rowDay = req[p].rowDay
          /\ r.usedBonus = req[p].usedBonus /\ req' = [req EXCEPT ![p] = r]
      BY <1>1, <1>3, <2>1 DEF Request, Chunk, At
    <2> QED
      BY <1>1, <2>2, OpenKeepsInv
  <1> QED
    BY <1>2, <1>3

\* An open question that is over counts where it was pending, as answered or as
\* not given back.
LEMMA ClosingKeepsInv ==
  ASSUME QuotaInv, NEW p \in Proc, Open(req[p]), Finish(p),
         \/ /\ answered' = [answered EXCEPT ![<<req[p].rowDay, req[p].usedBonus>>] = @ + 1]
            /\ unrefunded' = unrefunded
         \/ /\ unrefunded' = [unrefunded EXCEPT ![<<req[p].rowDay, req[p].usedBonus>>] = @ + 1]
            /\ answered' = answered,
         UNCHANGED <<today, usage>>
  PROVE  QuotaInv'
  <1> DEFINE c == <<req[p].rowDay, req[p].usedBonus>>
  <1>1. TypeOK /\ req[p] \in Request /\ Open(req[p]) /\ c \in Day \X BOOLEAN
    BY DEF QuotaInv, TypeOK, Request
  <1>2. req' = [req EXCEPT ![p] = Idle] /\ Idle \in Request /\ ~Open(Idle)
        /\ DatedRequest(Idle) /\ SoundRequest(Idle) /\ Idle.pc = "idle"
    BY IdleIsSound DEF Finish, Idle
  <1>3. /\ answered[c] + 1 \in Nat /\ unrefunded[c] + 1 \in Nat
        /\ \/ /\ answered' = [answered EXCEPT ![c] = answered[c] + 1]
              /\ unrefunded' = unrefunded
           \/ /\ unrefunded' = [unrefunded EXCEPT ![c] = unrefunded[c] + 1]
              /\ answered' = answered
    BY <1>1 DEF TypeOK
  <1>4. TypeOK'
    BY <1>1, <1>2, <1>3 DEF TypeOK
  <1>5. RequestInv'
    <2>1. \A q \in Proc : req'[q] = IF q = p THEN Idle ELSE req[q]
      BY <1>1, <1>2 DEF TypeOK
    <2>2. \A m : MonthlyUsed(m)' = MonthlyUsed(m)
      BY DEF MonthlyUsed, DailyCounts
    <2>3. \A q \in Proc : DatedRequest(req[q])' /\ SoundRequest(req[q])'
      BY <1>2, <2>1, <2>2 DEF QuotaInv, RequestInv, DatedRequest, SoundRequest
    <2>4. Apart'
      BY <1>2, <2>1 DEF QuotaInv, RequestInv, Apart, At
    <2> QED
      BY <2>3, <2>4 DEF RequestInv
  <1>6. ASSUME NEW d \in Day
        PROVE  /\ usage'[d].dailyCount = Standing(d)'
               /\ usage'[d].bonusRemaining + Closed(<<d, TRUE>>)'
                    + Cardinality(PendingWithBonus(d))'
                    = BonusAmount * usage'[d].bonusUsedToday
    <2> DEFINE t == Closed(<<d, TRUE>>)              t1 == Closed(<<d, TRUE>>)'
               f == Closed(<<d, FALSE>>)             f1 == Closed(<<d, FALSE>>)'
               n == Cardinality(Pending(d))      n1 == Cardinality(Pending(d))'
               b == Cardinality(PendingWithBonus(d))
               b1 == Cardinality(PendingWithBonus(d))'
               here == req[p].rowDay = d         bonus == req[p].usedBonus
    <2>1. /\ here => n = n1 + 1
          /\ ~here => n1 = n
          /\ here /\ bonus => b = b1 + 1
          /\ ~(here /\ bonus) => b1 = b
      BY <1>1, <1>2, PendingShrinks
    <2>2. n \in Nat /\ n1 \in Nat /\ b \in Nat /\ b1 \in Nat
      <3>1. IsFiniteSet(Pending(d)') /\ IsFiniteSet(PendingWithBonus(d)')
        BY QuotaConstants, FS_Subset DEF Pending, PendingWithBonus
      <3> QED
        BY <3>1, PendingIsFinite, FS_CardinalityType
    <2>3. t \in Nat /\ f \in Nat
      BY <1>1, ClosedAreNumbers
    <2>4. /\ here /\ bonus => t1 = t + 1 /\ f1 = f
          /\ here /\ ~bonus => t1 = t /\ f1 = f + 1
          /\ ~here => t1 = t /\ f1 = f
      <3>1. bonus \in BOOLEAN /\ answered \in [Day \X BOOLEAN -> Nat]
            /\ unrefunded \in [Day \X BOOLEAN -> Nat]
        BY <1>1 DEF TypeOK, Request
      <3>2. ASSUME NEW k \in Day \X BOOLEAN
            PROVE  /\ k = c => Closed(k)' = Closed(k) + 1
                   /\ k # c => Closed(k)' = Closed(k)
        <4>1. answered[k] \in Nat /\ unrefunded[k] \in Nat
          BY <3>1
        <4>2. \/ /\ answered' = [answered EXCEPT ![c] = answered[c] + 1]
                 /\ unrefunded' = unrefunded
              \/ /\ unrefunded' = [unrefunded EXCEPT ![c] = unrefunded[c] + 1]
                 /\ answered' = answered
          BY <1>3
        <4> HIDE DEF c
        <4>3. CASE answered' = [answered EXCEPT ![c] = answered[c] + 1] /\ unrefunded' = unrefunded
          <5>1. answered'[k] = IF k = c THEN answered[k] + 1 ELSE answered[k]
            BY <3>1, <4>3
          <5> QED
            BY <4>1, <4>3, <5>1 DEF Closed
        <4>4. CASE unrefunded' = [unrefunded EXCEPT ![c] = unrefunded[c] + 1] /\ answered' = answered
          <5>1. unrefunded'[k] = IF k = c THEN unrefunded[k] + 1 ELSE unrefunded[k]
            BY <3>1, <4>4
          <5> QED
            BY <4>1, <4>4, <5>1 DEF Closed
        <4> QED
          BY <4>2, <4>3, <4>4
      <3>3. <<d, TRUE>> \in Day \X BOOLEAN /\ <<d, FALSE>> \in Day \X BOOLEAN
        OBVIOUS
      <3>4. /\ <<d, TRUE>> = c <=> here /\ bonus
            /\ <<d, FALSE>> = c <=> here /\ ~bonus
        BY <3>1, Zenon
      <3> QED
        BY <3>2, <3>3, <3>4
    <2>5. /\ usage[d].dailyCount = t + f + n /\ usage' = usage
          /\ usage[d].bonusRemaining + t + b = BonusAmount * usage[d].bonusUsedToday
          /\ usage[d].bonusRemaining \in Nat
      BY <1>1 DEF QuotaInv, TableInv, ChargesAreAnswers, Standing, BonusIsConserved,
                  TypeOK, Usage
    <2>6. t1 + f1 + n1 = t + f + n
          /\ usage[d].bonusRemaining + t1 + b1 = usage[d].bonusRemaining + t + b
      <3> DEFINE left == usage[d].bonusRemaining
      <3>1. left \in Nat
        BY <2>5
      <3> HIDE DEF t, f, n, b, t1, f1, n1, b1, here, bonus, left
      <3>2. t1 + f1 + n1 = t + f + n
        BY <2>1, <2>2, <2>3, <2>4
      <3>3. left + t1 + b1 = left + t + b
        BY <2>1, <2>2, <2>3, <2>4, <3>1
      <3> QED
        BY <3>2, <3>3 DEF left
    <2> QED
      BY <2>5, <2>6 DEF Standing
  <1>7. ChargesAreAnswers' /\ BonusIsConserved'
    BY <1>6 DEF ChargesAreAnswers, BonusIsConserved
  <1>8. Rows' /\ WithinLimits'
    BY DEF QuotaInv, TableInv, Rows, WithinLimits, MonthlyUsed, DailyCounts
  <1> QED
    BY <1>4, <1>5, <1>7, <1>8 DEF QuotaInv, TableInv

LEMMA CheckQuotaKeepsInv ==
  ASSUME QuotaInv, CheckQuota
  PROVE  QuotaInv'
  <1>1. /\ TypeOK /\ today \in Day /\ ~usage[today].exists /\ ~RowBeingCreated
        /\ usage' = [usage EXCEPT ![today].exists = TRUE]
        /\ today' = today /\ req' = req /\ answered' = answered /\ unrefunded' = unrefunded
    BY DEF CheckQuota, QuotaInv, TypeOK
  <1>2. TypeOK'
    BY <1>1 DEF TypeOK, Usage
  <1>3. \A d \in Day : /\ usage'[d].dailyCount = usage[d].dailyCount
                       /\ usage'[d].bonusRemaining = usage[d].bonusRemaining
                       /\ usage'[d].bonusUsedToday = usage[d].bonusUsedToday
                       /\ usage[d].exists => usage'[d].exists
                       /\ d # today => usage'[d] = usage[d]
    BY <1>1 DEF TypeOK, Usage
  <1>4. \A m : MonthlyUsed(m)' = MonthlyUsed(m)
    BY <1>3 DEF MonthlyUsed, DailyCounts
  <1>5. ASSUME NEW p \in Proc
        PROVE  DatedRequest(req[p])' /\ SoundRequest(req[p])'
    <2>1. DatedRequest(req[p]) /\ SoundRequest(req[p]) /\ req[p] \in Request
      BY <1>1 DEF QuotaInv, RequestInv, TypeOK
    <2>2. DatedRequest(req[p])'
      BY <1>1, <2>1 DEF DatedRequest
    <2>3. req[p].pc = "write" => usage'[req[p].date] = usage[req[p].date]
      <3>1. CASE req[p].op = "refund"
        BY <1>1, <1>3, <2>1, <3>1 DEF SoundRequest, Request
      <3>2. CASE req[p].op # "refund"
        BY <1>1, <1>3, <2>1, <3>2 DEF RowBeingCreated, DatedRequest, At, Request
      <3> QED
        BY <3>1, <3>2
    <2> QED
      BY <1>1, <1>4, <2>1, <2>2, <2>3 DEF SoundRequest, DailyExceeded
  <1>6. Apart'
    BY <1>1 DEF QuotaInv, RequestInv, Apart, At
  <1>7. \A d \in Day : Pending(d)' = Pending(d) /\ PendingWithBonus(d)' = PendingWithBonus(d)
    BY <1>1 DEF Pending, PendingWithBonus, At
  <1>8. Rows' /\ WithinLimits'
    BY <1>3, <1>4 DEF QuotaInv, TableInv, Rows, WithinLimits
  <1>9. ChargesAreAnswers' /\ BonusIsConserved'
    <2>1. answered' = answered /\ unrefunded' = unrefunded
      BY <1>1
    <2>2. \A d \in Day : Standing(d)' = Standing(d)
      BY <1>7, <2>1 DEF Standing, Closed
    <2> QED
      BY <1>3, <1>7, <2>1, <2>2 DEF QuotaInv, TableInv, ChargesAreAnswers, BonusIsConserved,
                                    Closed
  <1> QED
    BY <1>2, <1>5, <1>6, <1>8, <1>9 DEF QuotaInv, RequestInv, TableInv

\* Nobody waits with yesterday's date.
LEMMA MidnightKeepsInv ==
  ASSUME QuotaInv, Midnight, "straddle" \notin Ops
  PROVE  QuotaInv'
  <1>1. /\ today' = today + 1 /\ today < LastDay /\ TypeOK
        /\ usage' = usage /\ req' = req
        /\ answered' = answered /\ unrefunded' = unrefunded
        /\ \A p \in Proc : req[p].pc = "lock" => req[p].op = "refund"
    BY DEF Midnight, QuotaInv, At
  <1>2. TypeOK'
    BY <1>1, QuotaConstants DEF TypeOK, Day
  <1>3. \A m : MonthlyUsed(m)' = MonthlyUsed(m)
    BY <1>1 DEF MonthlyUsed, DailyCounts
  <1>4. \A p \in Proc : DatedRequest(req[p])' /\ SoundRequest(req[p])'
    BY <1>1, <1>3 DEF QuotaInv, RequestInv, DatedRequest, SoundRequest
  <1>5. Apart'
    BY <1>1 DEF QuotaInv, RequestInv, Apart, At
  <1>6. \A d \in Day : Pending(d)' = Pending(d) /\ PendingWithBonus(d)' = PendingWithBonus(d)
    BY <1>1 DEF Pending, PendingWithBonus, At
  <1>7. Rows' /\ ChargesAreAnswers' /\ BonusIsConserved' /\ WithinLimits'
    BY <1>1, <1>3, <1>6 DEF QuotaInv, TableInv, Rows, ChargesAreAnswers, Standing, Closed,
                            BonusIsConserved, WithinLimits
  <1> QED
    BY <1>2, <1>4, <1>5, <1>7 DEF QuotaInv, RequestInv, TableInv

-----------------------------------------------------------------------------
(* The write, which commits what was read under the same lock.             *)

LEMMA CountsOfRows ==
  ASSUME TypeOK, Rows
  PROVE  /\ DailyCounts \in [Day -> Nat]
         /\ \A d \in Day : DailyCounts[d] = usage[d].dailyCount /\ DailyCounts[d] <= MaxQuestions
         /\ \A m : MonthlyUsed(m) \in Nat
  <1>1. /\ DailyCounts \in [Day -> Nat]
        /\ \A d \in Day : DailyCounts[d] = usage[d].dailyCount /\ DailyCounts[d] <= MaxQuestions
    BY DEF TypeOK, Usage, DailyCounts, Rows
  <1> QED
    BY <1>1, QuestionsAreFinite DEF MonthlyUsed

\* The request that writes lets go of the lock, and nobody else has read a row
\* or a sum of this month.
LEMMA WriteKeepsRequests ==
  ASSUME QuotaInv, NEW p \in Proc, req[p].pc = "write",
         NEW row \in Usage, usage' = [usage EXCEPT ![req[p].date] = row],
         NEW r \in Request, req' = [req EXCEPT ![p] = r], DatedRequest(r), r.pc # "write",
         today' = today, answered' = answered, unrefunded' = unrefunded
  PROVE  TypeOK' /\ RequestInv'
  <1> DEFINE d == req[p].date
  <1>1. TypeOK /\ d \in Day
    BY DEF QuotaInv, TypeOK, Request
  <1>2. TypeOK'
    BY <1>1 DEF TypeOK
  <1>3. \A q \in Proc : req'[q] = IF q = p THEN r ELSE req[q]
    BY <1>1 DEF TypeOK
  <1>4. Apart'
    BY <1>3 DEF QuotaInv, RequestInv, Apart, At
  <1>5. \A q \in Proc : DatedRequest(req[q])'
    BY <1>3 DEF QuotaInv, RequestInv, DatedRequest
  <1>6. ASSUME NEW q \in Proc
        PROVE  SoundRequest(req[q])'
    <2>1. CASE req'[q].pc # "write"
      BY <2>1 DEF SoundRequest
    <2>2. CASE req'[q].pc = "write"
      <3>1. q # p /\ req'[q] = req[q] /\ req[q].pc = "write"
        BY <1>3, <2>2
      <3>2. Month(req[q].date) # Month(d)
        BY <3>1 DEF QuotaInv, RequestInv, Apart, At
      <3>3. usage'[req[q].date] = usage[req[q].date]
        BY <1>1, <3>2 DEF TypeOK
      <3>4. MonthlyUsed(Month(req[q].date))' = MonthlyUsed(Month(req[q].date))
        <4> DEFINE m == Month(req[q].date)
        <4>1. \A e \in Day : Month(e) = m => (DailyCounts[e])' = DailyCounts[e]
          BY <1>1, <3>2 DEF TypeOK, DailyCounts
        <4>2. Questions(DailyCounts', m) = Questions(DailyCounts, m)
          BY <4>1, OtherMonths
        <4> QED
          BY <3>1, <4>2 DEF MonthlyUsed, Questions
      <3> QED
        BY <3>1, <3>3, <3>4 DEF QuotaInv, RequestInv, SoundRequest
    <2> QED
      BY <2>1, <2>2
  <1> QED
    BY <1>2, <1>4, <1>5, <1>6 DEF RequestInv

\* The sum of a month after a write.
LEMMA MonthsAfterWrite ==
  ASSUME TypeOK, Rows, NEW d \in Day, NEW row \in Usage,
         usage' = [usage EXCEPT ![d] = row],
         row.dailyCount <= usage[d].dailyCount + 1, row.dailyCount <= MaxQuestions
  PROVE  /\ \A m : Month(d) # m => MonthlyUsed(m)' = MonthlyUsed(m)
         /\ row.dailyCount = usage[d].dailyCount + 1 =>
              MonthlyUsed(Month(d))' <= MonthlyUsed(Month(d)) + 1
         /\ row.dailyCount <= usage[d].dailyCount =>
              \A m : MonthlyUsed(m)' <= MonthlyUsed(m)
  <1> DEFINE c == DailyCounts  n == row.dailyCount
  <1>1. /\ c \in [Day -> Nat]
        /\ \A e \in Day : c[e] = usage[e].dailyCount /\ c[e] <= MaxQuestions
    BY CountsOfRows
  <1>2. DailyCounts' = [c EXCEPT ![d] = n] /\ n \in Nat
    BY DEF TypeOK, DailyCounts, Usage
  <1>3. \A m : /\ MonthlyUsed(m) = Cardinality(Questions(c, m))
               /\ MonthlyUsed(m)' = Cardinality(Questions([c EXCEPT ![d] = n], m))
    BY <1>2 DEF MonthlyUsed, Questions
  <1> HIDE DEF c, n
  <1>4. ASSUME NEW m, Month(d) # m
        PROVE  MonthlyUsed(m)' = MonthlyUsed(m)
    <2>1. \A e \in Day : Month(e) = m => [c EXCEPT ![d] = n][e] = c[e]
      BY <1>1, <1>4
    <2>2. Questions([c EXCEPT ![d] = n], m) = Questions(c, m)
      BY <2>1, OtherMonths, ZenonT(60)
    <2> QED
      BY <1>3, <2>2
  <1>5. ASSUME n = c[d] + 1
        PROVE  MonthlyUsed(Month(d))' <= MonthlyUsed(Month(d)) + 1
    BY <1>1, <1>3, <1>5, OneMoreQuestion
  <1>6. ASSUME n <= c[d], NEW m
        PROVE  MonthlyUsed(m)' <= MonthlyUsed(m)
    <2>1. [c EXCEPT ![d] = n] \in [Day -> Nat]
      BY <1>1, <1>2
    <2>2. \A e \in Day : c[e] <= MaxQuestions /\ [c EXCEPT ![d] = n][e] <= c[e]
      BY <1>1, <1>2, <1>6
    <2> QED
      BY <1>1, <1>3, <2>1, <2>2, FewerQuestions
  <1> QED
    BY <1>1, <1>4, <1>5, <1>6 DEF n

LEMMA WriteFacts ==
  ASSUME QuotaInv, NEW p \in Proc, Write(p)
  PROVE  /\ TypeOK /\ req[p] \in Request /\ req[p].date \in Day /\ req[p].row \in Usage
         /\ req[p].pc = "write" /\ req[p].op \in {"ask", "bonus", "refund"}
         /\ req[p].rowDay = req[p].date /\ usage[req[p].date] \in Usage
         /\ usage' = [usage EXCEPT ![req[p].date] = req[p].row]
         /\ today' = today
         /\ answered' = answered /\ unrefunded' = unrefunded
  <1>1. /\ TypeOK /\ req[p] \in Request /\ req[p].pc = "write" /\ DatedRequest(req[p])
        /\ usage' = [usage EXCEPT ![RowWritten(p)] = req[p].row]
        /\ today' = today
        /\ answered' = answered /\ unrefunded' = unrefunded
    BY DEF Write, At, QuotaInv, RequestInv, TypeOK
  <1>2. req[p].rowDay = req[p].date /\ req[p].op \in {"ask", "bonus", "refund"}
    BY <1>1 DEF DatedRequest, Request
  <1>3. RowWritten(p) = req[p].date
    BY <1>2 DEF RowWritten
  <1> QED
    BY <1>1, <1>2, <1>3 DEF Request, TypeOK

\* The counters and limits of every day follow from those of the row written.
LEMMA TableFollows ==
  ASSUME QuotaInv, NEW p \in Proc, Write(p),
         NEW d \in Day, d = req[p].date, NEW row \in Usage, row = req[p].row,
         row.dailyCount <= MaxQuestions, row.exists,
         row.dailyCount <= DailyLimit + BonusAmount * row.bonusUsedToday,
         row.dailyCount = Standing(d)',
         row.bonusRemaining + Closed(<<d, TRUE>>) + Cardinality(PendingWithBonus(d))'
           = BonusAmount * row.bonusUsedToday,
         \A e \in Day \ {d} :
           /\ Cardinality(Pending(e))' = Cardinality(Pending(e))
           /\ Cardinality(PendingWithBonus(e))' = Cardinality(PendingWithBonus(e)),
         \A m \in Months : MonthlyUsed(m)' <= MonthlyLimit
  PROVE  TableInv'
  <1>1. /\ d \in Day /\ answered' = answered /\ unrefunded' = unrefunded /\ TypeOK
        /\ usage' = [usage EXCEPT ![d] = row]
    BY WriteFacts
  <1>2. usage'[d] = row /\ \A e \in Day \ {d} : usage'[e] = usage[e]
    BY <1>1 DEF TypeOK
  <1>3. \A e \in Day \ {d} : Standing(e)' = Standing(e)
    BY <1>1 DEF Standing, Closed
  <1>4. ASSUME NEW e \in Day
        PROVE  /\ usage'[e].dailyCount <= MaxQuestions
               /\ usage'[e].dailyCount > 0 => usage'[e].exists
               /\ usage'[e].dailyCount <= DailyLimit + BonusAmount * usage'[e].bonusUsedToday
               /\ usage'[e].dailyCount = Standing(e)'
               /\ usage'[e].bonusRemaining + Closed(<<e, TRUE>>)'
                    + Cardinality(PendingWithBonus(e))'
                    = BonusAmount * usage'[e].bonusUsedToday
    <2>1. CASE e = d
      <3>1. /\ Standing(e)' = Standing(d)'
            /\ Cardinality(PendingWithBonus(e))' = Cardinality(PendingWithBonus(d))'
        BY <2>1 DEF Standing, Closed, PendingWithBonus, Pending, At
      <3>2. usage'[e] = row /\ Closed(<<e, TRUE>>)' = Closed(<<d, TRUE>>)
        BY <1>1, <1>2, <2>1 DEF Closed
      <3> QED
        BY <3>1, <3>2
    <2>2. CASE e # d
      <3>1. usage'[e] = usage[e] /\ Standing(e)' = Standing(e)
            /\ Cardinality(PendingWithBonus(e))' = Cardinality(PendingWithBonus(e))
            /\ Closed(<<e, TRUE>>)' = Closed(<<e, TRUE>>)
        BY <1>1, <1>2, <1>3, <2>2 DEF Closed
      <3> QED
        BY <3>1 DEF QuotaInv, TableInv, Rows, WithinLimits, ChargesAreAnswers, BonusIsConserved
    <2> QED
      BY <2>1, <2>2
  <1>5. Rows' /\ ChargesAreAnswers' /\ BonusIsConserved'
    BY <1>4 DEF Rows, ChargesAreAnswers, BonusIsConserved
  <1>6. WithinLimits'
    BY <1>4 DEF WithinLimits
  <1> QED
    BY <1>5, <1>6 DEF TableInv

LEMMA PendingCountsAreNumbers ==
  ASSUME NEW d
  PROVE  Cardinality(Pending(d))' \in Nat /\ Cardinality(PendingWithBonus(d))' \in Nat
  <1>1. IsFiniteSet(Pending(d)') /\ IsFiniteSet(PendingWithBonus(d)')
    BY QuotaConstants, FS_Subset DEF Pending, PendingWithBonus
  <1> QED
    BY <1>1, FS_CardinalityType

\* A charge becomes a question that is pending.
LEMMA WriteChargeKeepsInv ==
  ASSUME QuotaInv, NEW p \in Proc, Write(p), req[p].op = "ask"
  PROVE  QuotaInv'
  <1>0. PICK d \in Day, row \in Usage : d = req[p].date /\ row = req[p].row
    BY WriteFacts
  <1> DEFINE u == usage[d]
             r == [req[p] EXCEPT !.pc = "asked", !.row = NoUsage]
             t == Closed(<<d, TRUE>>)            f == Closed(<<d, FALSE>>)
             n == Cardinality(Pending(d))    n1 == Cardinality(Pending(d))'
             b == Cardinality(PendingWithBonus(d))
             b1 == Cardinality(PendingWithBonus(d))'
  <1>1. /\ TypeOK /\ req[p] \in Request /\ d \in Day /\ row \in Usage /\ u \in Usage
        /\ req[p].pc = "write" /\ req[p].rowDay = d
        /\ usage' = [usage EXCEPT ![d] = row] /\ today' = today
        /\ answered' = answered /\ unrefunded' = unrefunded
    BY <1>0, WriteFacts
  <1>2. /\ row = Charge(u) /\ req[p].usedBonus = UseBonus(u)
        /\ u.dailyCount < DailyLimit + u.bonusRemaining /\ u.dailyCount < MaxQuestions
        /\ MonthlyUsed(Month(d)) < MonthlyLimit
    <2>1. /\ row = Charge(u) /\ req[p].usedBonus = UseBonus(u)
          /\ ~DailyExceeded(u) /\ u.dailyCount < MaxQuestions
          /\ MonthlyUsed(Month(d)) < MonthlyLimit
      BY <1>0, <1>1 DEF QuotaInv, RequestInv, SoundRequest
    <2>2. u.dailyCount \in Nat /\ u.bonusRemaining \in Nat
      BY <1>1 DEF Usage
    <2> QED
      BY <2>1, <2>2, QuotaConstants DEF DailyExceeded
  <1>3. /\ r \in Request /\ r.pc = "asked" /\ r.op = "ask" /\ r.rowDay = d /\ r.date = d
        /\ r.usedBonus = req[p].usedBonus
        /\ req' = [req EXCEPT ![p] = r] /\ DatedRequest(r) /\ Open(r) /\ ~Open(req[p])
    <2>1. NoUsage \in Usage
      BY DEF NoUsage, Usage
    <2>2. r \in Request /\ r.pc = "asked" /\ r.op = "ask" /\ r.rowDay = d /\ r.date = d
          /\ r.usedBonus = req[p].usedBonus
      BY <1>0, <1>1, <2>1 DEF Request
    <2> QED
      BY <1>1, <2>2 DEF DatedRequest, Open, Write
  <1>4. TypeOK' /\ RequestInv'
    BY <1>0, <1>1, <1>3, WriteKeepsRequests
  <1>5. /\ u.dailyCount \in Nat /\ u.bonusRemaining \in Nat /\ u.bonusUsedToday \in Nat
        /\ t \in Nat /\ f \in Nat /\ n \in Nat /\ b \in Nat /\ n1 \in Nat /\ b1 \in Nat
    BY <1>1, PendingIsFinite, PendingCountsAreNumbers, ClosedAreNumbers DEF Usage, TypeOK
  <1>6. /\ row.exists /\ row.dailyCount = u.dailyCount + 1
        /\ row.bonusUsedToday = u.bonusUsedToday
        /\ req[p].usedBonus => row.bonusRemaining = u.bonusRemaining - 1
        /\ ~req[p].usedBonus => row.bonusRemaining = u.bonusRemaining
    BY <1>1, <1>2 DEF Charge, Usage
  <1>7. /\ n1 = n + 1
        /\ req[p].usedBonus => b1 = b + 1
        /\ ~req[p].usedBonus => b1 = b
        /\ \A e \in Day \ {d} :
             /\ Cardinality(Pending(e))' = Cardinality(Pending(e))
             /\ Cardinality(PendingWithBonus(e))' = Cardinality(PendingWithBonus(e))
    <2> HIDE DEF r
    <2> QED
      BY <1>1, <1>3, PendingGrows
  <1>8. /\ u.dailyCount = t + f + n
        /\ u.bonusRemaining + t + b = BonusAmount * u.bonusUsedToday
    BY <1>1 DEF QuotaInv, TableInv, ChargesAreAnswers, Standing, BonusIsConserved
  <1>9. /\ row.dailyCount = t + f + n1
        /\ row.bonusRemaining + t + b1 = u.bonusRemaining + t + b
        /\ row.dailyCount <= DailyLimit + (u.bonusRemaining + t + b)
        /\ row.dailyCount <= MaxQuestions
    <2> HIDE DEF u, r, t, f, n, n1, b, b1
    <2>1. row.dailyCount = t + f + n1 /\ row.dailyCount <= MaxQuestions
      BY <1>2, <1>5, <1>6, <1>7, <1>8, QuotaConstants
    <2>2. row.bonusRemaining + t + b1 = u.bonusRemaining + t + b
      BY <1>5, <1>6, <1>7
    <2>3. row.dailyCount <= DailyLimit + (u.bonusRemaining + t + b)
      BY <1>2, <1>5, <1>6, QuotaConstants
    <2> QED
      BY <2>1, <2>2, <2>3
  <1>10. Standing(d)' = t + f + n1
    BY <1>1 DEF Standing, Closed
  <1>11. ASSUME NEW m \in Months
         PROVE  MonthlyUsed(m)' <= MonthlyLimit
    <2>1. /\ Month(d) # m => MonthlyUsed(m)' = MonthlyUsed(m)
          /\ MonthlyUsed(Month(d))' <= MonthlyUsed(Month(d)) + 1
      <3>1. /\ TypeOK /\ Rows /\ usage' = [usage EXCEPT ![d] = row]
            /\ row.dailyCount = usage[d].dailyCount + 1
            /\ row.dailyCount <= usage[d].dailyCount + 1 /\ row.dailyCount <= MaxQuestions
        BY <1>1, <1>5, <1>6, <1>9 DEF QuotaInv, TableInv
      <3> QED
        BY <3>1, MonthsAfterWrite
    <2>2. MonthlyUsed(m) <= MonthlyLimit /\ MonthlyUsed(Month(d)) \in Nat
      BY <1>1, CountsOfRows DEF QuotaInv, TableInv, WithinLimits
    <2>3. MonthlyUsed(m)' \in Nat
      <3>1. DailyCounts' \in [Day -> Nat] /\ \A e \in Day : DailyCounts'[e] <= MaxQuestions
        BY <1>1, <1>4, <1>9 DEF DailyCounts, TypeOK, Usage, QuotaInv, TableInv, Rows
      <3>2. Cardinality(Questions(DailyCounts', m)) \in Nat
        BY <3>1, QuestionsAreFinite
      <3> QED
        BY <3>2 DEF MonthlyUsed, Questions
    <2>4. CASE Month(d) = m
      BY <1>2, <2>1, <2>2, <2>3, <2>4, QuotaConstants
    <2>5. CASE Month(d) # m
      BY <2>1, <2>2, <2>5
    <2> QED
      BY <2>4, <2>5
  <1>12. TableInv'
    BY <1>0, <1>1, <1>6, <1>7, <1>8, <1>9, <1>10, <1>11, TableFollows
  <1> QED
    BY <1>4, <1>12 DEF QuotaInv

\* A question given back is no longer pending.
LEMMA WriteRefundKeepsInv ==
  ASSUME QuotaInv, NEW p \in Proc, Write(p), req[p].op = "refund"
  PROVE  QuotaInv'
  <1>0. PICK d \in Day, row \in Usage : d = req[p].date /\ row = req[p].row
    BY WriteFacts
  <1> DEFINE u == usage[d]
             t == Closed(<<d, TRUE>>)            f == Closed(<<d, FALSE>>)
             n == Cardinality(Pending(d))    n1 == Cardinality(Pending(d))'
             b == Cardinality(PendingWithBonus(d))
             b1 == Cardinality(PendingWithBonus(d))'
  <1>1. /\ TypeOK /\ req[p] \in Request /\ u \in Usage
        /\ req[p].pc = "write" /\ req[p].rowDay = d /\ Open(req[p])
        /\ usage' = [usage EXCEPT ![d] = row] /\ today' = today
        /\ answered' = answered /\ unrefunded' = unrefunded
    BY <1>0, WriteFacts DEF Open
  <1>2. u.exists /\ u.dailyCount > 0 /\ row = GiveBack(u, req[p].usedBonus)
    BY <1>0, <1>1 DEF QuotaInv, RequestInv, SoundRequest
  <1>3. /\ Idle \in Request /\ Idle.pc # "write" /\ DatedRequest(Idle) /\ ~Open(Idle)
        /\ req' = [req EXCEPT ![p] = Idle]
    BY IdleIsSound DEF Idle, Write
  <1>4. TypeOK' /\ RequestInv'
    BY <1>0, <1>1, <1>3, WriteKeepsRequests
  <1>5. /\ u.dailyCount \in Nat /\ u.bonusRemaining \in Nat /\ u.bonusUsedToday \in Nat
        /\ t \in Nat /\ f \in Nat /\ n \in Nat /\ b \in Nat /\ n1 \in Nat /\ b1 \in Nat
    BY <1>1, PendingIsFinite, PendingCountsAreNumbers, ClosedAreNumbers DEF Usage, TypeOK
  <1>6. /\ row.exists /\ row.dailyCount = u.dailyCount - 1
        /\ row.bonusUsedToday = u.bonusUsedToday
        /\ req[p].usedBonus => row.bonusRemaining = u.bonusRemaining + 1
        /\ ~req[p].usedBonus => row.bonusRemaining = u.bonusRemaining
    BY <1>1, <1>2 DEF GiveBack, Usage
  <1>7. /\ n = n1 + 1
        /\ req[p].usedBonus => b = b1 + 1
        /\ ~req[p].usedBonus => b1 = b
        /\ \A e \in Day \ {d} :
             /\ Cardinality(Pending(e))' = Cardinality(Pending(e))
             /\ Cardinality(PendingWithBonus(e))' = Cardinality(PendingWithBonus(e))
    BY <1>1, <1>3, PendingShrinks
  <1>8. /\ u.dailyCount = t + f + n
        /\ u.bonusRemaining + t + b = BonusAmount * u.bonusUsedToday
    BY <1>1 DEF QuotaInv, TableInv, ChargesAreAnswers, Standing, BonusIsConserved
  <1>9. /\ row.dailyCount = t + f + n1
        /\ row.bonusRemaining + t + b1 = u.bonusRemaining + t + b
        /\ row.dailyCount <= u.dailyCount
    <2> HIDE DEF u, t, f, n, n1, b, b1
    <2>1. row.dailyCount = t + f + n1 /\ row.dailyCount <= u.dailyCount
      BY <1>5, <1>6, <1>7, <1>8
    <2>2. row.bonusRemaining + t + b1 = u.bonusRemaining + t + b
      BY <1>5, <1>6, <1>7
    <2> QED
      BY <2>1, <2>2
  <1>10. Standing(d)' = t + f + n1
    BY <1>1 DEF Standing, Closed
  <1>11. /\ row.dailyCount <= MaxQuestions /\ row.dailyCount \in Nat
         /\ row.dailyCount <= DailyLimit + BonusAmount * row.bonusUsedToday
    <2>1. /\ u.dailyCount <= MaxQuestions
          /\ u.dailyCount <= DailyLimit + BonusAmount * u.bonusUsedToday
      BY DEF QuotaInv, TableInv, Rows, WithinLimits
    <2>2. row.dailyCount \in Nat /\ BonusAmount * u.bonusUsedToday \in Nat
          /\ BonusAmount * row.bonusUsedToday = BonusAmount * u.bonusUsedToday
      BY <1>0, <1>5, <1>6, QuotaConstants DEF Usage
    <2> HIDE DEF u
    <2> QED
      BY <1>5, <1>9, <2>1, <2>2, QuotaConstants
  <1>12. ASSUME NEW m \in Months
         PROVE  MonthlyUsed(m)' <= MonthlyLimit
    <2>1. /\ TypeOK /\ Rows /\ usage' = [usage EXCEPT ![d] = row]
          /\ row.dailyCount <= usage[d].dailyCount
          /\ row.dailyCount <= usage[d].dailyCount + 1 /\ row.dailyCount <= MaxQuestions
      BY <1>1, <1>5, <1>9, <1>11 DEF QuotaInv, TableInv
    <2>2. MonthlyUsed(m)' <= MonthlyUsed(m)
      BY <2>1, MonthsAfterWrite
    <2>3. MonthlyUsed(m) <= MonthlyLimit /\ MonthlyUsed(m) \in Nat
      BY <1>1, CountsOfRows DEF QuotaInv, TableInv, WithinLimits
    <2>4. MonthlyUsed(m)' \in Nat
      <3>1. DailyCounts' \in [Day -> Nat] /\ \A e \in Day : DailyCounts'[e] <= MaxQuestions
        BY <1>1, <1>4, <1>11 DEF DailyCounts, TypeOK, Usage, QuotaInv, TableInv, Rows
      <3>2. Cardinality(Questions(DailyCounts', m)) \in Nat
        BY <3>1, QuestionsAreFinite
      <3> QED
        BY <3>2 DEF MonthlyUsed, Questions
    <2> QED
      BY <2>2, <2>3, <2>4, QuotaConstants
  <1>13. TableInv'
    BY <1>0, <1>1, <1>6, <1>7, <1>8, <1>9, <1>10, <1>11, <1>12, TableFollows
  <1> QED
    BY <1>4, <1>13 DEF QuotaInv

\* One press of the button grants BonusAmount questions.
LEMMA WriteBonusKeepsInv ==
  ASSUME QuotaInv, NEW p \in Proc, Write(p), req[p].op = "bonus"
  PROVE  QuotaInv'
  <1>0. PICK d \in Day, row \in Usage : d = req[p].date /\ row = req[p].row
    BY WriteFacts
  <1> DEFINE u == usage[d]
             t == Closed(<<d, TRUE>>)
             b == Cardinality(PendingWithBonus(d))
  <1>1. /\ TypeOK /\ req[p] \in Request /\ u \in Usage
        /\ req[p].pc = "write" /\ ~Open(req[p])
        /\ usage' = [usage EXCEPT ![d] = row] /\ today' = today
        /\ answered' = answered /\ unrefunded' = unrefunded
    BY <1>0, WriteFacts DEF Open
  <1>2. row = AddBonus(u)
    BY <1>0, <1>1 DEF QuotaInv, RequestInv, SoundRequest
  <1>3. /\ Idle \in Request /\ Idle.pc # "write" /\ DatedRequest(Idle) /\ ~Open(Idle)
        /\ req' = [req EXCEPT ![p] = Idle]
    BY IdleIsSound DEF Idle, Write
  <1>4. TypeOK' /\ RequestInv'
    BY <1>0, <1>1, <1>3, WriteKeepsRequests
  <1>5. /\ u.dailyCount \in Nat /\ u.bonusRemaining \in Nat /\ u.bonusUsedToday \in Nat
        /\ t \in Nat /\ b \in Nat
    BY <1>1, PendingIsFinite, ClosedAreNumbers DEF Usage, TypeOK
  <1>6. /\ row.exists /\ row.dailyCount = u.dailyCount
        /\ row.bonusUsedToday = u.bonusUsedToday + 1
        /\ row.bonusRemaining = u.bonusRemaining + BonusAmount
    BY <1>1, <1>2 DEF AddBonus, Usage
  <1>7. \A e \in Day : Pending(e)' = Pending(e) /\ PendingWithBonus(e)' = PendingWithBonus(e)
    BY <1>1, <1>3, PendingStays
  <1>8. /\ u.dailyCount = Standing(d) /\ u.dailyCount <= MaxQuestions
        /\ u.bonusRemaining + t + b = BonusAmount * u.bonusUsedToday
        /\ u.dailyCount <= DailyLimit + BonusAmount * u.bonusUsedToday
    BY <1>1 DEF QuotaInv, TableInv, ChargesAreAnswers, BonusIsConserved, Rows, WithinLimits
  <1>9. /\ row.bonusRemaining + t + b = BonusAmount * row.bonusUsedToday
        /\ row.dailyCount <= DailyLimit + BonusAmount * row.bonusUsedToday
    <2>1. /\ BonusAmount * (u.bonusUsedToday + 1) = BonusAmount * u.bonusUsedToday + BonusAmount
          /\ BonusAmount * u.bonusUsedToday \in Nat
      BY <1>5, QuotaConstants
    <2> DEFINE g == BonusAmount * u.bonusUsedToday
               g1 == BonusAmount * row.bonusUsedToday
    <2>2. g1 = g + BonusAmount /\ g \in Nat
      BY <1>6, <2>1
    <2>3. u.bonusRemaining + t + b = g /\ u.dailyCount <= DailyLimit + g
      BY <1>8
    <2> HIDE DEF u, t, b, g, g1
    <2>4. row.bonusRemaining + t + b = g1
      BY <1>5, <1>6, <2>2, <2>3, QuotaConstants
    <2>5. row.dailyCount <= DailyLimit + g1
      BY <1>5, <1>6, <2>2, <2>3, QuotaConstants
    <2> QED
      BY <2>4, <2>5 DEF g1
  <1>10. Standing(d)' = Standing(d)
    BY <1>1, <1>7 DEF Standing, Closed
  <1>11. ASSUME NEW m \in Months
         PROVE  MonthlyUsed(m)' <= MonthlyLimit
    <2>1. \A e \in Day : usage'[e].dailyCount = usage[e].dailyCount
      BY <1>1, <1>6 DEF TypeOK
    <2>2. DailyCounts' = DailyCounts
      BY <2>1 DEF DailyCounts
    <2> QED
      BY <2>2 DEF MonthlyUsed, Questions, QuotaInv, TableInv, WithinLimits
  <1>12. TableInv'
    BY <1>0, <1>1, <1>6, <1>7, <1>8, <1>9, <1>10, <1>11, TableFollows
  <1> QED
    BY <1>4, <1>12 DEF QuotaInv

-----------------------------------------------------------------------------
(* The theorems.                                                           *)

LEMMA InitInv == Init => QuotaInv
  <1> SUFFICES ASSUME Init
               PROVE  QuotaInv
    OBVIOUS
  <1>1. NoUsage \in Usage /\ 0 \in Day
    BY QuotaConstants DEF NoUsage, Usage, Day
  <1>2. TypeOK
    BY <1>1, IdleIsSound DEF Init, TypeOK
  <1>3. RequestInv
    BY IdleIsSound DEF Init, RequestInv, Apart, At, Idle
  <1>4. \A d \in Day : /\ usage[d].dailyCount = 0 /\ usage[d].bonusRemaining = 0
                       /\ usage[d].bonusUsedToday = 0
                       /\ Closed(<<d, TRUE>>) = 0 /\ Closed(<<d, FALSE>>) = 0
    <2>1. ASSUME NEW c \in Day \X BOOLEAN
          PROVE  Closed(c) = 0
      <3>1. answered[c] = 0 /\ unrefunded[c] = 0
        BY DEF Init
      <3> QED
        BY <3>1 DEF Closed
    <2> QED
      BY <2>1 DEF Init, NoUsage
  <1>5. Rows
    <2>1. ASSUME NEW d \in Day
          PROVE  /\ usage[d].dailyCount <= MaxQuestions
                 /\ usage[d].dailyCount > 0 => usage[d].exists
      <3>1. usage[d].dailyCount = 0
        BY <1>4
      <3>2. 0 <= MaxQuestions
        BY QuotaConstants
      <3>3. usage[d].dailyCount <= MaxQuestions
        BY <3>1, <3>2
      <3>4. ~(usage[d].dailyCount > 0)
        BY <3>1
      <3> QED
        BY <3>3, <3>4
    <2> QED
      BY <2>1 DEF Rows
  <1>6. \A d \in Day : Cardinality(Pending(d)) = 0 /\ Cardinality(PendingWithBonus(d)) = 0
    <2>1. \A d \in Day : Pending(d) = {} /\ PendingWithBonus(d) = {}
      BY DEF Init, Pending, PendingWithBonus, At, Idle
    <2> QED
      BY <2>1, FS_EmptySet
  <1>7. ChargesAreAnswers /\ BonusIsConserved
    <2>1. BonusAmount * 0 = 0
      BY QuotaConstants
    <2>2. ASSUME NEW d \in Day
          PROVE  /\ usage[d].dailyCount = Closed(<<d, TRUE>>) + Closed(<<d, FALSE>>)
                                            + Cardinality(Pending(d))
                 /\ usage[d].bonusRemaining + Closed(<<d, TRUE>>)
                      + Cardinality(PendingWithBonus(d))
                      = BonusAmount * usage[d].bonusUsedToday
      <3>1. /\ usage[d].dailyCount = 0 /\ usage[d].bonusRemaining = 0
            /\ usage[d].bonusUsedToday = 0
            /\ Closed(<<d, TRUE>>) = 0 /\ Closed(<<d, FALSE>>) = 0
        BY <1>4
      <3>2. Cardinality(Pending(d)) = 0 /\ Cardinality(PendingWithBonus(d)) = 0
        BY <1>6
      <3>3. BonusAmount * usage[d].bonusUsedToday = 0
        BY <2>1, <3>1
      <3> QED
        BY <3>1, <3>2, <3>3
    <2> QED
      BY <2>2 DEF ChargesAreAnswers, Standing, BonusIsConserved
  <1>8. WithinLimits
    <2>1. BonusAmount * 0 = 0
      BY QuotaConstants
    <2>2. ASSUME NEW m
          PROVE  MonthlyUsed(m) = 0
      <3>1. \A d \in Day : DailyCounts[d] = 0
        BY <1>4 DEF DailyCounts
      <3>2. Questions(DailyCounts, m) = {}
        BY <3>1, Elements
      <3> QED
        BY <3>2, FS_EmptySet DEF MonthlyUsed
    <2>3. ASSUME NEW d \in Day
          PROVE  usage[d].dailyCount <= DailyLimit + BonusAmount * usage[d].bonusUsedToday
      <3>1. usage[d].dailyCount = 0 /\ usage[d].bonusUsedToday = 0
        BY <1>4
      <3>2. BonusAmount * usage[d].bonusUsedToday = 0
        BY <2>1, <3>1
      <3> QED
        BY <3>1, <3>2, QuotaConstants
    <2>4. \A m \in Months : MonthlyUsed(m) <= MonthlyLimit
      BY <2>2, QuotaConstants
    <2> QED
      BY <2>3, <2>4 DEF WithinLimits
  <1> QED
    BY <1>2, <1>3, <1>5, <1>7, <1>8 DEF QuotaInv, TableInv

LEMMA StepKeepsInv ==
  ASSUME QuotaInv, NEW p \in Proc, Step(p)
  PROVE  QuotaInv'
  <1>1. CASE Start(p, "ask") \/ Start(p, "bonus")
    BY <1>1, StartKeepsInv
  <1>2. CASE ReadToCharge(p)
    BY <1>2, ReadToChargeKeepsInv
  <1>3. CASE Refuse(p) \/ RefuseBonus(p) \/ RequestFails(p)
    <2>1. /\ ~Open(req[p]) /\ Finish(p)
          /\ UNCHANGED <<today, usage, answered, unrefunded>>
      BY <1>3 DEF Refuse, RefuseBonus, RequestFails, At, Open
    <2> QED
      BY <2>1, FinishKeepsInv
  <1>4. CASE ReadToAddBonus(p)
    BY <1>4, ReadToAddBonusKeepsInv
  <1>5. CASE ReadToRefund(p)
    BY <1>5, ReadToRefundKeepsInv
  <1>6. CASE Write(p)
    <2>1. req[p].op \in {"ask", "bonus", "refund"}
      BY <1>6, WriteFacts
    <2> QED
      BY <1>6, <2>1, WriteChargeKeepsInv, WriteBonusKeepsInv, WriteRefundKeepsInv
  <1>7. CASE UpstreamFails(p) \/ StreamAborts(p)
    BY <1>7, RefundKeepsInv DEF UpstreamFails, StreamAborts, At
  <1>8. CASE StreamStarts(p) \/ Chunk(p)
    BY <1>8, StreamKeepsInv
  <1>9. CASE EndOfStream(p)
    <2>1. CASE Refund(p) /\ UNCHANGED answered
      BY <1>9, <2>1, RefundKeepsInv DEF EndOfStream, At
    <2>2. CASE /\ answered' = [answered EXCEPT ![<<req[p].rowDay, req[p].usedBonus>>] = @ + 1]
               /\ Finish(p)
      BY <1>9, <2>2, ClosingKeepsInv DEF EndOfStream, At, Open
    <2> QED
      BY <1>9, <2>1, <2>2 DEF EndOfStream
  <1>10. CASE RefundFails(p) \/ ProcessDies(p)
    BY <1>10, ClosingKeepsInv DEF RefundFails, ProcessDies, StaysCharged, At, Open
  <1> QED
    BY <1>1, <1>2, <1>3, <1>4, <1>5, <1>6, <1>7, <1>8, <1>9, <1>10 DEF Step

LEMMA NextKeepsInv ==
  ASSUME "straddle" \notin Ops
  PROVE  QuotaInv /\ [Next]_vars => QuotaInv'
  <1> SUFFICES ASSUME QuotaInv, [Next]_vars
               PROVE  QuotaInv'
    OBVIOUS
  <1>1. CASE Midnight
    BY <1>1, MidnightKeepsInv
  <1>2. CASE CheckQuota
    BY <1>2, CheckQuotaKeepsInv
  <1>3. CASE \E p \in Proc : Step(p)
    BY <1>3, StepKeepsInv
  <1>4. CASE UNCHANGED vars
    <2>1. today' = today /\ usage' = usage /\ req' = req
          /\ answered' = answered /\ unrefunded' = unrefunded
      BY <1>4 DEF vars
    <2>2. TypeOK'
      BY <2>1 DEF QuotaInv, TypeOK
    <2>3. \A m : MonthlyUsed(m)' = MonthlyUsed(m)
      BY <2>1 DEF MonthlyUsed, DailyCounts
    <2>4. RequestInv'
      BY <2>1, <2>3 DEF QuotaInv, RequestInv, DatedRequest, SoundRequest, Apart, At
    <2>5. \A d \in Day : Pending(d)' = Pending(d) /\ PendingWithBonus(d)' = PendingWithBonus(d)
      BY <2>1 DEF Pending, PendingWithBonus, At
    <2>6. Rows' /\ ChargesAreAnswers' /\ BonusIsConserved' /\ WithinLimits'
      BY <2>1, <2>3, <2>5 DEF QuotaInv, TableInv, Rows, ChargesAreAnswers, Standing, Closed,
                              BonusIsConserved, WithinLimits
    <2> QED
      BY <2>2, <2>4, <2>6 DEF QuotaInv, TableInv
  <1> QED
    BY <1>1, <1>2, <1>3, <1>4 DEF Next

\* The limits hold for the questions that stand, because they are the counters.
LEMMA StandingIsWithin ==
  ASSUME QuotaInv
  PROVE  NeverOverdrawn
  <1>1. \A d \in Day : DailyCounts[d] = Standing(d)
    BY DEF QuotaInv, TableInv, ChargesAreAnswers, DailyCounts
  <1> DEFINE standing == [d \in Day |-> Standing(d)]
  <1>2. standing = DailyCounts
    BY <1>1 DEF DailyCounts
  <1>3. \A d \in Day : Standing(d) <= DailyLimit + BonusAmount * usage[d].bonusUsedToday
    BY DEF QuotaInv, TableInv, ChargesAreAnswers, WithinLimits
  <1> HIDE DEF standing
  <1>4. \A m \in Months : Cardinality(Questions(standing, m)) <= MonthlyLimit
    BY <1>2 DEF QuotaInv, TableInv, WithinLimits, MonthlyUsed
  <1> QED
    BY <1>3, <1>4 DEF NeverOverdrawn, standing

\* Every request moves within the states the code gives it, at the date of the
\* row it changes, and what it read under the lock still holds when it writes.
THEOREM QuotaInvariant ==
  ASSUME "straddle" \notin Ops
  PROVE  Spec => []QuotaInv
  <1>1. Init => QuotaInv
    BY InitInv
  <1>2. QuotaInv /\ [Next]_vars => QuotaInv'
    BY NextKeepsInv
  <1> QED
    BY <1>1, <1>2, PTL DEF Spec

\* While no charge waits for its lock over midnight, the counter of a day is its
\* questions that are answered, still open, or failed with the one refund
\* refundOnce attempts, or with their process: whatever transactions fail,
\* consumeQuota charges each question once and refundQuota gives back no other.
THEOREM ChargesAlwaysAreAnswers ==
  ASSUME "straddle" \notin Ops
  PROVE  Spec => []ChargesAreAnswers
  <1>1. QuotaInv => ChargesAreAnswers
    BY DEF QuotaInv, TableInv
  <1> QED
    BY <1>1, QuotaInvariant, PTL

\* Then bonus questions are not made up, and only lost where a refund fails or a
\* process dies with the question.
THEOREM BonusIsAlwaysConserved ==
  ASSUME "straddle" \notin Ops
  PROVE  Spec => []BonusIsConserved
  <1>1. QuotaInv => BonusIsConserved
    BY DEF QuotaInv, TableInv
  <1> QED
    BY <1>1, QuotaInvariant, PTL

\* And concurrent questions, those that stay charged without an answer included,
\* draw no more than the day and the month allow.
THEOREM QuotaIsNeverOverdrawn ==
  ASSUME "straddle" \notin Ops
  PROVE  Spec => []NeverOverdrawn
  <1>1. QuotaInv => NeverOverdrawn
    BY StandingIsWithin
  <1> QED
    BY <1>1, QuotaInvariant, PTL
===============================================================================
