------------------------------ MODULE PaidTime ------------------------------
(***************************************************************************)
(* What buying a plan promises, told of orders and days alone: the terms   *)
(* of an order are fixed when it is placed; it is bought once, at one      *)
(* instant, and gives Duration days that begin when all that its user has  *)
(* bought of the plan is over; and what was bought is never moved,         *)
(* lengthened or cut, only taken back by a revocation.                     *)
(***************************************************************************)
EXTENDS Integers

CONSTANTS
  Order,
  Duration,
  NoTerms,   \* the terms of an order that nobody has placed
  NoDays     \* the days of an order that is not bought

VARIABLES
  terms,     \* for each order its user, plan, price and bank account
  days,      \* for each order the days it has bought
  taken      \* the orders whose days were taken back

vars == <<terms, days, taken>>

Bought == {o \in Order : days[o] # NoDays}
Alike(o, q) == terms[o].user = terms[q].user /\ terms[o].plan = terms[q].plan

Init ==
  /\ terms = [o \in Order |-> NoTerms]
  /\ days = [o \in Order |-> NoDays]
  /\ taken = {}

Place(o) ==
  /\ terms[o] = NoTerms /\ terms'[o] # NoTerms
  /\ \A q \in Order \ {o} : terms'[q] = terms[q]
  /\ UNCHANGED <<days, taken>>

Buy(o) ==
  /\ terms[o] # NoTerms
  /\ o \notin Bought
  /\ \A q \in Bought \ taken : Alike(o, q) => days[q].to <= days'[o].from
  /\ days'[o].to = days'[o].from + Duration
  /\ \A q \in Order \ {o} : days'[q] = days[q]
  /\ UNCHANGED <<terms, taken>>

\* What one user has bought is taken back together.
TakeBack(gone) ==
  /\ gone \subseteq Bought
  /\ \A o, q \in gone : terms[o].user = terms[q].user
  /\ taken' = taken \cup gone
  /\ UNCHANGED <<terms, days>>

Next ==
  \/ \E o \in Order : Place(o) \/ Buy(o)
  \/ \E gone \in SUBSET Bought : TakeBack(gone)

Spec == Init /\ [][Next]_vars
=============================================================================
