---------------------------- MODULE EventCounter ----------------------------
(***************************************************************************)
(* What the server promises about the total of a streak: every activity    *)
(* event counts once, whatever is repeated, and apart from that the total  *)
(* grows only to a total some device brought along.                        *)
(***************************************************************************)
EXTENDS Integers

CONSTANTS
  Event,     \* ids of activity events
  Imported,  \* totals that devices bring along
  MaxTotal   \* where the total stops

VARIABLES
  counted,   \* the events that have been counted
  total

vars == <<counted, total>>

Raised(t) == IF t > total THEN t ELSE total
Capped(n) == IF n > MaxTotal THEN MaxTotal ELSE n

Init == counted = {} /\ total = 0

Import ==
  /\ \E t \in Imported : total' = Raised(t)
  /\ UNCHANGED counted

Count(e) ==
  /\ e \notin counted
  /\ counted' = counted \cup {e}
  /\ \E t \in Imported \cup {0} : total' = Capped(Raised(t) + 1)

Next == Import \/ \E e \in Event : Count(e)

Spec == Init /\ [][Next]_vars
=============================================================================
