------------------------------ MODULE MCStreak ------------------------------
(***************************************************************************)
(* An instance of Streak for TLC.  Requests are interchangeable, and so    *)
(* are event ids.                                                          *)
(***************************************************************************)
EXTENDS Streak, TLC

CONSTANTS p1, p2, e1, e2, c1, c2

\* Two devices that were used without an account on the same day: one brings
\* a streak, the other a longer total and the card of that day.
MCOffline ==
  {[currentStreak |-> 2, longestStreak |-> 1, totalReadings |-> 1,
    lastActiveDate |-> 1, streakFreezeUsed |-> TRUE,
    dailyCardDate |-> 1, dailyCardId |-> c1],
   [currentStreak |-> 1, longestStreak |-> 1, totalReadings |-> 2,
    lastActiveDate |-> 1, streakFreezeUsed |-> FALSE,
    dailyCardDate |-> 1, dailyCardId |-> c2]}

Symmetry == Permutations(Proc) \cup Permutations(Event)
=============================================================================
