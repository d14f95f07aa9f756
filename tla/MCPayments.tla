----------------------------- MODULE MCPayments -----------------------------
(***************************************************************************)
(* Instances of Payments for TLC.  Requests, orders and users are          *)
(* interchangeable.                                                        *)
(***************************************************************************)
EXTENDS Payments, TLC

Symmetry == Permutations(Proc) \cup Permutations(Order) \cup Permutations(User)
=============================================================================
