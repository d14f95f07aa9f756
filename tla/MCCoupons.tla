------------------------------ MODULE MCCoupons ------------------------------
(***************************************************************************)
(* An instance of Coupons for TLC.  Requests, users and codes are          *)
(* interchangeable.                                                        *)
(***************************************************************************)
EXTENDS Coupons, TLC

CONSTANTS p1, p2, u1, u2, k1, k2

MCLimits == {1}

Symmetry == Permutations(Proc) \cup Permutations(User) \cup Permutations(Code)
=============================================================================
