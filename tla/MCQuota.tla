------------------------------- MODULE MCQuota -------------------------------
(***************************************************************************)
(* Instances of Quota for TLC.  Requests are interchangeable.              *)
(***************************************************************************)
EXTENDS Quota, TLC

Symmetry == Permutations(Proc)
=============================================================================
