----------------------------- MODULE MCSessions -----------------------------
(***************************************************************************)
(* Instances of Sessions for TLC.  Requests and lineages are               *)
(* interchangeable, so the safety runs identify states up to them.         *)
(***************************************************************************)
EXTENDS Sessions, TLC

Symmetry == Permutations(Proc) \cup Permutations(Chain)
=============================================================================
