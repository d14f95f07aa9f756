----------------------------- MODULE MCAccounts -----------------------------
(***************************************************************************)
(* Instances of Accounts for TLC.  Requests are interchangeable.           *)
(*                                                                         *)
(* All operations together are more than TLC can go through with tokens    *)
(* and keys enough that two are in use while a third is drawn.  MCScenes   *)
(* has those together that meet in the same columns: everything that       *)
(* issues, uses or writes back a token; overlapping uploads with a save    *)
(* that means nothing; roles and what saves them; and an upload against    *)
(* each of the locked column and the tokens.                               *)
(***************************************************************************)
EXTENDS Accounts, TLC

CONSTANTS p1, p2, u1, u2

Symmetry == Permutations(Proc)

MCScenes ==
  {{"register", "verify", "resend", "forgot", "reset", "profile", "login"},
   {"register", "avatar", "profile"},
   {"register", "role", "profile", "status", "login"},
   {"register", "role", "avatar"},
   {"register", "avatar", "verify", "resend"}}
=============================================================================
