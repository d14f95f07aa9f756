----------------------------- MODULE MCRelease ------------------------------
(* Two messages with an image each, three runs of the script on one day or on *)
(* five, two deployments.                                                     *)
EXTENDS Release, TLC

CONSTANTS m1, m2

MCMessage == {m1, m2}
MCSymmetry == Permutations(MCMessage)

=============================================================================
