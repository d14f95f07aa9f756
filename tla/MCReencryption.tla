--------------------------- MODULE MCReencryption ---------------------------
(* Two readings of one user found in every historical form, two requests   *)
(* at once, two keys, and batches of one row.                              *)
EXTENDS Reencryption, TLC

CONSTANTS k1, k2, q1, q2, f1, f2, w1, w2

MCReading == 1..2

Document(form, key) == [form |-> form, key |-> key, has |-> {}]
Owned == Document("legacy", "owner")
Default == Document("legacy", "default_user")
Local == Document("legacy", "local")
Second == Document("v2", k1)
Third == Document("v3", k1)

MCHistories ==
    [edits    |-> {<<Owned, Second>>, <<Owned, Local>>},
     journal  |-> {<<Third, NoRow>>},
     rotation |-> {<<Owned, Second>>},
     exact    |-> {<<Second, Local>>, <<Local, Owned>>},
     rollback |-> {<<Owned, Third>>, <<Third, Local>>, <<Second, Third>>},
     recovery |-> {<<Default, Third>>, <<Default, Default>>, <<Owned, Default>>,
                  <<Local, Third>>, <<Local, Owned>>}]

MCSymmetry == Permutations({q1, q2}) \cup Permutations({f1, f2})
                \cup Permutations({w1, w2})
=============================================================================
