----------------------------- MODULE MCClients -----------------------------
(***************************************************************************)
(* An instance of Clients for TLC.  Two tabs, an account at each provider  *)
(* with one address and a second account at the first provider; in the     *)
(* other instance the two accounts spell the address with a capital        *)
(* letter.  Two requests on a note with two friends.  Two visitors of      *)
(* different applications, pages of one row.                               *)
(***************************************************************************)
EXTENDS Clients, TLC

CONSTANTS t1, t2, google, facebook, g1, g2, fb1, lower, upper, second, app, stranger,
          p1, p2, f1, f2, v1, v2, a1, a2

MCProviderOf == g1 :> google @@ g2 :> google @@ fb1 :> facebook
MCAddressOf == g1 :> lower @@ g2 :> second @@ fb1 :> lower
MCSpelled == g1 :> upper @@ g2 :> second @@ fb1 :> upper
MCLower == lower :> lower @@ upper :> lower @@ second :> second

MCScenes ==
  {{"update", "update by link", "claim"},
   {"share", "claim", "other"},
   {"invite", "accept", "remove"},
   {"upload", "delete image", "delete", "other"}}

\* In the scene of the images requests go on beginning whatever has been lost.
MCMaxLost == [s \in MCScenes |-> IF "upload" \in s THEN 2 ELSE 0]

MCAppOf == v1 :> a1 @@ v2 :> a2

\* Tabs, requests and friends are interchangeable; a behaviour has either tabs
\* or requests that are not idle, so they are exchanged together.
Both == t1 :> t2 @@ t2 :> t1 @@ p1 :> p2 @@ p2 :> p1
Symmetry == {Both} \cup Permutations(Friend)
=============================================================================
