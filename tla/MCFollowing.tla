---------------------------- MODULE MCFollowing ----------------------------
(* Two collections: `a` has a document of this user's and a teammate's; `b` *)
(* is empty.  The service refuses what this user writes anew.               *)
EXTENDS Following, TLC

CONSTANTS a, b, own, teams, barred

MCHome == own :> a @@ teams :> a @@ barred :> Nowhere
=============================================================================
