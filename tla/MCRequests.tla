----------------------------- MODULE MCRequests -----------------------------
(* Three documents of the same instant: two live, of which one was deleted   *)
(* and stored again, and one deleted that the machine still holds.           *)
EXTENDS Requests, TLC

CONSTANTS ann, bob, p1, p2, c1, c2

MCAsked == c1 :> {pull, upsertMany} @@ c2 :> {me}
MCSize == 1 :> 2 @@ 2 :> 1 @@ 3 :> 1
MCBatches == <<{2, 3}, {1}>>
MCSeeded ==
  1 :> [row |-> [at |-> 1, own |-> FALSE], deleted |-> 0]
  @@ 2 :> [row |-> [at |-> 1, own |-> FALSE], deleted |-> 1]
  @@ 3 :> [row |-> NoRow, deleted |-> 1]
MCBurst == "read" :> 3 @@ "write" :> 2 @@ "docs" :> 4 @@ "similar" :> 1
MCRate == "read" :> 2 @@ "write" :> 1 @@ "docs" :> 2 @@ "similar" :> 1
=============================================================================
