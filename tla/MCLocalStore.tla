---------------------------- MODULE MCLocalStore ----------------------------
EXTENDS LocalStore, TLC

CONSTANTS p1, p2, t1, t2, t3, d1, d2, f1, v, b

\* A server with two operations under way, and a command.
MCProcOf == t1 :> p1 @@ t2 :> p1 @@ t3 :> p2

NoMeta == [f \in Field |-> Absent]
Tagged == [f \in Field |-> v]
New(d) == [x \in Doc |-> IF x = d THEN [body |-> b, meta |-> NoMeta] ELSE Absent]
Patch(d, f, value) ==
  [x \in Doc |-> [g \in Field |-> IF x = d /\ g = f THEN value ELSE Keep]]

MCAsked ==
  { [op |-> "add", docs |-> New(d1)], [op |-> "add", docs |-> New(d2)],
    [op |-> "update", doc |-> d1, meta |-> Tagged],
    [op |-> "updateBatch", metas |-> [d \in Doc |-> IF d = d1 THEN Tagged ELSE Keep]],
    [op |-> "patch", patches |-> Patch(d1, f1, Absent)],
    [op |-> "delete", doc |-> d1], [op |-> "create"], [op |-> "drop"] }

Same == Permutations({t1, t2})
=============================================================================
