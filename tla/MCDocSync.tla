----------------------------- MODULE MCDocSync -----------------------------
EXTENDS DocSync, TLC

CONSTANTS a, b, ann, bob, p1, p2, q1, q2

\* Two people.
MCUserOf == a :> ann @@ b :> bob

\* One push and one pull on each machine.
MCOn == [x \in Pusher \cup Puller |-> IF x \in {p1, q1} THEN a ELSE b]
=============================================================================
