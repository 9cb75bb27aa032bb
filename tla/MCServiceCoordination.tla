----------------------- MODULE MCServiceCoordination -----------------------
EXTENDS ServiceCoordination, TLC

CONSTANTS s1, s2, s3, u1, u2, k1, k2, db

\* s1 and s2 are sessions of one user, s3 of another.
MCUserOf == (s1 :> u1) @@ (s2 :> u1) @@ (s3 :> u2)

\* One shared resource both keys may need.
MCSentScope == {{db}}

\* Requests for either key: that need it, or keep what a renewal had.
MCSent == [key : {k1, k2}, scope : {{db}}, ttl : {Omitted}, reclaim : BOOLEAN]
            \cup [key : {k1, k2}, scope : {Omitted}, ttl : {Omitted}, reclaim : {FALSE}]

\* The two sessions of one user are alike, and so are the keys.
Symmetric == {f @@ g : f \in Permutations({s1, s2}), g \in Permutations({k1, k2})}
=============================================================================
