------------------------ MODULE MCLocalCoordination ------------------------
EXTENDS LocalCoordination, TLC

CONSTANTS s1, s2, s3, u1, u2, k1, k2, db, n1, n2

\* s1 and s2 are sessions of one user, s3 of another.
MCUserOf == (s1 :> u1) @@ (s2 :> u1) @@ (s3 :> u2)

\* One shared resource both keys may need.
MCSentScope == {{db}}

\* The two sessions of one user are alike.
Symmetric == Permutations({s1, s2})
=============================================================================
