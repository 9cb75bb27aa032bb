----------------------------- MODULE MCFileLock -----------------------------
EXTENDS FileLock, TLC

CONSTANTS p1, p2, p3, p4

\* Everywhere, and everywhere but between creating the break guard and
\* giving it back.
Anywhere == PC \ {"done", "timeout", "crashed"}
OutsideBreak == Anywhere \ Guarding

Symmetric == Permutations({p1, p2, p3, p4})
=============================================================================
