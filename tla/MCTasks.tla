------------------------------- MODULE MCTasks -------------------------------
EXTENDS Tasks, TLC

CONSTANTS s1, s2

\* A recurring task, one that was completed and taken up again, and a third.
MCInitial ==
  << Made(TRUE), [Made(FALSE) EXCEPT !.status = "in_progress", !.closed = MaxCalls + 1],
     Made(FALSE) >>
Sessions == Permutations({s1, s2})
=============================================================================
