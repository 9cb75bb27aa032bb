------------------------------ MODULE FileLock ------------------------------
(***************************************************************************)
(* packages/core/src/fs-lock.ts: the lock file behind local leases,        *)
(* counters, document locks and the local store, one file-system call at a *)
(* time.  A process creates the lock with O_EXCL, writes its name into it, *)
(* reads, changes and rewrites the guarded file, and removes the lock.  A  *)
(* lock whose holder is dead is removed under a second lock, the break     *)
(* guard; a guard left by a dead breaker is removed by whoever meets it.   *)
(*                                                                         *)
(* Timing assumed: a live process writes its name within the 2 s grace,    *)
(* breaks within 5 s and holds for less than maxHoldMs, and all processes  *)
(* are on one host, so only a dead process's file is ever judged stale     *)
(* (with another host or an overrun the code takes a live lock on          *)
(* purpose).  A process takes the lock once and pids are not reused, so a  *)
(* lock file is identified by who created it.                              *)
(***************************************************************************)
EXTENDS Integers, FiniteSets

CONSTANTS Proc,         \* the processes of this machine
          CrashAt,      \* where a process may crash
          MaxCrashes,   \* bound of the model
          NoFile        \* no such path

File == [by : Proc, written : BOOLEAN, old : BOOLEAN]

\* Where a process is, by the call it makes next.
PC == {"open", "write", "read",                     \* attempt
       "openG", "writeG", "recheck", "rmStale",     \* breakStale, guard taken
       "readG", "checkG", "rmG",                    \* breakStale, guard exists
       "mineG", "dropG", "again",                   \* guard given back, retry
       "wait", "timeout",                           \* withFileLock's loop
       "load", "store",                             \* fn
       "mine", "drop", "done",                      \* releaseIfMine
       "sweep", "crashed"}
ASSUME FileLockAssumption == CrashAt \subseteq PC /\ NoFile \notin File

Holding == {"write", "load", "store", "mine", "drop"}
Guarding == {"writeG", "recheck", "rmStale", "mineG", "dropG"}
Judging == {"openG", "writeG", "recheck", "rmStale", "checkG", "rmG"}

VARIABLES
  pc,       \* where each process is
  lock,     \* the file <file>.lock
  guard,    \* the file <file>.lock.break
  judged,   \* the file state a process read and found stale
  data,     \* the guarded file: a counter
  seen,     \* what each process read from it
  stored    \* history: the processes whose rewrite landed

lockVars == <<pc, lock, guard, judged, data, seen, stored>>

LockTypeOK ==
  /\ pc \in [Proc -> PC]
  /\ lock \in File \cup {NoFile}
  /\ guard \in File \cup {NoFile}
  /\ judged \in [Proc -> File \cup {NoFile}]
  /\ \A p \in Proc : pc[p] \in Judging => judged[p] # NoFile
  /\ data \in Nat
  /\ seen \in [Proc -> Nat]
  /\ stored \subseteq Proc

LockInit ==
  /\ pc = [p \in Proc |-> "open"]
  /\ lock = NoFile
  /\ guard = NoFile
  /\ judged = [p \in Proc |-> NoFile]
  /\ data = 0
  /\ seen = [p \in Proc |-> 0]
  /\ stored = {}

-----------------------------------------------------------------------------
Created(p)  == [by |-> p, written |-> FALSE, old |-> FALSE]
Go(p, from, to) == pc[p] = from /\ pc' = [pc EXCEPT ![p] = to]
Dead(p)     == pc[p] = "crashed"

\* The write that follows the create goes to the created file, which is gone
\* if somebody removed its path meanwhile.
Named(f, p) == IF f # NoFile /\ f.by = p THEN [f EXCEPT !.written = TRUE] ELSE f

\* Mutant: an unnamed file counts as stale without the grace.
StaleUngraced(f) == f # NoFile /\ (Dead(f.by) \/ ~f.written)

\* A named file is stale once its process is dead, an unnamed one once it is
\* older than the grace.
Stale(f) == f # NoFile /\ Dead(f.by) /\ (f.written \/ f.old)

\* Same inode and holder.  Two unnamed files have no holder to compare, and
\* the inode of a removed file may be the next file's.
SameState(f, g, reused) ==
  /\ f # NoFile /\ g # NoFile
  /\ f.written = g.written
  /\ f.by = g.by \/ (~f.written /\ reused)

IsOwn(f, p) == f # NoFile /\ f.by = p /\ f.written

-----------------------------------------------------------------------------
\* attempt: tryCreate(lock), which fails when the file exists.
Open(p) ==
  \/ /\ lock = NoFile
     /\ Go(p, "open", "write")
     /\ lock' = Created(p)
     /\ UNCHANGED <<guard, judged, data, seen, stored>>
  \/ /\ lock # NoFile
     /\ Go(p, "open", "read")
     /\ UNCHANGED <<lock, guard, judged, data, seen, stored>>

\* The second tryCreate, after a break.
Again(p) ==
  \/ /\ lock = NoFile
     /\ Go(p, "again", "write")
     /\ lock' = Created(p)
     /\ UNCHANGED <<guard, judged, data, seen, stored>>
  \/ /\ lock # NoFile
     /\ Go(p, "again", "wait")
     /\ UNCHANGED <<lock, guard, judged, data, seen, stored>>

Write(p) ==
  /\ Go(p, "write", "load")
  /\ lock' = Named(lock, p)
  /\ UNCHANGED <<guard, judged, data, seen, stored>>

\* Mutant: the early return for a lock released meanwhile is lost.
ReadNoReturn(p) ==
  /\ Go(p, "read", IF lock = NoFile \/ Stale(lock) THEN "openG" ELSE "wait")
  /\ judged' = [judged EXCEPT ![p] = lock]
  /\ UNCHANGED <<lock, guard, data, seen, stored>>

\* attempt: readState(lock) and stale().
Read(p) ==
  /\ Go(p, "read", IF Stale(lock) THEN "openG" ELSE "wait")
  /\ judged' = [judged EXCEPT ![p] = IF Stale(lock) THEN lock ELSE @]
  /\ UNCHANGED <<lock, guard, data, seen, stored>>

\* withFileLock: sleep and try again, or give up after waitMs.
Wait(p) ==
  /\ Go(p, "wait", "open")
  /\ UNCHANGED <<lock, guard, judged, data, seen, stored>>
Timeout(p) ==
  /\ Go(p, "wait", "timeout")
  /\ UNCHANGED <<lock, guard, judged, data, seen, stored>>

\* breakStale: tryCreate(guard).
OpenGuard(p) ==
  \/ /\ guard = NoFile
     /\ Go(p, "openG", "writeG")
     /\ guard' = Created(p)
     /\ UNCHANGED <<lock, judged, data, seen, stored>>
  \/ /\ guard # NoFile
     /\ Go(p, "openG", "readG")
     /\ UNCHANGED <<lock, guard, judged, data, seen, stored>>

WriteGuard(p) ==
  /\ Go(p, "writeG", "recheck")
  /\ guard' = Named(guard, p)
  /\ UNCHANGED <<lock, judged, data, seen, stored>>

\* Mutant: the lock is removed under the guard without a second look.
RecheckNothing(p) ==
  /\ Go(p, "recheck", "rmStale")
  /\ UNCHANGED <<lock, guard, judged, data, seen, stored>>

\* Under the guard: is the lock still the very file judged stale?
Recheck(p) ==
  \E reused \in BOOLEAN :
    /\ Go(p, "recheck", IF SameState(lock, judged[p], reused) /\ Stale(lock)
                        THEN "rmStale" ELSE "mineG")
    /\ UNCHANGED <<lock, guard, judged, data, seen, stored>>

\* rmSync removes whatever is at the path by then.
RemoveStale(p) ==
  /\ Go(p, "rmStale", "mineG")
  /\ lock' = NoFile
  /\ UNCHANGED <<guard, judged, data, seen, stored>>

\* releaseIfMine(guard): read, then remove.
GuardIsMine(p) ==
  /\ Go(p, "mineG", IF IsOwn(guard, p) THEN "dropG" ELSE "again")
  /\ UNCHANGED <<lock, guard, judged, data, seen, stored>>
DropGuard(p) ==
  /\ Go(p, "dropG", "again")
  /\ guard' = NoFile
  /\ UNCHANGED <<lock, judged, data, seen, stored>>

\* Mutant: no guard in the way is ever removed.
ReadGuardNever(p) ==
  /\ Go(p, "readG", "wait")
  /\ UNCHANGED <<lock, guard, judged, data, seen, stored>>

\* breakStale: the guard exists; a stale one is removed (rmIfSame reads it
\* again, then removes the path).
ReadGuard(p) ==
  /\ Go(p, "readG", IF Stale(guard) THEN "checkG" ELSE "wait")
  /\ judged' = [judged EXCEPT ![p] = IF Stale(guard) THEN guard ELSE @]
  /\ UNCHANGED <<lock, guard, data, seen, stored>>
CheckGuard(p) ==
  \E reused \in BOOLEAN :
    /\ Go(p, "checkG", IF SameState(guard, judged[p], reused) THEN "rmG" ELSE "wait")
    /\ UNCHANGED <<lock, guard, judged, data, seen, stored>>
RemoveGuard(p) ==
  /\ Go(p, "rmG", "wait")
  /\ guard' = NoFile
  /\ UNCHANGED <<lock, judged, data, seen, stored>>

\* fn: read the guarded file, then rename a rewritten copy over it.
Load(p) ==
  /\ Go(p, "load", "store")
  /\ seen' = [seen EXCEPT ![p] = data]
  /\ UNCHANGED <<lock, guard, judged, data, stored>>
Store(p) ==
  /\ Go(p, "store", "mine")
  /\ data' = seen[p] + 1
  /\ stored' = stored \cup {p}
  /\ UNCHANGED <<lock, guard, judged, seen>>

\* releaseIfMine(lock): read, then remove.
LockIsMine(p) ==
  /\ Go(p, "mine", IF IsOwn(lock, p) THEN "drop" ELSE "done")
  /\ UNCHANGED <<lock, guard, judged, data, seen, stored>>
Drop(p) ==
  /\ Go(p, "drop", "done")
  /\ lock' = NoFile
  /\ UNCHANGED <<guard, judged, data, seen, stored>>

\* sweepLockDebris: a guard over an hour old is removed after a stat.
SweepStat(p) ==
  /\ Stale(guard)
  /\ Go(p, "done", "sweep")
  /\ UNCHANGED <<lock, guard, judged, data, seen, stored>>
SweepRemove(p) ==
  /\ Go(p, "sweep", "done")
  /\ guard' = NoFile
  /\ UNCHANGED <<lock, judged, data, seen, stored>>

Crash(p) ==
  /\ pc[p] \in CrashAt
  /\ Cardinality({q \in Proc : Dead(q)}) < MaxCrashes
  /\ pc' = [pc EXCEPT ![p] = "crashed"]
  /\ UNCHANGED <<lock, guard, judged, data, seen, stored>>

\* An unnamed file of a dead process outlives the grace.
AgeLock ==
  /\ lock # NoFile /\ Dead(lock.by) /\ ~lock.old
  /\ lock' = [lock EXCEPT !.old = TRUE]
  /\ UNCHANGED <<pc, guard, judged, data, seen, stored>>
AgeGuard ==
  /\ guard # NoFile /\ Dead(guard.by) /\ ~guard.old
  /\ guard' = [guard EXCEPT !.old = TRUE]
  /\ UNCHANGED <<pc, lock, judged, data, seen, stored>>

\* The calls a live process makes one after the other.
Step(p) ==
  \/ Open(p) \/ Again(p) \/ Write(p) \/ Read(p) \/ Wait(p)
  \/ OpenGuard(p) \/ WriteGuard(p) \/ Recheck(p) \/ RemoveStale(p)
  \/ GuardIsMine(p) \/ DropGuard(p)
  \/ ReadGuard(p) \/ CheckGuard(p) \/ RemoveGuard(p)
  \/ Load(p) \/ Store(p) \/ LockIsMine(p) \/ Drop(p)

LockNext ==
  \/ \E p \in Proc : Step(p) \/ Timeout(p) \/ SweepStat(p) \/ SweepRemove(p) \/ Crash(p)
  \/ AgeLock \/ AgeGuard

LockSpec == LockInit /\ [][LockNext]_lockVars

\* A process keeps making its calls until it crashes, and time passes.
FairSpec ==
  /\ LockSpec
  /\ \A p \in Proc : WF_lockVars(Step(p))
  /\ WF_lockVars(AgeLock) /\ WF_lockVars(AgeGuard)
-----------------------------------------------------------------------------
\* Two processes are never inside the guarded section together, through every
\* interleaving of takes, releases, crashes and breaks.
MutualExclusion ==
  \A p, q \in Proc :
    pc[p] \in {"load", "store"} /\ pc[q] \in {"load", "store"} => p = q

\* No rewrite of the guarded file is lost: it counts every process that
\* stored, also those that crashed before releasing.
NoLostUpdate == data = Cardinality(stored)

\* Breaking happens under the guard: two live processes are never both past
\* the recheck, about to remove the lock they judged stale.
OneBreaker ==
  \A p, q \in Proc : pc[p] = "rmStale" /\ pc[q] = "rmStale" => p = q

\* A crashed holder or breaker never blocks the lock for good: every process
\* that keeps going gets the lock and finishes, gives up, or crashes.
CrashNeverBlocks ==
  \A p \in Proc : <>(pc[p] \in {"done", "sweep", "timeout", "crashed"})
=============================================================================
