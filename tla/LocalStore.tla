----------------------------- MODULE LocalStore -----------------------------
(***************************************************************************)
(* packages/core/src/store/local-adapter.ts: one collection of the         *)
(* embedded store, a file rewritten whole by several processes, each with  *)
(* a cache of what it last read or wrote and any number of operations      *)
(* under way.                                                              *)
(*                                                                         *)
(* A step ends where the code awaits the file system.  The file lock is    *)
(* FileLock's: exclusive, and broken after its holder's death.  A file's   *)
(* identity (inode, times, size) is the number of its rewrite; stat and    *)
(* the comparison after it are one step, as nobody but the lock's holder   *)
(* writes and a reader asks only for some recent state.  Of the changes of *)
(* one process the lock, too, lets one at a time go on.                    *)
(***************************************************************************)
EXTENDS StoreChanges

CONSTANTS Proc, Thread, ProcOf,   \* the operations each process may run at once
          NoThread,
          MaxWrites               \* bound of the model

ASSUME ThreadAssumption ==
  /\ ProcOf \in [Thread -> Proc]
  /\ NoThread \notin Thread
  /\ MaxWrites \in Nat

VARIABLES
  file,    \* the file on disk: its documents and its identity
  lock,    \* the thread that holds the file lock
  cache,   \* by process: the collection as last read or written
  seen,    \* by process: the identity that goes with it (cacheMtimes)
  th,      \* by thread: where it is in load, mutate or deleteCollection
  mixed    \* history: processes whose cache and identity are of two operations

vars == <<file, lock, cache, seen, th, mixed>>

Reading == [op |-> "read"]

PC == {"idle", "stat", "open", "put", "write", "own", "remove", "forget"}

\* docs, id: the cached collection on entry, what was read, what is written.
\* from: the file's identity when a read began.  stale is history: the
\* process has cached another collection since the operation took or wrote its
\* own, or what it took was mixed.
Idle == [pc |-> "idle", op |-> Reading, docs |-> NoFile, id |-> 0, from |-> 0,
         stale |-> FALSE]

TypeOK ==
  /\ file \in [docs : File, id : Nat]
  /\ lock \in Thread \cup {NoThread}
  /\ cache \in [Proc -> File]
  /\ seen \in [Proc -> Nat]
  /\ th \in [Thread -> [pc : PC, op : Asked \cup {Reading}, docs : File, id : Nat,
                        from : Nat, stale : BOOLEAN]]
  /\ mixed \subseteq Proc

Init ==
  /\ file = [docs |-> NoFile, id |-> 0]
  /\ lock = NoThread
  /\ cache = [p \in Proc |-> NoFile]
  /\ seen = [p \in Proc |-> 0]
  /\ th = [t \in Thread |-> Idle]
  /\ mixed = {}

-----------------------------------------------------------------------------
Free(t) == th[t].pc = "idle"

\* The cached collection is taken before the stat.
Entered(t, op) ==
  LET p == ProcOf[t]
      from == IF op = Reading THEN file.id ELSE 0
  IN IF cache[p] = NoFile
     THEN [Idle EXCEPT !.pc = "open", !.op = op, !.from = from]
     ELSE [Idle EXCEPT !.pc = "stat", !.op = op, !.from = from,
                       !.docs = cache[p], !.stale = p \in mixed]

\* load, for an operation that only reads.
StartRead(t) ==
  /\ Free(t)
  /\ th' = [th EXCEPT ![t] = Entered(t, Reading)]
  /\ UNCHANGED <<file, lock, cache, seen, mixed>>

\* mutate: the lock, and the load under it.
StartChange(t, c) ==
  /\ Free(t)
  /\ c.op # "drop"
  /\ lock = NoThread
  /\ lock' = t
  /\ th' = [th EXCEPT ![t] = Entered(t, c)]
  /\ UNCHANGED <<file, cache, seen, mixed>>

StartDrop(t, c) ==
  /\ Free(t)
  /\ c.op = "drop"
  /\ lock = NoThread
  /\ lock' = t
  /\ th' = [th EXCEPT ![t] = [Idle EXCEPT !.pc = "remove", !.op = c]]
  /\ UNCHANGED <<file, cache, seen, mixed>>

Unlocked(t) == IF lock = t THEN NoThread ELSE lock

\* What the process has cached once apply ran: the object itself was changed,
\* and is dropped when apply throws.
CachedAfter(t, cur, cached) ==
  IF Throws(th[t].op, cur) THEN NoFile
  ELSE IF cached = cur /\ cur # NoFile /\ Writes(th[t].op, cur) THEN Outcome(th[t].op, cur)
  ELSE cached

\* The process of t has this collection and identity cached now, and t goes on
\* as r; where the collection was replaced, its other operations that wait for a
\* stat wait with a collection that is no longer the cached one.
Cached(t, docs, id, r, replaced) ==
  LET p == ProcOf[t]
      Passed(u) == replaced /\ ProcOf[u] = p /\ th[u].pc \in {"stat", "own"}
  IN /\ cache' = [cache EXCEPT ![p] = docs]
     /\ seen' = [seen EXCEPT ![p] = id]
     /\ th' = [u \in Thread |-> IF u = t THEN r
                               ELSE [th[u] EXCEPT !.stale = @ \/ Passed(u)]]
     /\ mixed' = IF replaced THEN mixed \ {p} ELSE mixed

\* load has returned cur, leaving the process with this cache: a read is over,
\* a change is applied and goes on to be written.
Loaded(t, cur, cached, id) ==
  LET p == ProcOf[t]
      op == th[t].op
      writes == op # Reading /\ Writes(op, cur)
      throws == op # Reading /\ Throws(op, cur)
  IN /\ Cached(t, IF op = Reading THEN cached ELSE CachedAfter(t, cur, cached),
               IF throws THEN 0 ELSE id,
               IF writes
               THEN [Idle EXCEPT !.pc = "write", !.op = op, !.docs = Outcome(op, cur),
                                 !.stale = th[t].stale /\ cur # NoFile]
               ELSE Idle,
               throws \/ <<cached, id>> # <<cache[p], seen[p]>>)
     /\ lock' = IF writes THEN lock ELSE Unlocked(t)
     /\ UNCHANGED file

\* Mutant: a change trusts the cache without a look at the file.
SameFileAlways(p) == seen[p] # 0

SameFile(p) == seen[p] = file.id

\* What the cached collection that t took holds by now: while it is the one
\* that is cached, a change shows in it before it is written.
Taken(t) == IF th[t].stale THEN th[t].docs ELSE cache[ProcOf[t]]

\* The stat, and the cached collection as it was taken when the file has the
\* identity remembered now.
Stat(t) ==
  LET p == ProcOf[t] IN
  /\ th[t].pc = "stat"
  /\ \/ /\ file.docs = NoFile
        /\ Loaded(t, NoFile, NoFile, 0)
     \/ /\ file.docs # NoFile
        /\ SameFile(p)
        /\ Loaded(t, Taken(t), cache[p], seen[p])
     \/ /\ file.docs # NoFile
        /\ ~SameFile(p)
        /\ th' = [th EXCEPT ![t] = [@ EXCEPT !.pc = "open", !.docs = NoFile,
                                             !.stale = FALSE]]
        /\ UNCHANGED <<file, lock, cache, seen, mixed>>

\* readFromDisk: content and identity of one open file.
Open(t) ==
  /\ th[t].pc = "open"
  /\ \/ /\ file.docs = NoFile
        /\ Loaded(t, NoFile, NoFile, 0)
     \/ /\ file.docs # NoFile
        /\ th' = [th EXCEPT ![t] = [@ EXCEPT !.pc = "put", !.docs = file.docs,
                                             !.id = file.id]]
        /\ UNCHANGED <<file, lock, cache, seen, mixed>>

Put(t) ==
  /\ th[t].pc = "put"
  /\ Loaded(t, th[t].docs, th[t].docs, th[t].id)

\* writeAtomic: the rename and, with it, the cache; the identity after a stat.
Rename(t) ==
  /\ th[t].pc = "write"
  /\ file.id < MaxWrites
  /\ file' = [docs |-> th[t].docs, id |-> file.id + 1]
  /\ Cached(t, th[t].docs, seen[ProcOf[t]], [Idle EXCEPT !.pc = "own"],
            cache[ProcOf[t]] # th[t].docs)
  /\ UNCHANGED lock

StatOwn(t) ==
  LET p == ProcOf[t] IN
  /\ th[t].pc = "own"
  /\ seen' = [seen EXCEPT ![p] = file.id]
  /\ mixed' = IF th[t].stale /\ cache[p] # NoFile THEN mixed \cup {p} ELSE mixed \ {p}
  /\ th' = [th EXCEPT ![t] = Idle]
  /\ lock' = Unlocked(t)
  /\ UNCHANGED <<file, cache>>

\* The write or the stat after it fails: the cache is dropped.
FailWrite(t) ==
  /\ th[t].pc \in {"write", "own"}
  /\ Cached(t, NoFile, 0, Idle, TRUE)
  /\ lock' = Unlocked(t)
  /\ UNCHANGED file

\* The stat or the read fails.
FailLoad(t) ==
  /\ th[t].pc \in {"stat", "open", "put"}
  /\ th' = [th EXCEPT ![t] = Idle]
  /\ lock' = Unlocked(t)
  /\ UNCHANGED <<file, cache, seen, mixed>>

\* deleteCollection: the file under the lock, then the cache.
Remove(t) ==
  /\ th[t].pc = "remove"
  /\ file' = [file EXCEPT !.docs = NoFile]
  /\ lock' = Unlocked(t)
  /\ th' = [th EXCEPT ![t] = [Idle EXCEPT !.pc = "forget"]]
  /\ UNCHANGED <<cache, seen, mixed>>

Forget(t) ==
  /\ th[t].pc = "forget"
  /\ Cached(t, NoFile, 0, Idle, TRUE)
  /\ UNCHANGED <<file, lock>>

\* The process dies; its lock is broken.
Crash(p) ==
  /\ \E t \in Thread : ProcOf[t] = p /\ th[t].pc # "idle"
  /\ th' = [t \in Thread |-> IF ProcOf[t] = p THEN Idle ELSE th[t]]
  /\ cache' = [cache EXCEPT ![p] = NoFile]
  /\ seen' = [seen EXCEPT ![p] = 0]
  /\ mixed' = mixed \ {p}
  /\ lock' = IF lock # NoThread /\ ProcOf[lock] = p THEN NoThread ELSE lock
  /\ UNCHANGED file

Next ==
  \/ \E t \in Thread :
       \/ StartRead(t)
       \/ \E c \in Asked : StartChange(t, c) \/ StartDrop(t, c)
       \/ Stat(t) \/ Open(t) \/ Put(t) \/ Rename(t) \/ StatOwn(t)
       \/ FailWrite(t) \/ FailLoad(t) \/ Remove(t) \/ Forget(t)
  \/ \E p \in Proc : Crash(p)

Spec == Init /\ [][Next]_vars
-----------------------------------------------------------------------------
\* Every operation of every process takes effect in one step, or not at all,
\* on the collection as the others left it: no process writes back a copy that
\* lacks another's change (local-adapter.ts:16-20); unless it made its change on
\* a cached collection that another of its own operations had replaced while it
\* waited for the stat (:138-142) or paired with an identity that is not its own
\* (:167-169).
Store == INSTANCE SharedStore WITH docs <- file.docs
ActsAsOneStore ==
  Store!Init /\ [][Store!Next \/ \E t \in Thread : Rename(t) /\ th[t].stale]_(file.docs)

Writing(p) == \E t \in Thread : ProcOf[t] = p /\ th[t].pc = "write"

\* A cache whose identity is the file's holds the file's documents, unless the
\* process is just writing ("the cache is current exactly when the file's
\* identity still matches it", local-adapter.ts:185) or has mixed the two up.
CacheCurrent ==
  \A p \in Proc \ mixed :
    cache[p] # NoFile /\ seen[p] = file.id /\ file.docs # NoFile =>
      cache[p] = file.docs \/ Writing(p)

\* A read returns the collection on disk now, one its process is just writing,
\* or one no older than that on disk when it began; unless what it took was
\* replaced, or mixed, while it waited.
Returned(t) ==
  /\ th[t].op = Reading /\ th[t].pc \in {"stat", "put"} /\ th'[t].pc = "idle"
  /\ Stat(t) \/ Put(t)
Current(t) ==
  \/ th[t].pc = "put" /\ th[t].id >= th[t].from
  \/ th[t].pc = "stat" /\ Taken(t) = file.docs
  \/ Writing(ProcOf[t])
ReadsFresh ==
  [][\A t \in Thread :
       Returned(t) /\ file.docs # NoFile /\ ~th[t].stale /\ ProcOf[t] \notin mixed
         => Current(t)]_vars
=============================================================================
