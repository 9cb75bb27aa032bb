-------------------------------- MODULE Tasks --------------------------------
(***************************************************************************)
(* packages/core/src/tasks: the sessions of one machine create, start,     *)
(* finish, set aside, delete and link tasks of a collection whose leases   *)
(* the sync service keeps, with a colleague elsewhere. A call is read from *)
(* the store, claimed on the service, written under the document's lock    *)
(* and released, with awaits in between; hooks renew the leases and the    *)
(* server retries the claims made while the service could not be reached.  *)
(*                                                                         *)
(* Abstracted: a lease call is one step (ServiceCoordination shows what it *)
(* promises), its scope is its key, a task's text, tags, priority and      *)
(* dates are left out, and so is the renaming of a task when it is pushed. *)
(***************************************************************************)
EXTENDS Naturals, FiniteSets, FiniteSetsExt

CONSTANTS Session,      \* this machine's sessions, all of one user
          Other,        \* a colleague
          NoOne, NoTask,
          Initial,      \* the tasks there are at first, by number
          MaxId, MaxCalls, MaxLapses, MaxOutages      \* bounds of the model

ASSUME TasksAssumption ==
  /\ Other \notin Session /\ NoOne \notin Session \cup {Other}
  /\ IsFiniteSet(Session)
  /\ {MaxId, MaxCalls, MaxLapses, MaxOutages} \subseteq Nat

VARIABLES
  tasks,    \* the store: by number, the task or NoTask
  lock,     \* by task, the session that holds its document lock
  lease,    \* by task, the holder of its lease and whether the lease is live
  watch,    \* by session, the leases its marker file names
  told,     \* the notices: <<session, task>>
  call,     \* by session, the call it is in
  beat,     \* by session, what a heartbeat renewed and has not noted yet
  retry,    \* the server's pass over the claims to retry
  numbers,  \* the last task number of the service and of the machine
  calls, lapses, outages,
  \* History, for the properties:
  started,  \* by session, the tasks it has started and not closed
  wiped,    \* <<session, task>> whose unshared mark another session's change, or
            \* the task's end, took away
  from,     \* by task, the counter its number came from, "max" for none
  closes,   \* by task, how often it went from open to complete (or was deleted just before)
  nexts     \* by task, how many next occurrences were made of it

vars == <<tasks, lock, lease, watch, told, call, beat, retry, numbers,
          calls, lapses, outages, started, wiped, from, closes, nexts>>
seenVars == <<started, wiped, from, closes, nexts>>
budget == <<calls, lapses, outages>>

Id == 1..MaxId
Status == {"pending", "in_progress", "blocked", "complete"}
Task == [status : Status, unshared : Session \cup {NoOne}, closed : 0..MaxCalls + 1,
         recurs : BOOLEAN, deps : SUBSET Id, blocks : SUBSET Id]
Made(recurs) == [status |-> "pending", unshared |-> NoOne, closed |-> 0,
                 recurs |-> recurs, deps |-> {}, blocks |-> {}]

ASSUME TaskAssumption ==
  /\ NoTask \notin Task
  /\ \A i \in Id \cap DOMAIN Initial : Initial[i] \in Task

Free == [by |-> NoOne, live |-> FALSE]
There == {i \in Id : tasks[i] # NoTask}

\* closed: when it was first completed, 0 for never; calls number the time.
\* op; on: the task; other: the task of a link; n: the call's number, which is
\* also its time; seen: the task as first read, of a link the other task; cur:
\* as read under the lock;
\* claim: what the claim came to; queue: what task_next may try yet.
Idle == [pc |-> "idle", op |-> "none", on |-> 0, other |-> 0, n |-> 0, to |-> "pending",
         reclaim |-> FALSE, seen |-> NoTask, cur |-> NoTask, claim |-> "none",
         queue |-> {}, floor |-> 0, via |-> "none", alone |-> FALSE]

NoRetry == [pc |-> "idle", todo |-> {}, claim |-> "none"]

TypeOK ==
  /\ tasks \in [Id -> Task \cup {NoTask}]
  /\ lock \in [Id -> Session \cup {NoOne}]
  /\ lease \in [Id -> [by : Session \cup {Other, NoOne}, live : BOOLEAN]]
  /\ \A i \in Id : lease[i].live => lease[i].by # NoOne
  /\ watch \in [Session -> SUBSET Id]
  /\ told \in SUBSET (Session \X Id)
  /\ \A s \in Session : call[s].pc # "idle" => call[s].on \in Id \cup {0} /\ call[s].n \in 1..calls
  /\ \A i \in Id : lock[i] # NoOne => call[lock[i]].pc = "write"
  /\ retry.todo \subseteq Session \X Id

Init ==
  /\ tasks = [i \in Id |-> IF i \in DOMAIN Initial THEN Initial[i] ELSE NoTask]
  /\ lock = [i \in Id |-> NoOne]
  /\ lease = [i \in Id |-> Free]
  /\ watch = [s \in Session |-> {}]
  /\ told = {}
  /\ call = [s \in Session |-> Idle]
  /\ beat = [s \in Session |-> {0}]
  /\ retry = NoRetry
  /\ numbers = [service |-> 0, machine |-> 0]
  /\ calls = 0 /\ lapses = 0 /\ outages = 0
  /\ started = [s \in Session |-> {}]
  /\ wiped = {}
  /\ from = [i \in Id |-> "none"]
  /\ closes = [i \in Id |-> 0]
  /\ nexts = [i \in Id |-> 0]
-----------------------------------------------------------------------------
\* Calls. A call begins with what it reads of the store.

Begin(s, c) ==
  /\ call[s].pc = "idle"
  /\ calls < MaxCalls
  /\ calls' = calls + 1
  /\ call' = [call EXCEPT ![s] = [c EXCEPT !.n = calls + 1]]
  /\ UNCHANGED <<tasks, lock, lease, watch, told, beat, retry, numbers, lapses, outages, seenVars>>

\* Another session of this machine has claimed it while offline.
HeldHere(s, t, reclaim) ==
  /\ t.status = "in_progress"
  /\ t.unshared \notin {NoOne, s}
  /\ ~reclaim

Start(s) ==
  \E i \in There, r \in BOOLEAN :
    /\ r => lease[i].by \in Session \/ tasks[i].unshared # NoOne
    /\ ~HeldHere(s, tasks[i], r)
    /\ Begin(s, [Idle EXCEPT !.pc = "claim", !.op = "start", !.on = i, !.to = "in_progress",
                             !.reclaim = r, !.seen = tasks[i]])

\* completeTask and its updateTask read the task twice; the first read decides
\* only what the second leaves to the check under the lock.
Finish(s) ==
  \E i \in There :
    Begin(s, [Idle EXCEPT !.pc = "lock", !.op = "finish", !.on = i, !.to = "complete",
                          !.seen = tasks[i]])

SetAside(s) ==
  \E i \in There, to \in {"pending", "blocked"} :
    /\ tasks[i].status = "in_progress"
    /\ Begin(s, [Idle EXCEPT !.pc = "lock", !.op = "aside", !.on = i, !.to = to, !.seen = tasks[i]])

\* deleteTask: the task is read, then deleted everywhere.
Delete(s) ==
  \E i \in There :
    Begin(s, [Idle EXCEPT !.pc = "delete", !.op = "delete", !.on = i, !.seen = tasks[i]])

Create(s) == Begin(s, [Idle EXCEPT !.pc = "max", !.op = "create"])

\* addDependency and removeDependency: one task's edges, then the other's. What
\* is left of a deleted task's edges can be removed.
Link(s) ==
  \E i, j \in Id, op \in {"link", "unlink"} :
    /\ i < j
    /\ i \in There \/ (op = "unlink" /\ j \in There)
    /\ op = "link" => j \in There
    /\ Begin(s, IF i \in There
                THEN [Idle EXCEPT !.pc = "lock", !.op = op, !.on = i, !.other = j,
                                  !.seen = tasks[j]]
                ELSE [Idle EXCEPT !.pc = "lock", !.op = op, !.on = j, !.other = i,
                                  !.to = "blocked"])

\* What nextTasks offers: `known` says whether the leases could be read.
Ready(i, known) ==
  LET t == tasks[i] IN
  /\ \/ t.status = "pending"
     \/ t.status = "in_progress" /\ known /\ t.unshared = NoOne
  /\ known => ~lease[i].live
  /\ \A d \in t.deps : tasks[d] # NoTask => tasks[d].status = "complete"

NextTask(s) ==
  \E known \in BOOLEAN :
    /\ known \/ outages < MaxOutages
    /\ call[s].pc = "idle"
    /\ calls < MaxCalls
    /\ calls' = calls + 1
    /\ outages' = IF known THEN outages ELSE outages + 1
    /\ call' = [call EXCEPT ![s] = [Idle EXCEPT !.pc = "try", !.op = "next", !.n = calls + 1,
                                      !.to = "in_progress",
                                      !.queue = {i \in There : Ready(i, known)}]]
    /\ UNCHANGED <<tasks, lock, lease, watch, told, beat, retry, numbers, lapses, seenVars>>

\* updateTask of the next task offered, whichever the order puts first; the
\* task is read again.
Try(s) ==
  LET c == call[s] IN
  /\ c.pc = "try"
  /\ \/ /\ c.queue = {}
        /\ call' = [call EXCEPT ![s] = Idle]
     \/ \E i \in c.queue :
          call' = [call EXCEPT ![s] =
            IF tasks[i] = NoTask THEN Idle
            ELSE IF HeldHere(s, tasks[i], FALSE) THEN [c EXCEPT !.queue = c.queue \ {i}]
            ELSE [c EXCEPT !.pc = "claim", !.on = i, !.seen = tasks[i],
                           !.queue = c.queue \ {i}]]
  /\ UNCHANGED <<tasks, lock, lease, watch, told, beat, retry, numbers, budget, seenVars>>
-----------------------------------------------------------------------------
\* Claims.

Granted(s, i, reclaim) ==
  ~lease[i].live \/ lease[i].by = s \/ (reclaim /\ lease[i].by \in Session)

\* The service is out of reach, or answers and the answer is lost.
Outage(s, i, reclaim) ==
  /\ outages < MaxOutages
  /\ outages' = outages + 1
  /\ \/ UNCHANGED lease
     \/ /\ Granted(s, i, reclaim)
        /\ lease' = [lease EXCEPT ![i] = [by |-> s, live |-> TRUE]]

Answered(s, i, reclaim) ==
  /\ lease' = IF Granted(s, i, reclaim) THEN [lease EXCEPT ![i] = [by |-> s, live |-> TRUE]]
              ELSE lease
  /\ UNCHANGED outages

\* A new claim: what was told or wiped of an earlier one is not about it.
Anew(s, i) ==
  /\ told' = told \ {<<s, i>>}
  /\ wiped' = wiped \ {<<s, i>>}

\* claimTask: refused ends the call (or tries the next task offered).
Claim(s) ==
  LET c == call[s] IN
  /\ c.pc = "claim"
  /\ \/ /\ Answered(s, c.on, c.reclaim)
        /\ Granted(s, c.on, c.reclaim)
        /\ call' = [call EXCEPT ![s] = [c EXCEPT !.pc = "note", !.claim = "granted"]]
        /\ Anew(s, c.on)
     \/ /\ Answered(s, c.on, c.reclaim)
        /\ ~Granted(s, c.on, c.reclaim)
        /\ call' = [call EXCEPT ![s] = IF c.op = "next" THEN [c EXCEPT !.pc = "try"] ELSE Idle]
        /\ UNCHANGED <<told, wiped>>
     \/ /\ Outage(s, c.on, c.reclaim)
        /\ call' = [call EXCEPT ![s] = [c EXCEPT !.pc = "lock", !.claim = "unshared"]]
        /\ Anew(s, c.on)
  /\ UNCHANGED <<tasks, lock, watch, beat, retry, numbers, calls, lapses, started, from, closes, nexts>>

\* noteLeaseHeld: the session's marker names the lease.
Note(s) ==
  /\ call[s].pc = "note"
  /\ watch' = [watch EXCEPT ![s] = @ \cup {call[s].on}]
  /\ call' = [call EXCEPT ![s].pc = "lock"]
  /\ UNCHANGED <<tasks, lock, lease, told, beat, retry, numbers, budget, seenVars>>

\* releaseTaskClaim and noteLeaseReleased, when the task was in progress as it
\* was first read.
Releases(c) ==
  /\ c.op \in {"finish", "aside", "delete"}
  /\ c.seen.status = "in_progress"

\* Mutant: judged by the task as it was before the lock.
RecursAsSeen(c) == c.op = "finish" /\ c.seen.recurs /\ c.seen.status # "complete"

\* After the release: the next occurrence of a recurring task, by whoever
\* found it still open.
Recurs(c) == c.op = "finish" /\ c.seen.recurs /\ c.cur.status # "complete"

AfterRelease(c) == IF Recurs(c) THEN [c EXCEPT !.pc = "max"] ELSE Idle

Release(s) ==
  LET c == call[s]  i == c.on IN
  /\ c.pc = "release"
  /\ call' = [call EXCEPT ![s] = AfterRelease(c)]
  /\ \/ /\ lease' = IF lease[i].by = s THEN [lease EXCEPT ![i] = Free] ELSE lease
        /\ watch' = [watch EXCEPT ![s] = @ \ {i}]
        /\ UNCHANGED outages
     \/ /\ outages < MaxOutages
        /\ outages' = outages + 1
        /\ UNCHANGED <<lease, watch>>
  /\ UNCHANGED <<tasks, lock, told, beat, retry, numbers, calls, lapses, seenVars>>
-----------------------------------------------------------------------------
\* Writes, under the document's lock and over the task as it is now.

\* The other task's edges, when it was found and the first task's were edited.
OtherEdge(c) ==
  IF c.op \in {"link", "unlink"} /\ c.to = "pending" /\ c.seen # NoTask
  THEN [c EXCEPT !.pc = "lock", !.to = "blocked", !.on = c.other, !.other = c.on]
  ELSE Idle

\* A link whose first task is gone by now still edits the other's edges.
Lock(s) ==
  LET c == call[s]  i == c.on IN
  /\ c.pc = "lock"
  /\ \/ /\ tasks[i] = NoTask
        /\ call' = [call EXCEPT ![s] = OtherEdge(c)]
        /\ UNCHANGED lock
     \/ /\ tasks[i] # NoTask
        /\ lock[i] = NoOne
        /\ lock' = [lock EXCEPT ![i] = s]
        /\ call' = [call EXCEPT ![s] = [c EXCEPT !.pc = "write", !.cur = tasks[i]]]
  /\ UNCHANGED <<tasks, lease, watch, told, beat, retry, numbers, budget, seenVars>>

\* The first completion keeps its time.
ClosedAt(c) ==
  IF c.op = "finish" /\ c.seen.closed = 0 /\ c.cur.closed = 0 THEN c.n ELSE c.cur.closed

\* An offline claim is marked for a retry; any other change of status clears
\* the mark.
Mark(s, c) == IF c.claim = "unshared" THEN s ELSE NoOne

\* Mutant: the list is written anew, without what other calls added.
EdgesAsSeen(set, op, j) == IF op = "link" THEN {j} ELSE {}

Edges(set, op, j) == IF op = "link" THEN set \cup {j} ELSE set \ {j}

\* The task after the call's change. A store update is a patch of the fields
\* that differ from the task read under the lock.
Updated(s, c, t) ==
  IF c.op \in {"link", "unlink"}
  THEN IF c.pc = "write" /\ c.to = "pending"
       THEN [t EXCEPT !.deps = Edges(c.cur.deps, c.op, c.other)]
       ELSE [t EXCEPT !.blocks = Edges(c.cur.blocks, c.op, c.other)]
  ELSE [t EXCEPT !.status = c.to, !.closed = ClosedAt(c),
                 !.unshared = IF Mark(s, c) = c.cur.unshared THEN t.unshared ELSE Mark(s, c)]

\* Where the call goes on after its write.
AfterWrite(c) ==
  CASE c.op \in {"link", "unlink"} -> OtherEdge(c)
    [] c.op \in {"start", "next"} -> Idle
    [] OTHER -> IF Releases(c) THEN [c EXCEPT !.pc = "release"] ELSE AfterRelease(c)

Unlocked(i) == [lock EXCEPT ![i] = NoOne]

\* History: the task is gone, with the mark it may carry.
Gone(i) ==
  /\ started' = [u \in Session |-> started[u] \ {i}]
  /\ wiped' = IF tasks[i] # NoTask /\ tasks[i].unshared # NoOne
              THEN wiped \cup {<<tasks[i].unshared, i>>} ELSE wiped

Write(s) ==
  LET c == call[s]  i == c.on  t == tasks[i] IN
  /\ c.pc = "write"
  /\ tasks' = IF t = NoTask THEN tasks ELSE [tasks EXCEPT ![i] = Updated(s, c, t)]
  /\ lock' = Unlocked(i)
  /\ call' = [call EXCEPT ![s] = AfterWrite(c)]
  /\ started' = [u \in Session |->
       IF u # s \/ c.op \in {"link", "unlink"} THEN started[u]
       ELSE IF c.op \in {"start", "next"} /\ t # NoTask THEN started[u] \cup {i}
       ELSE started[u] \ {i}]
  /\ wiped' = IF t # NoTask /\ t.unshared \notin {NoOne, s} /\ tasks'[i].unshared # t.unshared
              THEN wiped \cup {<<t.unshared, i>>} ELSE wiped
  /\ closes' = IF c.op = "finish" /\ (IF t = NoTask THEN TRUE ELSE t.status # "complete")
               THEN [closes EXCEPT ![i] = @ + 1] ELSE closes
  /\ UNCHANGED <<lease, watch, told, beat, retry, numbers, budget, from, nexts>>

Remove(s) ==
  LET c == call[s]  i == c.on IN
  /\ c.pc = "delete"
  /\ tasks' = [tasks EXCEPT ![i] = NoTask]
  /\ call' = [call EXCEPT ![s] = IF Releases(c) THEN [c EXCEPT !.pc = "release"] ELSE Idle]
  /\ Gone(i)
  /\ UNCHANGED <<lock, lease, watch, told, beat, retry, numbers, budget, from, closes, nexts>>
-----------------------------------------------------------------------------
\* New tasks: a number, and the document.

\* getNextTaskId reads the highest number in the store.
ReadMax(s) ==
  LET c == call[s] IN
  /\ c.pc = "max"
  /\ call' = [call EXCEPT ![s] = [c EXCEPT !.pc = "number", !.floor = Max({c.floor} \cup There)]]
  /\ UNCHANGED <<tasks, lock, lease, watch, told, beat, retry, numbers, budget, seenVars>>

\* Mutant: the highest number and one.
NumberAfterMax(via, floor) == floor + 1

\* The service's counter; out of reach, the machine's; that one busy or
\* unreadable, the highest number and one, which no counter remembers.
NumberFrom(via, floor) ==
  IF via = "max" THEN floor + 1 ELSE Max({numbers[via], floor}) + 1

\* One outage may hit the service and the machine's file in one call.
Number(s) ==
  LET c == call[s] IN
  /\ c.pc = "number"
  /\ \E via \in {"service", "machine", "max"} :
       LET k == NumberFrom(via, c.floor)
           fails == via = "max" \/ (via = "machine" /\ ~c.alone) IN
       /\ via = "service" => ~c.alone
       /\ fails => outages < MaxOutages
       /\ k \in Id
       /\ outages' = IF fails THEN outages + 1 ELSE outages
       /\ numbers' = IF via = "max" THEN numbers ELSE [numbers EXCEPT ![via] = k]
       /\ call' = [call EXCEPT ![s] = [c EXCEPT !.pc = "taken", !.floor = k, !.via = via]]
  /\ UNCHANGED <<tasks, lock, lease, watch, told, beat, retry, calls, lapses, seenVars>>

\* freshTaskId: a number found taken is skipped, by this machine's counter.
Taken(s) ==
  LET c == call[s] IN
  /\ c.pc = "taken"
  /\ call' = [call EXCEPT ![s] = IF c.floor \in There
                                 THEN [c EXCEPT !.pc = "max", !.alone = TRUE]
                                 ELSE [c EXCEPT !.pc = "add"]]
  /\ UNCHANGED <<tasks, lock, lease, watch, told, beat, retry, numbers, budget, seenVars>>

Add(s) ==
  LET c == call[s] IN
  /\ c.pc = "add"
  /\ tasks' = [tasks EXCEPT ![c.floor] = Made(c.op = "finish")]
  /\ call' = [call EXCEPT ![s] = Idle]
  /\ from' = [from EXCEPT ![c.floor] = c.via]
  /\ nexts' = IF c.op = "finish" THEN [nexts EXCEPT ![c.on] = @ + 1] ELSE nexts
  /\ Gone(c.floor)
  /\ UNCHANGED <<lock, lease, watch, told, beat, retry, numbers, budget, closes>>
-----------------------------------------------------------------------------
\* Heartbeats and the retry of unshared claims.

\* heartbeatIfDue renews every lease of the session, the lapsed ones too.
Beat(s) ==
  LET mine == {i \in Id : lease[i].by = s} IN
  /\ watch[s] # {}
  /\ beat[s] = {0}
  /\ lease' = [i \in Id |-> IF i \in mine THEN [by |-> s, live |-> TRUE] ELSE lease[i]]
  /\ beat' = [beat EXCEPT ![s] = mine]
  /\ UNCHANGED <<tasks, lock, watch, told, call, retry, numbers, budget, seenVars>>

\* Mutant: a lease is lost only when none was renewed.
LostWhenAll(s) == IF beat[s] = {} THEN watch[s] ELSE {}

\* noteRenewed: a watched lease that was not renewed is lost.
LostOf(s) == watch[s] \ beat[s]

NoteBeat(s) ==
  /\ beat[s] # {0}
  /\ told' = told \cup ({s} \X LostOf(s))
  /\ watch' = [watch EXCEPT ![s] = @ \cap beat[s]]
  /\ beat' = [beat EXCEPT ![s] = {0}]
  /\ UNCHANGED <<tasks, lock, lease, call, retry, numbers, budget, seenVars>>

\* retryUnsharedClaims lists the claims to retry ...
RetryList ==
  /\ retry.pc = "idle"
  /\ LET todo == {e \in Session \X There : tasks[e[2]].status = "in_progress"
                                           /\ tasks[e[2]].unshared = e[1]}
     IN todo # {} /\ retry' = [NoRetry EXCEPT !.pc = "claim", !.todo = todo]
  /\ UNCHANGED <<tasks, lock, lease, watch, told, call, beat, numbers, budget, seenVars>>

\* ... claims each; still out of reach, it tries again later ...
RetryClaim ==
  /\ retry.pc = "claim"
  /\ LET e == CHOOSE x \in retry.todo : TRUE IN
     \/ /\ Answered(e[1], e[2], FALSE)
        /\ retry' = [retry EXCEPT !.pc = "clear",
                       !.claim = IF Granted(e[1], e[2], FALSE) THEN "granted" ELSE "refused"]
     \/ /\ Outage(e[1], e[2], FALSE)
        /\ retry' = NoRetry
  /\ UNCHANGED <<tasks, lock, watch, told, call, beat, numbers, calls, lapses, seenVars>>

\* Mutant: a refused retry is dropped.
RetryTellsNobody(e) == FALSE

\* ... and clears the mark, with a notice when somebody else holds the task.
RetryTells(e) == retry.claim = "refused"

RetryClear ==
  /\ retry.pc = "clear"
  /\ LET e == CHOOSE x \in retry.todo : TRUE  s == e[1]  i == e[2]
         left == retry.todo \ {e} IN
     /\ watch' = IF retry.claim = "granted" THEN [watch EXCEPT ![s] = @ \cup {i}] ELSE watch
     /\ told' = IF RetryTells(e) THEN told \cup {e} ELSE told
     /\ tasks' = IF tasks[i] = NoTask THEN tasks ELSE [tasks EXCEPT ![i].unshared = NoOne]
     /\ wiped' = IF tasks[i] # NoTask /\ tasks[i].unshared \notin {NoOne, s}
                 THEN wiped \cup {<<tasks[i].unshared, i>>} ELSE wiped
     /\ retry' = IF left = {} THEN NoRetry ELSE [NoRetry EXCEPT !.pc = "claim", !.todo = left]
  /\ UNCHANGED <<lock, lease, call, beat, numbers, budget, started, from, closes, nexts>>

\* A lease runs out; a colleague takes a free one, and leaves it.
Lapse(i) ==
  /\ lease[i].live /\ lapses < MaxLapses
  /\ lapses' = lapses + 1
  /\ lease' = [lease EXCEPT ![i].live = FALSE]
  /\ UNCHANGED <<tasks, lock, watch, told, call, beat, retry, numbers, calls, outages, seenVars>>

OtherTakes(i) ==
  /\ i \in There /\ ~lease[i].live
  /\ lease' = [lease EXCEPT ![i] = [by |-> Other, live |-> TRUE]]
  /\ UNCHANGED <<tasks, lock, watch, told, call, beat, retry, numbers, budget, seenVars>>

Next ==
  \/ \E s \in Session :
       \/ Start(s) \/ Finish(s) \/ SetAside(s) \/ Delete(s) \/ Create(s) \/ Link(s) \/ NextTask(s)
       \/ Try(s) \/ Claim(s) \/ Note(s) \/ Release(s) \/ Lock(s) \/ Write(s) \/ Remove(s)
       \/ ReadMax(s) \/ Number(s) \/ Taken(s) \/ Add(s) \/ Beat(s) \/ NoteBeat(s)
  \/ RetryList \/ RetryClaim \/ RetryClear
  \/ \E i \in Id : Lapse(i) \/ OtherTakes(i)

Spec == Init /\ [][Next]_vars
-----------------------------------------------------------------------------
\* The session is in a call that has claimed the task and not written it yet.
Claiming(s, i) ==
  call[s].pc \in {"note", "lock", "write"} /\ call[s].on = i /\ call[s].claim # "none"

\* A session whose started task is in progress and leased to somebody else has
\* been told, or will be: the retry of its claim or the next heartbeat finds out
\* (claim.ts:10-12), or it is just claiming the task again. Excepted: a mark that
\* another session's change cleared, or that went with the document.
ClashIsTold ==
  \A s \in Session, i \in Id :
    /\ i \in started[s]
    /\ tasks[i] # NoTask /\ tasks[i].status = "in_progress"
    /\ lease[i].live /\ lease[i].by # s
    => \/ <<s, i>> \in told \cup wiped
       \/ i \in watch[s]
       \/ tasks[i].unshared = s
       \/ Claiming(s, i)

FirstCloseKept(i) ==
  tasks[i].closed # 0 => tasks'[i].closed = tasks[i].closed

EdgesKept(c, i) ==
  LET gone == IF c.op = "unlink" THEN {c.other} ELSE {} IN
  /\ tasks[i].deps \ tasks'[i].deps \subseteq gone
  /\ tasks[i].blocks \ tasks'[i].blocks \subseteq gone

\* A write under the lock keeps what others wrote (dependencies.ts:8-10): the time
\* of the first completion stays, whoever completes the task again, and an edge
\* goes only by the call that unlinks it.
OthersKept ==
  [][\A s \in Session, i \in Id :
       Write(s) /\ tasks[i] # NoTask /\ tasks'[i] # NoTask
         => FirstCloseKept(i) /\ EdgesKept(call[s], i)]_vars

\* Sessions that complete a recurring task together make one next occurrence.
OneNextOccurrence == \A i \in Id : nexts[i] <= closes[i]

\* The tasks are well formed, and each completion of a recurring one has made
\* at most one next occurrence.
Consistent == TypeOK /\ OneNextOccurrence

\* A number of one counter is never given to two tasks of this machine: a new
\* task replaces another only where the service numbered one of them and the
\* machine the other, or where no counter did (create.ts:109-112).
NewTaskReplacesNone ==
  [][\A s \in Session : Add(s) /\ tasks[call[s].floor] # NoTask
       => from[call[s].floor] # call[s].via \/ call[s].via = "max"]_vars
=============================================================================
