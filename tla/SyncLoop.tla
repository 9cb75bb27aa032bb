------------------------------ MODULE SyncLoop ------------------------------
(***************************************************************************)
(* When a write leaves the machine: core/sync/index.ts and shared-cycle.ts,*)
(* with the MCP servers (packages/mcp: one process per session) and the    *)
(* dsh plugins (packages/dsh) that run them over one local store.  What a  *)
(* push or a pull does with a document is DocSync; here a push reads whose *)
(* writes are unpushed and clears them when the remote answers.            *)
(*                                                                         *)
(* A process is single-threaded: between two awaits nothing else of it     *)
(* runs, but other processes do, so the lock file is made, named, read and *)
(* removed in steps.  A release reads and removes in one.                  *)
(***************************************************************************)
EXTENDS DshTools, FiniteSets

CONSTANTS Mcp, Dsh,   \* the processes of each kind
          Others,     \* what writes to the store besides them
          Slot, MayHave,   \* the background work each process may have at once
          NoSlot, NoLock, NoCall, Dead,
          MaxCalls, MaxStarts, MaxCrashes, MaxFailures, MaxToggles   \* bounds

Server == Mcp \cup Dsh
Writer == Server \cup Others

ASSUME SyncLoopAssumption ==
  /\ Mcp \cap Dsh = {} /\ Others \cap Server = {} /\ NoSlot \notin Slot
  /\ MayHave \in [Server -> SUBSET Slot]
  /\ Dead \notin Server \X Slot

VARIABLES
  host,     \* each process, or the plugin in it
  loop,     \* its timers and what the plugin believes of them
  soon,     \* its soonTimer is set
  work,     \* its background work
  inFlight, \* the work the shutdown would wait for
  call,     \* the tool call it is in
  pending,  \* the writers with unpushed writes in the store
  fresh,    \* a cycle of this machine is recorded within the interval
  lock,     \* the cycle lock file
  used,     \* counts of what the bounds limit
  owed      \* history: processes whose last call wrote and is to be pushed soon

vars == <<host, loop, soon, work, inFlight, call, pending, fresh, lock, used,
          owed>>

Kind == {"initial", "tick", "push", "flush", "tool"}
\* From "name" to "again" the process is inside tryAcquireCycle.
WorkPC == {"free", "tick", "name", "held", "break", "again", "push", "sent", "pull"}
Work == [kind : Kind, pc : WorkPC, seen : SUBSET Writer, awaited : BOOLEAN]
FreeSlot == [kind |-> "push", pc |-> "free", seen |-> {}, awaited |-> FALSE]

\* syncTimer, timers whose handle was overwritten, timerActive, startSyncs
\* waiting for prepare, SYNC_ENABLED, syncCtl.active; late is history.
Loop == [armed : BOOLEAN, stray : Nat, active : BOOLEAN, starting : Nat,
         on : BOOLEAN, owned : BOOLEAN, late : BOOLEAN]
NoLoop == [armed |-> FALSE, stray |-> 0, active |-> FALSE, starting |-> 0,
           on |-> TRUE, owned |-> FALSE, late |-> FALSE]

\* What a tool call may do here: write, run a cycle, submit a job; then maybe
\* schedule a push.  A call that does none of it is left out, as is one the
\* plugin's user is asked about and refuses.  The MCP server's deletions are
\* writes like others.
Effects(run) == SelectSeq(run.did, LAMBDA effect : effect # "keep")
Written(run) ==
  LET did == SelectSeq(run.did, LAMBDA effect : effect \notin {"keep", "job"})
  IN  [i \in DOMAIN did |-> IF did[i] = "destroy" THEN "share" ELSE did[i]]
McpCalls == {[did |-> Written(t.run), soon |-> t.soon] : t \in withSyncOnWrite}
DshCalls == {[did |-> Effects(r), soon |-> FALSE] : r \in registerPluginTools}
CallsOf(p) == {c \in IF p \in Mcp THEN McpCalls ELSE DshCalls : c.did # <<>> \/ c.soon}
Effect == {"share", "destroy", "job", "cycle"}
Call == [did : Seq(Effect), soon : BOOLEAN, wrote : BOOLEAN,
         awaits : Slot \cup {NoSlot}]

\* Of the tables of tools, which are fixed: TLC evaluates this once and for all.
ASSUME ToolsAssumption ==
  McpCalls \cup DshCalls \subseteq [did : Seq(Effect), soon : BOOLEAN]

TypeOK ==
  /\ host \in [Server -> {"off", "up", "rolling", "flushing", "disposed"}]
  /\ loop \in [Server -> Loop]
  /\ soon \in [Server -> BOOLEAN]
  /\ work \in [Server -> [Slot -> Work]]
  /\ inFlight \in [Server -> Slot \cup {NoSlot}]
  /\ \A p \in Server : inFlight[p] # NoSlot => work[p][inFlight[p]].pc # "free"
  /\ call \in [Server -> Call \cup {NoCall}]
  /\ pending \subseteq Writer
  /\ fresh \in BOOLEAN
  /\ lock \in [by : (Server \X Slot) \cup {Dead}, named : BOOLEAN, old : BOOLEAN] \cup {NoLock}
  /\ used \in [{"calls", "starts", "crashes", "failures", "toggles"} -> Nat]
  /\ owed \subseteq Server

Init ==
  /\ host = [p \in Server |-> "off"]
  /\ loop = [p \in Server |-> NoLoop]
  /\ soon = [p \in Server |-> FALSE]
  /\ work = [p \in Server |-> [s \in Slot |-> FreeSlot]]
  /\ inFlight = [p \in Server |-> NoSlot]
  /\ call = [p \in Server |-> NoCall]
  /\ pending = {} /\ fresh = FALSE /\ lock = NoLock
  /\ used = [what \in {"calls", "starts", "crashes", "failures", "toggles"} |-> 0]
  /\ owed = {} 

-----------------------------------------------------------------------------
Spend(what, bound) == used[what] < bound /\ used' = [used EXCEPT ![what] = @ + 1]

\* Between two awaits.
Idle(p) ==
  \A s \in Slot : work[p][s].pc \notin {"name", "held", "break", "again"}

\* syncRunning
Running(p) ==
  \E s \in Slot : work[p][s].kind \in {"initial", "tick", "tool"}
                  /\ work[p][s].pc \in {"push", "sent", "pull"}

Begun(kind, pc) == [FreeSlot EXCEPT !.kind = kind, !.pc = pc]

\* scheduleTick: the handle of a timer still armed is overwritten.
scheduleTick(l) ==
  [l EXCEPT !.armed = TRUE, !.stray = IF l.armed THEN @ + 1 ELSE @]

\* s takes the next piece of work of process p.
FreeIn(p, s) ==
  LET free == {t \in MayHave[p] : work[p][t].pc = "free"}
  IN  free # {} /\ s = CHOOSE t \in free : TRUE

\* runTracked
Track(p, s, kind, pc) ==
  /\ FreeIn(p, s)
  /\ work' = [work EXCEPT ![p][s] = Begun(kind, pc)]
  /\ inFlight' = [inFlight EXCEPT ![p] = s]

\* Mutant: a tick schedules the next one whatever happened meanwhile.
RescheduledAlways(p, kind) == IF kind = "tick" THEN scheduleTick(loop[p]) ELSE loop[p]

\* After a timer's tick, if the loop has not been stopped.
Rescheduled(p, kind) ==
  IF kind = "tick" /\ loop[p].active THEN scheduleTick(loop[p]) ELSE loop[p]

\* The work settles; inFlight is cleared if it is still this one.
Settled(p, s) ==
  /\ work' = [work EXCEPT ![p][s] = FreeSlot]
  /\ inFlight' = [inFlight EXCEPT ![p] = IF @ = s THEN NoSlot ELSE @]
  /\ loop' = [loop EXCEPT ![p] = Rescheduled(p, work[p][s].kind)]

Moved(p, s, pc) ==
  /\ work' = [work EXCEPT ![p][s].pc = pc]
  /\ UNCHANGED <<inFlight, loop>>

\* The loop without the timer that fires: the one armed, or one whose handle
\* was overwritten.
Fired(l) ==
  {f \in {[l EXCEPT !.armed = FALSE], [l EXCEPT !.stray = @ - 1]} :
     f.stray >= 0 /\ f # l}

-----------------------------------------------------------------------------
\* main, or the plugin's effect when sync is configured: startSync waits for
\* prepare.
Start(p) ==
  /\ host[p] = "off" \/ (p \in Dsh /\ host[p] = "disposed")
  /\ Spend("starts", MaxStarts)
  /\ host' = [host EXCEPT ![p] = "up"]
  /\ loop' = [loop EXCEPT ![p].starting = IF loop[p].on THEN @ + 1 ELSE @,
                          ![p].owned = loop[p].on]
  /\ UNCHANGED <<soon, work, inFlight, call, pending, fresh, lock, owed>>

\* stopSync
Stopped(l) == [l EXCEPT !.active = FALSE, !.armed = FALSE]

\* A setting switches sync on or off: applySyncState.
syncChanged(p) ==
  /\ p \in Dsh /\ host[p] = "up" /\ Idle(p)
  /\ Spend("toggles", MaxToggles)
  /\ loop' = [loop EXCEPT ![p] =
       IF loop[p].on THEN Stopped([@ EXCEPT !.on = FALSE, !.owned = FALSE])
       ELSE [@ EXCEPT !.on = TRUE, !.owned = TRUE, !.starting = loop[p].starting + 1]]
  /\ UNCHANGED <<host, soon, work, inFlight, call, pending, fresh, lock, owed>>

\* The plugin is removed or reloaded; its process lives on.
Dispose(p) ==
  /\ p \in Dsh /\ host[p] = "up" /\ Idle(p)
  /\ host' = [host EXCEPT ![p] = "disposed"]
  /\ loop' = [loop EXCEPT ![p] = IF @.owned THEN Stopped([@ EXCEPT !.owned = FALSE]) ELSE @]
  /\ UNCHANGED <<soon, work, inFlight, call, pending, fresh, lock, used, owed>>

\* Mutant: the debounced push gives way to a running cycle.
FireSoonSkips(p, s) ==
  /\ Idle(p) /\ soon[p]
  /\ soon' = [soon EXCEPT ![p] = FALSE]
  /\ IF Running(p) THEN UNCHANGED <<work, inFlight>> ELSE Track(p, s, "push", "push")
  /\ UNCHANGED <<host, loop, call, pending, fresh, lock, used, owed>>

\* The debounce ends: pushNow.
FireSoon(p, s) ==
  /\ Idle(p) /\ soon[p]
  /\ soon' = [soon EXCEPT ![p] = FALSE]
  /\ Track(p, s, "push", "push")
  /\ UNCHANGED <<host, loop, call, pending, fresh, lock, used, owed>>

-----------------------------------------------------------------------------
\* syncTick and tryAcquireCycle.
MadeLock(p, s) == [by |-> <<p, s>>, named |-> FALSE, old |-> FALSE]

\* The lock file is made, or is there already.
Open(p, s) == /\ lock' = IF lock = NoLock THEN MadeLock(p, s) ELSE lock
              /\ inFlight' = [inFlight EXCEPT ![p] = s]
Opened(kind) == Begun(kind, IF lock = NoLock THEN "name" ELSE "held")

\* A timer of the loop fires.  A tick that is not due is over at once, having
\* been in flight.
FireTick(p, s) ==
  /\ Idle(p) /\ FreeIn(p, s)
  /\ \E l \in Fired(loop[p]) :
       IF fresh
       THEN /\ loop' = [loop EXCEPT ![p] = IF l.active THEN scheduleTick(l) ELSE l]
            /\ inFlight' = [inFlight EXCEPT ![p] = NoSlot]
            /\ UNCHANGED <<work, lock>>
       ELSE /\ loop' = [loop EXCEPT ![p] = l]
            /\ work' = [work EXCEPT ![p][s] = Opened("tick")]
            /\ Open(p, s)
  /\ UNCHANGED <<host, soon, call, pending, fresh, used, owed>>

\* The rest of startSync, after prepare has answered or failed.
Connected(p, s) ==
  /\ Idle(p) /\ FreeIn(p, s) /\ loop[p].starting > 0
  /\ loop' = [loop EXCEPT ![p] = scheduleTick([@ EXCEPT
                !.starting = loop[p].starting - 1, !.active = TRUE,
                !.late = loop[p].late \/ (p \in Dsh /\ ~loop[p].owned)])]
  /\ IF fresh
     THEN Track(p, s, "initial", "tick") /\ UNCHANGED lock
     ELSE work' = [work EXCEPT ![p][s] = Opened("initial")] /\ Open(p, s)
  /\ UNCHANGED <<host, soon, call, pending, fresh, used, owed>>

\* The first tick of a start may run though none is due: a store never pulled,
\* or an older server's cycle.
Initial(p, s) ==
  /\ Idle(p) /\ work[p][s].pc = "tick"
  /\ \/ Settled(p, s) /\ UNCHANGED lock
     \/ /\ work' = [work EXCEPT ![p][s] = Opened("initial")]
        /\ lock' = IF lock = NoLock THEN MadeLock(p, s) ELSE lock
        /\ UNCHANGED <<inFlight, loop>>
  /\ UNCHANGED <<host, soon, call, pending, fresh, used, owed>>

\* Mutant: only age makes a lock stale.
StaleByAge == lock = NoLock \/ ~lock.named \/ lock.old

\* Unreadable, its process is gone, or too old.
Stale == lock = NoLock \/ ~lock.named \/ lock.by = Dead \/ lock.old

Judge(p, s) ==
  /\ work[p][s].pc = "held"
  /\ IF Stale THEN Moved(p, s, "break") ELSE Settled(p, s)
  /\ UNCHANGED <<host, soon, call, pending, fresh, lock, used, owed>>

\* Whatever lock is there by now is removed.
Break(p, s) ==
  /\ work[p][s].pc = "break" /\ Moved(p, s, "again")
  /\ lock' = NoLock
  /\ UNCHANGED <<host, soon, call, pending, fresh, used, owed>>

TryAgain(p, s) ==
  /\ work[p][s].pc = "again"
  /\ IF lock = NoLock
     THEN Moved(p, s, "name") /\ lock' = MadeLock(p, s)
     ELSE Settled(p, s) /\ UNCHANGED lock
  /\ UNCHANGED <<host, soon, call, pending, fresh, used, owed>>

\* release: only a lock that still names this take.
released(p, s) ==
  IF lock # NoLock /\ lock.named /\ lock.by = <<p, s>> THEN NoLock ELSE lock

\* The name goes into the file that was made, wherever it is by now; then
\* syncCycle, which does nothing while another cycle of this process runs.
Name(p, s) ==
  /\ work[p][s].pc = "name"
  /\ IF lock # NoLock /\ lock.by = <<p, s>>
     THEN lock' = IF Running(p) THEN NoLock ELSE [lock EXCEPT !.named = TRUE]
     ELSE UNCHANGED lock
  /\ IF Running(p) THEN Settled(p, s) ELSE Moved(p, s, "push")
  /\ UNCHANGED <<host, soon, call, pending, fresh, used, owed>>

-----------------------------------------------------------------------------
\* pushToRemote, one at a time in a process (pushChain): what is unpushed is
\* read, also by a loop that runs on with sync switched off.
Read(p, s) ==
  /\ Idle(p) /\ work[p][s].pc = "push"
  /\ \A t \in Slot : work[p][t].pc # "sent"
  /\ work' = [work EXCEPT ![p][s].pc = "sent", ![p][s].seen = pending]
  /\ UNCHANGED <<host, loop, soon, inFlight, call, pending, fresh, lock, used, owed>>

\* The push ends; a cycle goes on to its pull.
PushEnds(p, s) ==
  IF work[p][s].kind \in {"push", "flush"} THEN Settled(p, s) ELSE Moved(p, s, "pull")

Answer(p, s) ==
  /\ Idle(p) /\ work[p][s].pc = "sent"
  /\ pending' = pending \ work[p][s].seen
  /\ owed' = owed \ work[p][s].seen
  /\ PushEnds(p, s)
  /\ UNCHANGED <<host, soon, call, fresh, lock, used>>

\* The remote is away, or its answer is lost: the writes wait for a later push.
Fail(p, s) ==
  /\ Idle(p) /\ work[p][s].pc = "sent" /\ work[p][s].seen # {}
  /\ Spend("failures", MaxFailures)
  /\ owed' = owed \ (work[p][s].seen \cap {p})
  /\ PushEnds(p, s)
  /\ UNCHANGED <<host, soon, call, pending, fresh, lock>>

\* The pull ends; the cycle is recorded, failed or not, and the lock released.
Finish(p, s) ==
  /\ Idle(p) /\ work[p][s].pc = "pull"
  /\ fresh' = TRUE
  /\ lock' = released(p, s)
  /\ Settled(p, s)
  /\ UNCHANGED <<host, soon, call, pending, used, owed>>

-----------------------------------------------------------------------------
\* Tool calls.  wrote: this call has written to the store.
Unpushed(p) ==
  /\ pending' = pending \cup {p}
  /\ work' = [q \in Server |-> [s \in Slot |-> [work[q][s] EXCEPT !.seen = @ \ {p}]]]
  /\ owed' = owed \ {p}

BeginCall(p) ==
  /\ host[p] = "up" /\ call[p] = NoCall /\ Idle(p)
  /\ Spend("calls", MaxCalls)
  /\ \E c \in CallsOf(p) :
       call' = [call EXCEPT ![p] = [did |-> c.did, soon |-> c.soon, wrote |-> FALSE,
                                    awaits |-> NoSlot]]
  /\ UNCHANGED <<host, loop, soon, work, inFlight, pending, fresh, lock, owed>>

Next1(p) == Head(call[p].did)
Rest(p) == [call EXCEPT ![p].did = Tail(@)]

Write(p) ==
  /\ Idle(p) /\ call[p] # NoCall /\ call[p].did # <<>>
  /\ Next1(p) \in {"share", "destroy"}
  /\ Unpushed(p)
  /\ call' = [Rest(p) EXCEPT ![p].wrote = call[p].soon]
  /\ UNCHANGED <<host, loop, soon, inFlight, fresh, lock, used>>

SubmitJob(p) ==
  /\ Idle(p) /\ call[p] # NoCall /\ call[p].did # <<>> /\ Next1(p) = "job"
  /\ call' = Rest(p)
  /\ UNCHANGED <<host, loop, soon, work, inFlight, pending, fresh, lock, used, owed>>

\* syncCycle from a handler: no lock, not tracked, skipped while one runs.
CallCycle(p, s) ==
  /\ Idle(p) /\ call[p] # NoCall /\ call[p].did # <<>> /\ Next1(p) = "cycle"
  /\ IF Running(p)
     THEN UNCHANGED work /\ call' = Rest(p)
     ELSE /\ FreeIn(p, s)
          /\ work' = [work EXCEPT ![p][s] = Begun("tool", "push")]
          /\ call' = [Rest(p) EXCEPT ![p].awaits = s]
  /\ UNCHANGED <<host, loop, soon, inFlight, pending, fresh, lock, used, owed>>

\* The handler is done; a listed tool of the MCP server that returned schedules
\* a push.
EndCall(p) ==
  /\ Idle(p) /\ call[p] # NoCall /\ call[p].did = <<>>
  /\ call[p].awaits # NoSlot => work[p][call[p].awaits].kind # "tool"
  /\ call' = [call EXCEPT ![p] = NoCall]
  /\ soon' = [soon EXCEPT ![p] = @ \/ call[p].soon]
  /\ owed' = IF call[p].soon /\ call[p].wrote /\ p \in pending /\ host[p] = "up"
             THEN owed \cup {p} ELSE owed
  /\ UNCHANGED <<host, loop, work, inFlight, pending, fresh, lock, used>>

\* A plugin's own work, which may write shared documents or none.
PluginWrites(p) ==
  /\ p \in Dsh /\ host[p] = "up" /\ Idle(p)
  /\ Spend("calls", MaxCalls)
  /\ \E r \in pluginWork :
       IF Shares(r) THEN Unpushed(p) ELSE UNCHANGED <<work, pending, owed>>
  /\ UNCHANGED <<host, loop, soon, inFlight, call, fresh, lock>>

-----------------------------------------------------------------------------
\* The MCP server's shutdown: the session's journal is rolled into a memory
\* first (Sessions).
Shutdown(p) ==
  /\ p \in Mcp /\ host[p] = "up" /\ Idle(p)
  /\ host' = [host EXCEPT ![p] = "rolling"]
  /\ UNCHANGED <<loop, soon, work, inFlight, call, pending, fresh, lock, used, owed>>

\* Mutant: only work already in flight is waited for.
flushPendingSyncInFlight(p) ==
  /\ IF inFlight[p] # NoSlot THEN work' = [work EXCEPT ![p][inFlight[p]].awaited = TRUE]
                             ELSE UNCHANGED work
  /\ UNCHANGED <<soon, inFlight>>

\* A push still waiting on the debounce goes out now, else what is in flight is
\* waited for.
flushPendingSync(p) ==
  \/ /\ soon[p]
     /\ soon' = [soon EXCEPT ![p] = FALSE]
     /\ \E s \in Slot :
          /\ FreeIn(p, s)
          /\ work' = [work EXCEPT ![p][s] =
                                [Begun("flush", "push") EXCEPT !.awaited = TRUE]]
          /\ inFlight' = [inFlight EXCEPT ![p] = s]
  \/ /\ ~soon[p] /\ inFlight[p] # NoSlot
     /\ work' = [work EXCEPT ![p][inFlight[p]].awaited = TRUE]
     /\ UNCHANGED <<soon, inFlight>>
  \/ ~soon[p] /\ inFlight[p] = NoSlot /\ UNCHANGED <<soon, work, inFlight>>

\* The rest of the handler, after consolidateSessionEverywhere.
Flush(p) ==
  /\ host[p] = "rolling" /\ Idle(p)
  /\ host' = [host EXCEPT ![p] = "flushing"]
  /\ flushPendingSync(p)
  /\ UNCHANGED <<loop, call, pending, fresh, lock, used, owed>>

Ended(p) ==
  /\ host' = [host EXCEPT ![p] = "off"]
  /\ loop' = [loop EXCEPT ![p] = NoLoop]
  /\ soon' = [soon EXCEPT ![p] = FALSE]
  /\ work' = [work EXCEPT ![p] = [s \in Slot |-> FreeSlot]]
  /\ inFlight' = [inFlight EXCEPT ![p] = NoSlot]
  /\ call' = [call EXCEPT ![p] = NoCall]
  /\ lock' = IF lock # NoLock /\ lock.by \in {p} \X Slot
             THEN [lock EXCEPT !.by = Dead] ELSE lock
  /\ owed' = owed \ {p}
  /\ UNCHANGED <<pending, fresh>>

Exit(p) ==
  /\ host[p] = "flushing" /\ Idle(p)
  /\ \A s \in Slot : ~work[p][s].awaited
  /\ Ended(p) /\ UNCHANGED used

\* The budget of the flush or of the shutdown is over first.
TimeOut(p) ==
  /\ host[p] \in {"rolling", "flushing"} /\ Idle(p)
  /\ Ended(p) /\ UNCHANGED used

Crash(p) ==
  /\ host[p] # "off"
  /\ Spend("crashes", MaxCrashes)
  /\ Ended(p)

-----------------------------------------------------------------------------
\* Time.
\* An interval passes since the last cycle; a lock taken well before is old.
IntervalPasses ==
  /\ fresh /\ fresh' = FALSE
  /\ lock' \in {lock} \cup {[l EXCEPT !.old = TRUE] : l \in {lock} \ {NoLock}}
  /\ UNCHANGED <<host, loop, soon, work, inFlight, call, pending, used, owed>>

WorkStep(p, s) ==
  \/ Initial(p, s) \/ Judge(p, s) \/ Break(p, s) \/ TryAgain(p, s) \/ Name(p, s)
  \/ Read(p, s) \/ Answer(p, s) \/ Fail(p, s) \/ Finish(p, s)
TimerStep(p, s) == FireTick(p, s) \/ FireSoon(p, s) \/ Connected(p, s)
CallStep(p) ==
  \/ BeginCall(p) \/ Write(p) \/ SubmitJob(p) \/ EndCall(p) \/ PluginWrites(p)
  \/ \E s \in Slot : CallCycle(p, s)
HostStep(p) ==
  \/ Start(p) \/ syncChanged(p) \/ Dispose(p) \/ Shutdown(p) \/ Flush(p) \/ Exit(p)
  \/ TimeOut(p) \/ Crash(p)

Next ==
  \/ \E p \in Server : CallStep(p) \/ HostStep(p)
                       \/ \E s \in Slot : WorkStep(p, s) \/ TimerStep(p, s)
  \/ IntervalPasses

Spec == Init /\ [][Next]_vars

\* Node runs the callbacks that stay ready and the timers fire.  Nobody has to
\* call a tool, start a server or let a lock grow old.
Fairness ==
  /\ \A p \in Server :
       /\ WF_vars(\E s \in Slot : WorkStep(p, s))
       /\ WF_vars(\E s \in Slot : FireTick(p, s))
       /\ WF_vars(\E s \in Slot : Connected(p, s))
  /\ WF_vars(IntervalPasses)

FairSpec == Spec /\ Fairness
-----------------------------------------------------------------------------
\* Work that will still read, or has read, p's unpushed writes.
WillPush(p, s) ==
  \/ work[p][s].pc = "push"
  \/ work[p][s].pc = "sent" /\ p \in work[p][s].seen

\* The last write of a listed MCP tool does not sit until the next interval:
\* once the tool has returned, a push of it is scheduled, waiting or under way
\* until one has sent it or failed, whatever cycles run meanwhile
\* (scheduleSyncSoon, pushNow).
PromptPush ==
  \A p \in owed : host[p] = "up" => soon[p] \/ \E s \in Slot : WillPush(p, s)

\* Work a shutdown does not know of: later work took its place in inFlight.
Forgotten(p) ==
  \E s \in Slot : work[p][s].pc # "free" /\ work[p][s].kind # "tool" /\ s # inFlight[p]

\* A server that exits within its budget has sent the writes its tools
\* returned with, or the push has failed (flushPendingSync), except a push
\* that runTracked no longer remembers.
FlushSent == [][\A p \in Mcp : Exit(p) => p \notin owed \/ Forgotten(p)]_vars

\* A plugin that was removed, or whose sync was turned off, keeps no timer
\* (lifecycle.ts), also when a tick is under way then; except a start that was
\* still waiting for the remote, which sets the loop going afterwards.
StopsWithPlugin ==
  \A p \in Dsh : ~loop[p].owned /\ ~loop[p].late => ~loop[p].active /\ ~loop[p].armed

\* A lock with the name of a living process is held for a cycle it is running:
\* no tick is skipped for a cycle that ended, was skipped or lost its lock.
LockIsHeld ==
  lock # NoLock /\ lock.named /\ lock.by # Dead =>
    LET w == work[lock.by[1]][lock.by[2]] IN
    w.kind \in {"initial", "tick"} /\ w.pc \in {"push", "sent", "pull"}

\* What has ended leaves neither a timer nor a lock behind.
NothingLeft == StopsWithPlugin /\ LockIsHeld

\* A write reaches the remote as long as some loop runs, whatever crashes with
\* the lock, whichever cycle is skipped or fails.
EveryWritePushed ==
  pending # {} ~> pending = {} \/ \A p \in Server : ~loop[p].active
=============================================================================
