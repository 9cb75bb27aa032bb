------------------------------ MODULE Sessions ------------------------------
(***************************************************************************)
(* Claude Code sessions on one machine: each has an MCP server of SyncLoop,*)
(* whose journal drafts (core/memory/journal.ts) are rolled into a memory  *)
(* when it shuts down, or by a later session's start when it died.  Hooks  *)
(* and commands (packages/mcp/src/cli) write to the same store from        *)
(* processes of their own, which push what they wrote themselves or leave  *)
(* it to a server's next cycle, and are gone when they are done.           *)
(***************************************************************************)
EXTENDS SyncLoop, CliTools

CONSTANTS Cli,    \* processes, each of one hook or command
          Also,   \* what they write and leave to others to push
          Entry,  \* the journal entries that may be written (a bound)
          NoCommand, Over, NoRoll, Nobody

ASSUME SessionsAssumption ==
  /\ Others = Cli \cup {Also} /\ Also \notin Cli
  /\ Nobody \notin Mcp \cup {Dead}

\* Of the tables of commands, which are fixed too.  One whose exit code tells
\* whether its push failed ends with that push.
ASSUME CommandsAssumption ==
  \A c \in main :
    /\ c \in [did : Seq({"share", "also", "push", "roll"}), hook : BOOLEAN, tells : BOOLEAN]
    /\ c.tells /\ c.did # <<>> => ~c.hook /\ c.did[Len(c.did)] = "push"

VARIABLES
  command, \* what each of those is doing; NoCommand, later Over
  writer,  \* the server whose session each entry is of; Dead when it ended
  drafts,  \* the drafts in the store
  old,     \* those older than a day
  rolled,  \* entries in a stored memory
  roll,    \* the roll-up each process is in
  kept     \* commands whose writes no push sends: refused for good, deleted there

sessionVars == <<command, writer, drafts, old, rolled, roll, kept>>
allVars == <<vars, sessionVars>>

Actor == Mcp \cup Cli
\* failed: its push counted an error.  swallowed is history: its push threw, or
\* left what was refused.
Command1 == [did : Seq({"share", "also", "push", "roll"}), hook : BOOLEAN, tells : BOOLEAN,
             push : {"no", "begun", "sent"}, failed : BOOLEAN, swallowed : BOOLEAN]
Roll == [of : Mcp \cup {Dead}, step : {"read", "store", "delete"}, read : SUBSET Entry]

Runs(h) == command[h] \notin {NoCommand, Over}

SessionTypeOK ==
  /\ TypeOK
  /\ command \in [Cli -> Command1 \cup {NoCommand, Over}]
  /\ writer \in [Entry -> Mcp \cup {Nobody, Dead}]
  /\ old \subseteq drafts /\ drafts \cup rolled \subseteq Entry
  /\ \A e \in drafts \cup rolled : writer[e] # Nobody
  /\ roll \in [Actor -> Roll \cup {NoRoll}]
  /\ \A h \in Cli : ~Runs(h) => roll[h] = NoRoll
  /\ kept \subseteq Cli

SessionInit ==
  /\ Init
  /\ command = [h \in Cli |-> NoCommand]
  /\ writer = [e \in Entry |-> Nobody]
  /\ drafts = {} /\ old = {} /\ rolled = {}
  /\ roll = [x \in Actor |-> NoRoll]
  /\ kept = {}

-----------------------------------------------------------------------------
\* A document of x is written: a push that has read it leaves it unpushed, and
\* the next one tries also what was refused before.
Marked(x) ==
  Unpushed(x) /\ kept' = kept \ {x} /\ UNCHANGED <<host, loop, soon, inFlight, call, fresh, lock, used>>

\* A command starts.
BeginCommand(h) ==
  /\ command[h] = NoCommand
  /\ Spend("calls", MaxCalls)
  /\ \E c \in main :
       /\ c.did # <<>>
       /\ command' = [command EXCEPT ![h] =
            [did |-> c.did, hook |-> c.hook, tells |-> c.tells, push |-> "no",
             failed |-> FALSE, swallowed |-> FALSE]]
  /\ UNCHANGED <<host, loop, soon, work, inFlight, call, pending, fresh, lock, owed>>
  /\ UNCHANGED <<writer, drafts, old, rolled, roll, kept>>

Busy(h, effect) ==
  Runs(h) /\ command[h].did # <<>> /\ Head(command[h].did) = effect
Done(h) == [command EXCEPT ![h].did = Tail(@), ![h].push = "no"]

CommandWrites(h) ==
  /\ \/ Busy(h, "share") /\ Marked(h)
     \/ Busy(h, "also") /\ Marked(Also)
  /\ command' = Done(h)
  /\ UNCHANGED <<writer, drafts, old, rolled, roll>>

\* pushWritten, pushDocsNow.  A hook does not try while the last sync is known
\* to have failed.
BeginPush(h) ==
  /\ Busy(h, "push") /\ command[h].push = "no"
  /\ \/ command' = [command EXCEPT ![h].push = "begun"]
     \/ command[h].hook /\ used["failures"] > 0 /\ command' = Done(h)
  /\ UNCHANGED <<vars, writer, drafts, old, rolled, roll, kept>>

SendPush(h) ==
  /\ Busy(h, "push") /\ command[h].push = "begun"
  /\ command' = [command EXCEPT ![h].push = "sent"]
  /\ UNCHANGED <<vars, writer, drafts, old, rolled, roll, kept>>

\* The service is not asked: whose token it is, the documents or what they are
\* like cannot be had.  The caller catches it and goes on.
PushThrows(h) ==
  /\ Busy(h, "push") /\ command[h].push = "begun"
  /\ command' = [Done(h) EXCEPT ![h].swallowed = TRUE]
  /\ UNCHANGED <<vars, writer, drafts, old, rolled, roll, kept>>

\* An answer may refuse the document for good, as an earlier one may have: no
\* error is counted.
PushAnswered(h) ==
  /\ Busy(h, "push") /\ command[h].push = "sent"
  /\ kept' \in {kept, kept \cup ({h} \cap pending)}
  /\ command' = [Done(h) EXCEPT ![h].swallowed = h \in kept']
  /\ pending' = pending \ {h}
  /\ UNCHANGED <<host, loop, soon, work, inFlight, call, fresh, lock, used, owed>>
  /\ UNCHANGED <<writer, drafts, old, rolled, roll>>

\* Mutant: the error is not counted.
PushFailsUnseen(h) ==
  /\ Busy(h, "push") /\ command[h].push = "sent"
  /\ Spend("failures", MaxFailures)
  /\ command' = Done(h)
  /\ UNCHANGED <<host, loop, soon, work, inFlight, call, pending, fresh, lock, owed>>
  /\ UNCHANGED <<writer, drafts, old, rolled, roll, kept>>

\* The remote is away or errs, or its answer is lost.
PushFails(h) ==
  /\ Busy(h, "push") /\ command[h].push = "sent"
  /\ Spend("failures", MaxFailures)
  /\ command' = [Done(h) EXCEPT ![h].failed = TRUE]
  /\ UNCHANGED <<host, loop, soon, work, inFlight, call, pending, fresh, lock, owed>>
  /\ UNCHANGED <<writer, drafts, old, rolled, roll, kept>>

Gone(h) ==
  /\ command' = [command EXCEPT ![h] = Over]
  /\ roll' = [roll EXCEPT ![h] = NoRoll]
  /\ UNCHANGED <<writer, drafts, old, rolled, kept>>

EndCommand(h) ==
  /\ Runs(h) /\ command[h].did = <<>>
  /\ Gone(h) /\ UNCHANGED vars

\* A hook does not wait longer than its budgets for a push or a roll-up, and
\* its exit abandons it (exitAfterFlush).
GiveUp(h) ==
  /\ Runs(h) /\ command[h].hook
  /\ Busy(h, "push") \/ Busy(h, "roll")
  /\ Gone(h) /\ UNCHANGED vars

\* Killed, a hook also by Claude Code when its time is over.
Kill(h) ==
  /\ Runs(h) /\ command[h].did # <<>>
  /\ Spend("crashes", MaxCrashes)
  /\ UNCHANGED <<host, loop, soon, work, inFlight, call, pending, fresh, lock, owed>>
  /\ Gone(h)

-----------------------------------------------------------------------------
\* The journal.  journalAppend: a draft of the server's session.
journalAppend(p) ==
  /\ p \in Mcp /\ host[p] = "up" /\ Idle(p)
  /\ \E e \in Entry :
       /\ writer[e] = Nobody
       /\ writer' = [writer EXCEPT ![e] = p]
       /\ drafts' = drafts \cup {e}
  /\ UNCHANGED <<vars, command, old, rolled, roll, kept>>

DayPasses ==
  /\ old # drafts /\ old' = drafts
  /\ UNCHANGED <<vars, command, writer, drafts, rolled, roll, kept>>

listSessionDrafts(p) == {e \in drafts : writer[e] = p}

Rolling(x, step) == roll[x] # NoRoll /\ roll[x].step = step

\* consolidateSessionEverywhere, at shutdown.
consolidateSession(p) ==
  /\ host[p] = "rolling" /\ Idle(p) /\ roll[p] = NoRoll /\ listSessionDrafts(p) # {}
  /\ roll' = [roll EXCEPT ![p] = [of |-> p, step |-> "read", read |-> {}]]
  /\ UNCHANGED <<vars, command, writer, drafts, old, rolled, kept>>

\* consolidateStaleDrafts: sessions whose newest draft is a day old.
consolidateStaleDrafts(h) ==
  /\ Busy(h, "roll") /\ roll[h] = NoRoll
  /\ \/ \E p \in Mcp \cup {Dead} : LET ds == listSessionDrafts(p) IN
          /\ ds # {} /\ ds \subseteq old
          /\ roll' = [roll EXCEPT ![h] = [of |-> p, step |-> "read", read |-> {}]]
          /\ UNCHANGED command
     \/ command' = Done(h) /\ UNCHANGED roll
  /\ UNCHANGED <<vars, writer, drafts, old, rolled, kept>>

\* journalConsolidate: the drafts there are by now are read,
ReadDrafts(x) ==
  /\ Rolling(x, "read")
  /\ LET ds == listSessionDrafts(roll[x].of) IN
     roll' = [roll EXCEPT ![x] = IF ds = {} THEN NoRoll ELSE [@ EXCEPT !.step = "store", !.read = ds]]
  /\ UNCHANGED <<vars, command, writer, drafts, old, rolled, kept>>

\* stored as one memory, which may fail,
StoreMemory(x) ==
  /\ Rolling(x, "store")
  /\ rolled' = rolled \cup roll[x].read
  /\ Marked(x)
  /\ roll' = [roll EXCEPT ![x].step = "delete"]
  /\ UNCHANGED <<command, writer, drafts, old>>

StoreFails(x) ==
  /\ Rolling(x, "store")
  /\ roll' = [roll EXCEPT ![x] = NoRoll]
  /\ UNCHANGED <<vars, command, writer, drafts, old, rolled, kept>>

\* Mutant: the session's drafts are deleted, those written meanwhile too.
DeleteSession(x) ==
  /\ Rolling(x, "delete")
  /\ roll' = [roll EXCEPT ![x] = NoRoll]
  /\ drafts' = drafts \ listSessionDrafts(roll[x].of)
  /\ old' = old \ listSessionDrafts(roll[x].of)
  /\ UNCHANGED <<vars, command, writer, rolled, kept>>

\* and deleted one by one; one that cannot be deleted stays.
DeleteDrafts(x) ==
  /\ Rolling(x, "delete")
  /\ IF roll[x].read = {}
     THEN roll' = [roll EXCEPT ![x] = NoRoll] /\ UNCHANGED <<drafts, old>>
     ELSE LET e == CHOOSE e \in roll[x].read : TRUE IN
          /\ roll' = [roll EXCEPT ![x].read = @ \ {e}]
          /\ drafts' \in {drafts, drafts \ {e}}
          /\ old' = old \cap drafts'
  /\ UNCHANGED <<vars, command, writer, rolled, kept>>

-----------------------------------------------------------------------------
\* A server's own steps: its flush waits for the roll-up, its end cuts it and
\* ends its session, its push may be refused a command's document for good.
Off(p) == p \in Mcp /\ host'[p] = "off"
ServerStep ==
  /\ Next
  /\ \A p \in Mcp : host[p] = "rolling" /\ host'[p] = "flushing" => roll[p] = NoRoll
  /\ writer' = [e \in Entry |-> IF Off(writer[e]) THEN Dead ELSE writer[e]]
  /\ roll' = [x \in Actor |->
       CASE Off(x) \/ roll[x] = NoRoll -> NoRoll
         [] ~Off(x) /\ roll[x] # NoRoll ->
              [roll[x] EXCEPT !.of = IF Off(@) THEN Dead ELSE @]]
  /\ \E refused \in SUBSET ((pending \ pending') \cap Cli) : kept' = kept \cup refused
  /\ UNCHANGED <<command, drafts, old, rolled>>

CommandStep(h) ==
  \/ CommandWrites(h) \/ BeginPush(h) \/ SendPush(h) \/ PushThrows(h) \/ PushAnswered(h)
  \/ PushFails(h)
  \/ EndCommand(h) \/ GiveUp(h) \/ consolidateStaleDrafts(h)
RollStep(x) == ReadDrafts(x) \/ StoreMemory(x) \/ StoreFails(x) \/ DeleteDrafts(x)

SessionNext ==
  \/ ServerStep
  \/ \E h \in Cli : BeginCommand(h) \/ CommandStep(h) \/ Kill(h)
  \/ \E p \in Mcp : journalAppend(p) \/ consolidateSession(p)
  \/ \E x \in Actor : RollStep(x)
  \/ DayPasses

SessionSpec == SessionInit /\ [][SessionNext]_allVars

\* The servers' loops run on (SyncLoop); nobody has to run a command.
SessionFairSpec == SessionSpec /\ Fairness
-----------------------------------------------------------------------------
\* What was written to the journal is a draft or in a memory, whoever rolls it
\* up, twice at once or while more is written, and whatever is killed or given
\* up between reading, storing and deleting.
EntryKept == \A e \in Entry : writer[e] # Nobody => e \in drafts \cup rolled

\* The entries and the rolls that are under way are well formed, and no entry is
\* lost.
Consistent == SessionTypeOK /\ EntryKept

\* `yapa task release` that exits with 0 has pushed the new status, whichever
\* pushes of others failed or are under way; 4 says it is only on this machine
\* (TASK_USAGE).  Except what a push that threw or was refused for good leaves
\* here, which is swallowed.
ReleaseTold ==
  [][\A h \in Cli : EndCommand(h) /\ command[h].tells /\ ~command[h].failed =>
       h \notin pending \cup kept \/ command[h].swallowed]_allVars
=============================================================================
