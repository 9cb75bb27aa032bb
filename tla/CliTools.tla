------------------------------ MODULE CliTools ------------------------------
(***************************************************************************)
(* The short-lived processes of packages/mcp/src/cli: the hooks Claude     *)
(* Code runs (yapa hook ...) and the commands scripts run (yapa task,      *)
(* memory, coord, ...).  As in McpTools, a run is the changing calls a     *)
(* process gets through, in order.  Besides "share" and "keep":            *)
(*   "also"    marks documents for a push that the process leaves to others*)
(*   "push"    pushes what the process marked with "share" (pushDocsNow)   *)
(*   "roll"    rolls up the drafts of sessions that died                   *)
(* What a hook pulls first (freshenFromRemote) is an action of Following.  *)
(***************************************************************************)
EXTENDS McpTools
-----------------------------------------------------------------------------
\* What the hooks keep on this machine: a session's small files, renewed
\* leases, the status line and its files.  What they only show is left out.
sessionFiles      == <<"keep">>
keepLeasesAlive   == <<"keep">>
prepareStatusLine == <<"keep">>
updateLine        == <<"keep">>

session_start ==
  UNION {Run(sessionFiles \o prepareStatusLine \o updateLine \o keepLeasesAlive \o roll) :
           roll \in {<<"roll">>, <<>>}}  \* no roll after a compaction

\* Recall touches what it found.
user_prompt_submit ==
  Run(keepLeasesAlive) \cup Caught(Run(sessionFiles \o keepLeasesAlive \o <<"keep">> \o sessionFiles))

\* What was captured is pushed; after an error it is left as it is.
Pushed(r) ==
  IF r.ends = "returned" /\ \E i \in DOMAIN r.did : r.did[i] = "share"
  THEN [r EXCEPT !.did = @ \o <<"push">>] ELSE r
stop == Run(keepLeasesAlive) \cup Caught({Pushed(r) : r \in captureTurn})

post_compact == Caught(Run(sessionFiles) \cup Run(sessionFiles \o <<"share", "keep", "push">>))
session_end  == Caught(Run(sessionFiles))

\* A hook that fails says nothing and exits well.
runHook == Caught(session_start \cup user_prompt_submit \cup stop \cup post_compact \cup session_end)
-----------------------------------------------------------------------------
\* yapa task.
task_cli_list == Run(<<>>)
task_cli_show == Run(<<>>)
task_cli_next == Run(<<>>) \cup Run(<<"share", "push">>) \cup Run(<<"share">>)

claimKey       == Run(<<>>) \cup Run(<<"keep">>)
\* A task edited on this machine is pushed before it is claimed, a granted
\* claim afterwards.
task_cli_claim ==
  claimKey \cup Run(<<"share", "push">>) \cup Run(<<"share">>)

\* The note first, then the status and what was learned; only the task is
\* pushed, and the exit code tells whether it was.
task_cli_release ==
  claimKey \cup UNION {Run(note \o <<"share">> \o recorded \o <<"push">>) :
                         note \in {<<>>, <<"share">>}, recorded \in {<<>>, <<"also">>}}

\* yapa memory and yapa waiting.
listWhole        == Run(<<>>)
memory_cli_put   == storeMemory
memory_cli_update == updateMemory
sweepFindings    == Run(<<>>)  \* the judgement; nothing is written
applySweep       == EachCaught(Several)
memory_cli_sweep == Run(<<"keep">>) \cup applySweep  \* saves or reads a dry run
untypeCollection == UNION {Run(w) : w \in Several}
memory_cli_untype == Run(<<>>) \cup untypeCollection
runWaiting       == Run(<<>>)

\* yapa coord asks the service or this machine's coordination file.
leaseAcquire   == Run(<<"keep">>) \cup Refused
leaseHeartbeat == Run(<<"keep">>)
leaseRelease   == Run(<<"keep">>)
leaseList      == Run(<<>>)
counterNext    == Run(<<"keep">>)
runCoord == Caught(leaseAcquire \cup leaseHeartbeat \cup leaseRelease \cup leaseList \cup counterNext)

\* yapa scope, capture, hooks and statusline: settings of this machine.
runScope             == Caught(Run(<<>>) \cup Run(<<"keep">>))
runCaptureStatus     == Run(<<>>)
runHooksCommand      == Run(<<>>) \cup Run(<<"keep">>)
runStatusLineCommand == Caught(Run(<<>>) \cup Run(<<"keep">>))

runTask   == Caught(task_cli_list \cup task_cli_show \cup task_cli_next \cup task_cli_claim)
runMemory == Caught(listWhole \cup memory_cli_put \cup memory_cli_update
                    \cup memory_cli_sweep \cup memory_cli_untype)
-----------------------------------------------------------------------------
\* hook: pushWritten bounds and skips the push.  tells: an exit code of 0 says
\* the push did not fail, as 4 says it did; an error before exits with 1.
Command(runs, hook, tells) ==
  {[did   |-> SelectSeq(r.did, LAMBDA effect : effect # "keep"),
    hook  |-> hook,
    tells |-> tells /\ r.ends = "returned"] : r \in runs}

main ==
  Command(runHook, TRUE, FALSE)
    \cup Command(task_cli_release, FALSE, TRUE)
    \cup Command(runTask \cup runMemory \cup runWaiting \cup runCoord \cup runScope
                   \cup runCaptureStatus \cup runHooksCommand \cup runStatusLineCommand,
                 FALSE, FALSE)
=============================================================================
