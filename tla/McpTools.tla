------------------------------ MODULE McpTools ------------------------------
(***************************************************************************)
(* The tools of packages/mcp/src/tools.ts: for every handler, the runs it  *)
(* can make.  A run is the changing calls of @yapa/core it gets through,   *)
(* in order, and whether it returns or throws.  A call that only reads is  *)
(* left out, and so are the reply's text and the record the status line    *)
(* shows.  Every document is in a shared collection.                       *)
(*   "share"   marks documents for the next push                           *)
(*   "destroy" deletes documents and queues their deletion for the push    *)
(*   "keep"    changes only what stays on this machine, or asks the service*)
(*   "job"     submits or cancels a training job                           *)
(*   "cycle"   runs a sync cycle and waits for it                          *)
(***************************************************************************)
EXTENDS Sequences, Integers

\* A call may fail before it has done anything or after.
Run(calls) ==
  {[did |-> SubSeq(calls, 1, k), ends |-> "threw"] : k \in 0..Len(calls)}
    \cup {[did |-> calls, ends |-> "returned"]}

Caught(runs)    == {[r EXCEPT !.ends = "returned"] : r \in runs}
Refused         == {[did |-> <<>>, ends |-> "returned"]}
Confirmed(runs) == Refused \cup runs

\* Errors of typed memories are returned, any other is thrown.
Typed(runs)     == runs \cup Caught(runs)

\* One call's writes are told apart up to two, none, one or several; an error
\* of one of them may not keep the next from being made.
Several            == {<<>>, <<"share">>, <<"share", "share">>}
EachCaught(writes) == {[did |-> w, ends |-> "returned"] : w \in writes}
AtMostTwo(calls)   == IF Len(calls) > 2 THEN SubSeq(calls, 1, 2) ELSE calls

After(runs, more) ==
  {r \in runs : r.ends = "threw"}
    \cup {[did |-> AtMostTwo(r.did \o m.did), ends |-> m.ends] :
             r \in {q \in runs : q.ends = "returned"}, m \in more}
-----------------------------------------------------------------------------
\* What the tools, the hooks and the plugin call in @yapa/core.
linkMemoryToTasks == UNION {Run(w) : w \in Several}
archiveSuperseded == Caught(Run(<<"share">>))  \* must not lose the new memory
storeMemory       == After(After(Run(<<"share">>), archiveSuperseded), linkMemoryToTasks)
updateMemory      == After(UNION {Run(w) : w \in Several \ {<<>>}}, linkMemoryToTasks)
\* The summary, then each member archived and the summary's list of them.
applyCompaction   == After(storeMemory, EachCaught(Several))
janitorSweep      == EachCaught(Several)  \* each pair by itself
\* Memories and follow-up tasks, up to the first error.
recordForTask     == UNION {Run(w) : w \in Several}
requestDecision   == After(storeMemory, Run(<<"share">>))  \* the task waits on it
completeTask      ==
  After(After(Run(<<"share">>), recordForTask), Run(<<>>) \cup Run(<<"share">>))

\* What a turn settled may be written when the extraction then fails.
runCapture ==
  EachCaught(Several) \cup {[did |-> w, ends |-> "threw"] : w \in {<<>>, <<"share">>}}

\* A removed collection captures nothing; capture-health.json tells the rest.
captureTurn == Refused \cup {[r EXCEPT !.did = @ \o <<"keep">>] : r \in runCapture}
-----------------------------------------------------------------------------
\* Setup and memory.
setup_instructions  == Run(<<"keep">>)  \* writes CLAUDE.md or AGENTS.md
memory_store        == Typed(storeMemory)
memory_recall       == Run(<<"keep">>)  \* touches what it found
memory_forget       == Run(<<"destroy">>)
memory_list         == Run(<<>>)
memory_update       == Typed(updateMemory)
waiting             == Run(<<>>)
compaction_suggest  == Run(<<>>)
compaction_apply    == applyCompaction
journal_append      == Run(<<"keep">>)  \* drafts are never shared
journal_consolidate == Run(<<>>) \cup Run(<<"share">>)  \* nothing without drafts
janitor_now         == janitorSweep
-----------------------------------------------------------------------------
\* Training pipeline.
curation_now             == Caught(Run(<<>>) \cup Run(<<"keep">>))  \* refuses while off
curation_status          == Run(<<>>)
curation_preview         == Caught(Run(<<>>))
bucket_route_preview     == Run(<<>>)
bucket_route_now         == Run(<<"keep">>)
bucket_status            == Run(<<>>)
system_prompt_activate   == Confirmed(Run(<<"keep">>))
system_prompt_deactivate == Confirmed(Run(<<"keep">>))
training_dataset_preview == Caught(Run(<<"keep">>))
training_trigger         == Caught(Run(<<>>) \cup Run(<<"job", "keep">>))
training_status          == Run(<<>>)
training_get             == Run(<<>>) \cup Run(<<"keep">>)  \* records what the backend says
training_cancel          == Confirmed(Run(<<>>) \cup Run(<<"job", "keep">>))
eval_run                 == Caught(Run(<<>>) \cup Run(<<"keep">>))
eval_compare             == Caught(Run(<<>>))
eval_verify              == Caught(Run(<<>>) \cup Run(<<"keep">>))
adapter_promote          == Confirmed(Caught(Run(<<"keep">>)))
adapter_demote           == Confirmed(Caught(Run(<<"keep">>)))
-----------------------------------------------------------------------------
\* Tasks and coordination.
task_create            == Run(<<"share">>)
task_list              == Run(<<>>)
\* The edit or the decision it waits on, then what it was closed with.
task_update            ==
  Refused \cup Typed(After(requestDecision \cup Run(<<"share">>), recordForTask))
task_complete          == Refused \cup Typed(completeTask)
task_next              == Run(<<>>) \cup Run(<<"share">>)  \* writes the task it claims
task_delete            == Run(<<"destroy">>)
task_search            == Run(<<>>)
task_add_dependency    == Run(<<"share">>)
task_remove_dependency == Run(<<"share">>)
lease                  == Run(<<"keep">>)  \* asks the service, or this machine's lease file
counter_next           == Run(<<"keep">>)
-----------------------------------------------------------------------------
\* Collections, trash and sync.
collection_list   == Run(<<>>)
scope             == Run(<<>>) \cup Run(<<"keep">>)
collection_create == Run(<<"keep">>)
collection_merge  == Run(<<>>) \cup Run(<<"share">>)  \* a dry run only reads
collection_delete == Run(<<"destroy">>)
\* List, keep, restore, purge.
trash             == Caught(Run(<<>>) \cup Run(<<"share">>) \cup Run(<<"keep", "cycle">>)
                \cup Run(<<"destroy">>) \cup Run(<<"destroy", "cycle">>))
sync              == Caught(Run(<<>>) \cup Run(<<"cycle">>) \cup Run(<<"keep">>)
                \cup Run(<<"keep", "cycle">>))
decay_sweep       == Run(<<"keep">>)
uninstall         == Run(<<>>)  \* only says what to do
-----------------------------------------------------------------------------
registerTools ==
  [setup_instructions |-> setup_instructions, memory_store |-> memory_store,
   memory_recall |-> memory_recall, memory_forget |-> memory_forget,
   memory_list |-> memory_list, memory_update |-> memory_update, waiting |-> waiting,
   compaction_suggest |-> compaction_suggest, compaction_apply |-> compaction_apply,
   journal_append |-> journal_append, journal_consolidate |-> journal_consolidate,
   janitor_now |-> janitor_now, curation_now |-> curation_now,
   curation_status |-> curation_status, curation_preview |-> curation_preview,
   bucket_route_preview |-> bucket_route_preview,
   bucket_route_now |-> bucket_route_now, bucket_status |-> bucket_status,
   system_prompt_activate |-> system_prompt_activate,
   system_prompt_deactivate |-> system_prompt_deactivate,
   training_dataset_preview |-> training_dataset_preview,
   training_trigger |-> training_trigger, training_status |-> training_status,
   training_get |-> training_get, training_cancel |-> training_cancel,
   eval_run |-> eval_run, eval_compare |-> eval_compare, eval_verify |-> eval_verify,
   adapter_promote |-> adapter_promote, adapter_demote |-> adapter_demote,
   task_create |-> task_create, task_list |-> task_list, task_update |-> task_update,
   task_complete |-> task_complete, task_next |-> task_next,
   task_delete |-> task_delete, task_search |-> task_search,
   task_add_dependency |-> task_add_dependency,
   task_remove_dependency |-> task_remove_dependency, lease |-> lease,
   counter_next |-> counter_next, collection_list |-> collection_list, scope |-> scope,
   collection_create |-> collection_create, collection_merge |-> collection_merge,
   collection_delete |-> collection_delete, trash |-> trash, sync |-> sync,
   decay_sweep |-> decay_sweep, uninstall |-> uninstall]

SYNC_ON_WRITE_TOOLS ==
  {"memory_store", "memory_update", "memory_forget", "compaction_apply",
   "journal_consolidate", "janitor_now", "task_create", "task_update", "task_complete",
   "task_delete", "task_add_dependency", "task_next", "task_remove_dependency",
   "collection_merge", "trash"}

\* A tool of the list schedules a push once its handler has returned.
withSyncOnWrite ==
  UNION {{[run |-> r, soon |-> tool \in SYNC_ON_WRITE_TOOLS /\ r.ends = "returned"] :
            r \in registerTools[tool]} : tool \in DOMAIN registerTools}
=============================================================================
