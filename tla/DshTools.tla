------------------------------ MODULE DshTools ------------------------------
(***************************************************************************)
(* The tools of packages/dsh/src/tools.ts and tools-advanced.ts, in the    *)
(* terms of McpTools.                                                      *)
(***************************************************************************)
EXTENDS McpTools
-----------------------------------------------------------------------------
\* Memory and tasks.
yapa_status                 == Run(<<>>)
yapa_memory_store           == storeMemory
yapa_memory_update          == updateMemory
yapa_waiting                == Run(<<>>)
yapa_memory_recall          == Run(<<"keep">>)
yapa_memory_forget          == Run(<<"destroy">>)
\* No cycle: a purge waits for the next one.
yapa_trash                  ==
  Run(<<>>) \cup Run(<<"share">>) \cup Run(<<"keep">>) \cup Run(<<"destroy">>)
yapa_memory_list            == Run(<<>>)
yapa_compaction_suggest     == Run(<<>>)
yapa_compaction_apply       == applyCompaction
yapa_journal_append         == Run(<<"keep">>)
yapa_journal_consolidate    == Run(<<>>) \cup Run(<<"share">>)
yapa_task_create            == Run(<<"share">>)
yapa_task_list              == Run(<<>>)
yapa_task_update            ==
  After(requestDecision \cup Run(<<"share">>), recordForTask)
yapa_task_complete          == completeTask
yapa_task_next              == Run(<<>>) \cup Run(<<"share">>)
yapa_task_delete            == Run(<<"destroy">>)
yapa_task_search            == Run(<<>>)
yapa_task_add_dependency    == Run(<<"share">>)
yapa_task_remove_dependency == Run(<<"share">>)
yapa_collection_list        == Run(<<>>)
yapa_scope                  == Run(<<>>) \cup Run(<<"keep">>)
yapa_collection_create      == Run(<<"keep">>)
yapa_collection_merge       == Run(<<>>) \cup Run(<<"share">>)
yapa_collection_delete      == Run(<<"destroy">>)
yapa_decay_sweep            == Run(<<"keep">>)
-----------------------------------------------------------------------------
\* Advanced.
yapa_curation_now             == Caught(Run(<<>>) \cup Run(<<"keep">>))
yapa_curation_status          == Run(<<>>)
yapa_janitor_now              == janitorSweep
yapa_curation_preview         == Caught(Run(<<>>))
yapa_bucket_route_preview     == Run(<<>>)
yapa_bucket_route_now         == Run(<<"keep">>)
yapa_bucket_status            == Run(<<>>)
yapa_system_prompt_activate   == Run(<<"keep">>)
yapa_system_prompt_deactivate == Run(<<"keep">>)
yapa_training_dataset_preview == Caught(Run(<<"keep">>))
yapa_training_trigger         == Confirmed(Caught(Run(<<"job", "keep">>)))
yapa_training_status          == Run(<<>>)
yapa_training_get             == Run(<<>>) \cup Run(<<"keep">>)
yapa_training_cancel          == Run(<<>>) \cup Run(<<"job", "keep">>)
yapa_eval_run                 == Caught(Run(<<>>) \cup Run(<<"keep">>))
yapa_eval_compare             == Caught(Run(<<>>))
yapa_eval_verify              == Caught(Run(<<>>) \cup Run(<<"keep">>))
yapa_adapter_promote          == Caught(Run(<<"keep">>))
yapa_adapter_demote           == Caught(Run(<<"keep">>))
yapa_sync                     == Caught(Run(<<>>) \cup Run(<<"cycle">>) \cup Run(<<"keep">>)
                \cup Run(<<"keep", "cycle">>))
yapa_storage_import           == Confirmed(Caught(Run(<<"destroy">>)))  \* overwrites by id
-----------------------------------------------------------------------------
registerPluginTools ==
  yapa_status \cup yapa_memory_store \cup yapa_memory_update \cup yapa_waiting
    \cup yapa_memory_recall \cup yapa_memory_forget \cup yapa_trash
    \cup yapa_memory_list \cup yapa_compaction_suggest \cup yapa_compaction_apply
    \cup yapa_journal_append \cup yapa_journal_consolidate \cup yapa_task_create
    \cup yapa_task_list \cup yapa_task_update \cup yapa_task_complete
    \cup yapa_task_next \cup yapa_task_delete \cup yapa_task_search
    \cup yapa_task_add_dependency \cup yapa_task_remove_dependency
    \cup yapa_collection_list \cup yapa_scope \cup yapa_collection_create
    \cup yapa_collection_merge \cup yapa_collection_delete \cup yapa_decay_sweep
    \cup yapa_curation_now \cup yapa_curation_status \cup yapa_janitor_now
    \cup yapa_curation_preview \cup yapa_bucket_route_preview
    \cup yapa_bucket_route_now \cup yapa_bucket_status
    \cup yapa_system_prompt_activate \cup yapa_system_prompt_deactivate
    \cup yapa_training_dataset_preview \cup yapa_training_trigger
    \cup yapa_training_status \cup yapa_training_get \cup yapa_training_cancel
    \cup yapa_eval_run \cup yapa_eval_compare \cup yapa_eval_verify
    \cup yapa_adapter_promote \cup yapa_adapter_demote \cup yapa_sync
    \cup yapa_storage_import

\* What the plugin does by itself: a disposed session's journal is rolled up,
\* salience decays, the janitor sweeps daily, a turn and a compaction are
\* captured.  Nobody is told of an error.
sessionDisposed           == Caught(yapa_journal_consolidate)
runDecayIfDue             == Caught(Run(<<"keep">>))
runJanitor                == Caught(janitorSweep)
registerResponseCapture   == Caught(captureTurn)
registerCompactionCapture == Caught(After(storeMemory, Run(<<"keep">>)))

pluginWork == sessionDisposed \cup runDecayIfDue \cup runJanitor
                \cup registerResponseCapture \cup registerCompactionCapture

Shares(run) == \E i \in DOMAIN run.did : run.did[i] = "share"
=============================================================================
