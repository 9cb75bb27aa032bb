------------------------------ MODULE DocSync ------------------------------
(***************************************************************************)
(* packages/core/src/sync/push.ts and pull.ts with memory/forget.ts,       *)
(* memory/trash.ts and sync/deletes.ts, for one document of a shared       *)
(* collection: the machines' local copies, their edits, pushes, pulls,     *)
(* deletes and purges, against the sync service's row.                     *)
(*                                                                         *)
(* A machine may run several pushes (one per process: pushChain) and       *)
(* several pulls at once, all on one local store.  A section under the     *)
(* document's lock is one step; every call to the service, and every       *)
(* store call outside the lock, is a step of its own.  The tombstones a    *)
(* pull reads right after a page are read with it.  All clocks agree.      *)
(* Left out: tasks renamed by a push (id_taken), retracts, chunked         *)
(* memories, links between similar documents.                              *)
(***************************************************************************)
EXTENDS ServiceDocument

CONSTANTS Author,       \* the machine the document is stored on first
          Pusher,       \* pushes that may run at once
          Puller,       \* pulls that may run at once
          On,           \* the machine each runs on
          OVERLAP,      \* SYNC_PULL_OVERLAP_SECONDS
          NoCopy,       \* no such document in a local store
          SettlesSoon,  \* assumed: a push records an answer within the overlap
          MaxTime, MaxRev, MaxForgets, MaxOthers, MaxLost   \* bounds; others: restores, moves

ASSUME DocSyncAssumption ==
  /\ Author \in Machine
  /\ On \in [Pusher \cup Puller -> Machine]
  /\ OVERLAP \in Nat /\ MaxTime \in Nat /\ MaxRev \in Nat /\ SettlesSoon \in BOOLEAN

VARIABLES
  clock,      \* seconds
  local,      \* the document in each machine's store
  asked,      \* what a user asked for and the store still has to note
  queue,      \* __sync_deletes__ holds the id
  purges,     \* __sync_purges__ holds the id
  tombstone,  \* __sync_tombstones__ holds the id
  since,      \* each machine's pull point
  push,       \* what each push is about to do
  pull,       \* what each pull is about to do
  used,       \* counts of what the bounds limit
  shared,     \* history: the revisions that have been in the row
  missed      \* history: when the writes were made that a machine's pull point
              \* passed over unapplied, because a page or its entry failed

vars == <<row, trash, deletedAt, purgedAt, closedAt, clock, local, asked, queue, purges,
          tombstone, since, push, pull, used, shared, missed>>
storeVars == <<asked, queue, purges, tombstone>>

\* rev stands for content and metadata, upd for updated_at, dirty for
\* is_synced = false, gone for the deleted_upstream marks and refused for
\* sync_rejected with the fingerprint of this revision.
Copy == [rev : Nat, upd : Nat, dirty : BOOLEAN, gone : BOOLEAN, refused : BOOLEAN,
         owner : User]

ASSUME NoCopyAssumption == NoCopy \notin Copy

PushPC == {"idle", "purge", "clearPurge", "delete", "clearDelete", "upsert", "settle"}
PullPC == {"idle", "lookup", "drop", "fetch", "apply"}
Ask    == {"nothing", "delete", "tombstone", "purge"}

StoreTypeOK ==
  /\ local \in [Machine -> Copy \cup {NoCopy}]
  /\ asked \in [Machine -> Ask]
  /\ queue \in [Machine -> BOOLEAN]
  /\ purges \in [Machine -> BOOLEAN]
  /\ tombstone \in [Machine -> BOOLEAN]
  /\ since \in [Machine -> Nat]

\* A push about to send or settle holds the version it read; at is when the
\* service took it.
PushTypeOK ==
  /\ push \in [Pusher -> [pc : PushPC, doc : Copy \cup {NoCopy}, ok : BOOLEAN, at : Nat]]
  /\ \A p \in Pusher : push[p].pc \in {"upsert", "settle"} => push[p].doc # NoCopy

PullTypeOK ==
  pull \in [Puller -> [pc : PullPC, start : Nat, from : Nat, whole : BOOLEAN,
                       row : Row \cup {NoRow}, tomb : BOOLEAN,
                       del : {"none", "delete", "purge"}]]

TypeOK ==
  /\ ServiceTypeOK /\ StoreTypeOK /\ PushTypeOK /\ PullTypeOK
  /\ clock \in Nat
  /\ used \in [{"rev", "forgets", "others", "lost"} -> Nat]
  /\ shared \subseteq Nat
  /\ missed \in [Machine -> SUBSET Nat]

IdlePush == [pc |-> "idle", doc |-> NoCopy, ok |-> FALSE, at |-> 0]
IdlePull == [pc |-> "idle", start |-> 0, from |-> 0, whole |-> FALSE, row |-> NoRow,
             tomb |-> FALSE, del |-> "none"]

Fresh(m, rev, upd) ==
  [rev |-> rev, upd |-> upd, dirty |-> TRUE, gone |-> FALSE, refused |-> FALSE,
   owner |-> UserOf[m]]

\* storeMemory or createTask has just put the document in the author's store.
Init ==
  /\ ServiceInit
  /\ clock = OVERLAP + 1
  /\ local = [m \in Machine |-> IF m = Author THEN Fresh(m, 1, OVERLAP + 1) ELSE NoCopy]
  /\ asked = [m \in Machine |-> "nothing"]
  /\ queue = [m \in Machine |-> FALSE]
  /\ purges = [m \in Machine |-> FALSE]
  /\ tombstone = [m \in Machine |-> FALSE]
  /\ since = [m \in Machine |-> 0]
  /\ push = [p \in Pusher |-> IdlePush]
  /\ pull = [q \in Puller |-> IdlePull]
  /\ used = [rev |-> 1, forgets |-> 0, others |-> 0, lost |-> 0]
  /\ shared = {}
  /\ missed = [m \in Machine |-> {}]

-----------------------------------------------------------------------------
Spend(what, bound) == used[what] < bound /\ used' = [used EXCEPT ![what] = @ + 1]
Has(m) == local[m] # NoCopy
Unpushed(m) == Has(m) /\ local[m].dirty /\ ~local[m].gone
SetLocal(m, c) == local' = [local EXCEPT ![m] = c]

\* isPushable
Pushable(m) == Unpushed(m) /\ ~local[m].refused

\* updateMemory, updateTask: a new revision, under the document's lock.
Edit(m) ==
  /\ Has(m)
  /\ Spend("rev", MaxRev)
  /\ SetLocal(m, [local[m] EXCEPT !.rev = used.rev + 1, !.upd = clock,
                                  !.dirty = TRUE, !.refused = FALSE])
  /\ UNCHANGED <<serviceVars, clock, storeVars, since, push, pull, shared, missed>>

\* deleteDocumentEverywhere: the copy goes first, without the document's lock.
Forget(m) ==
  /\ Has(m) /\ asked[m] = "nothing"
  /\ Spend("forgets", MaxForgets)
  /\ SetLocal(m, NoCopy)
  /\ asked' = [asked EXCEPT ![m] = IF local[m].owner = UserOf[m] THEN "delete"
                                                                ELSE "tombstone"]
  /\ UNCHANGED <<serviceVars, clock, queue, purges, tombstone, since, push, pull, shared,
                 missed>>

\* purgeDocuments: refused for another user's document; the id is queued also
\* when this machine has no copy.
AskPurge(m) ==
  /\ Has(m) => local[m].owner = UserOf[m]
  /\ asked[m] = "nothing"
  /\ Spend("forgets", MaxForgets)
  /\ SetLocal(m, NoCopy)
  /\ asked' = [asked EXCEPT ![m] = "purge"]
  /\ UNCHANGED <<serviceVars, clock, queue, purges, tombstone, since, push, pull, shared,
                 missed>>

\* queueSyncDelete, addLocalTombstone, queueSyncPurges.
Note(m) ==
  /\ asked[m] # "nothing"
  /\ queue' = [queue EXCEPT ![m] = @ \/ asked[m] = "delete"]
  /\ tombstone' = [tombstone EXCEPT ![m] = @ \/ asked[m] = "tombstone"]
  /\ purges' = [purges EXCEPT ![m] = @ \/ asked[m] = "purge"]
  /\ asked' = [asked EXCEPT ![m] = "nothing"]
  /\ UNCHANGED <<serviceVars, clock, local, since, push, pull, used, shared, missed>>

\* restoreDeleted, from any machine of the owner.
AskRestore(m) ==
  /\ Spend("others", MaxOthers)
  /\ Restore(UserOf[m], clock)
  /\ UNCHANGED <<clock, local, storeVars, since, push, pull, shared, missed>>

\* A machine outside the model moves the row into a collection not followed here.
Moved ==
  /\ Spend("others", MaxOthers)
  /\ MoveAway(clock)
  /\ UNCHANGED <<clock, local, storeVars, since, push, pull, shared, missed>>

-----------------------------------------------------------------------------
\* push.ts.  m is the machine push p runs on; reads of its store that follow
\* each other without a call to the service are one step.
PushTo(p, r) == push' = [push EXCEPT ![p] = r]
At(pc) == [IdlePush EXCEPT !.pc = pc]

\* Mutant: whatever the store holds is pushed.
ReadDocsAny(m) == [pc |-> "upsert", doc |-> local[m], ok |-> FALSE, at |-> 0]

\* The unsynced documents are read, without their locks.
ReadDocs(m) ==
  IF Pushable(m) THEN [pc |-> "upsert", doc |-> local[m], ok |-> FALSE, at |-> 0]
                 ELSE IdlePush
ReadDeletes(m) == IF queue[m] THEN At("delete") ELSE ReadDocs(m)
ReadPurges(m) == IF purges[m] THEN At("purge") ELSE ReadDeletes(m)

\* pushAll, or pushDocsNow, which goes straight to the documents.
BeginPush(p) ==
  /\ push[p].pc = "idle"
  /\ PushTo(p, ReadPurges(On[p])) \/ PushTo(p, ReadDocs(On[p]))
  /\ UNCHANGED <<serviceVars, clock, local, storeVars, since, pull, used, shared, missed>>

CallPurge(p) ==
  /\ push[p].pc = "purge" /\ PushTo(p, At("clearPurge"))
  /\ Purge(UserOf[On[p]], clock)
  /\ UNCHANGED <<clock, local, storeVars, since, pull, used, shared, missed>>

\* clearPendingPurges
ClearPurge(p) ==
  /\ push[p].pc = "clearPurge" /\ PushTo(p, ReadDeletes(On[p]))
  /\ purges' = [purges EXCEPT ![On[p]] = FALSE]
  /\ UNCHANGED <<serviceVars, clock, local, asked, queue, tombstone, since, pull, used,
                 shared, missed>>

CallDelete(p) ==
  /\ push[p].pc = "delete" /\ PushTo(p, At("clearDelete"))
  /\ Delete(UserOf[On[p]], clock)
  /\ UNCHANGED <<clock, local, storeVars, since, pull, used, shared, missed>>

\* clearPendingDeletes
ClearDelete(p) ==
  /\ push[p].pc = "clearDelete" /\ PushTo(p, ReadDocs(On[p]))
  /\ queue' = [queue EXCEPT ![On[p]] = FALSE]
  /\ UNCHANGED <<serviceVars, clock, local, asked, purges, tombstone, since, pull, used,
                 shared, missed>>

CallUpsert(p) ==
  /\ push[p].pc = "upsert"
  /\ Upsert(On[p], push[p].doc, clock)
  /\ push' = [push EXCEPT ![p].pc = "settle", ![p].ok = ~IsPurged, ![p].at = clock]
  /\ shared' = IF IsPurged THEN shared ELSE shared \cup {push[p].doc.rev}
  /\ UNCHANGED <<clock, local, storeVars, since, pull, used, missed>>

\* Mutant: what is there by now counts as pushed.
UnchangedIfThere(m, doc) == Has(m)

\* syncFingerprint: the copy is still the version that was pushed.
Unchanged(m, doc) == Has(m) /\ local[m].rev = doc.rev /\ local[m].gone = doc.gone

\* applyPushed or markRejected, through writeIfUnchanged.
Settle(p) ==
  LET m == On[p] IN
  /\ push[p].pc = "settle"
  /\ push' = [push EXCEPT ![p] = IdlePush]
  /\ IF Unchanged(m, push[p].doc)
     THEN SetLocal(m, [local[m] EXCEPT !.dirty = ~push[p].ok, !.refused = ~push[p].ok])
     ELSE UNCHANGED local
  /\ UNCHANGED <<serviceVars, clock, storeVars, since, pull, used, shared, missed>>

\* A purge or delete that fails, or is not noted as done, stays queued, and the
\* push goes on with what comes next, unless the service cannot be used at all.
FailPush(p) ==
  /\ \/ push[p].pc \in {"purge", "clearPurge"} /\ PushTo(p, ReadDeletes(On[p]))
     \/ push[p].pc \in {"delete", "clearDelete"} /\ PushTo(p, ReadDocs(On[p]))
  /\ Spend("lost", MaxLost)
  /\ UNCHANGED <<serviceVars, clock, local, storeVars, since, pull, shared, missed>>

\* isCycleFatal (the service cannot be reached or used), an upsert or a settling
\* that fails, or the process ends: the rest of this push is given up.
LosePush(p) ==
  /\ push[p].pc # "idle"
  /\ Spend("lost", MaxLost)
  /\ push' = [push EXCEPT ![p] = IdlePush]
  /\ UNCHANGED <<serviceVars, clock, local, storeVars, since, pull, shared, missed>>

-----------------------------------------------------------------------------
\* pull.ts.
PullTo(q, pc) == pull' = [pull EXCEPT ![q].pc = pc]

\* pullFromRemote, up to the first call to the service: dropMovedOut reads the
\* clean copies it will look up.
BeginPull(q) ==
  /\ pull[q].pc = "idle"
  /\ pull' = [pull EXCEPT ![q] = [IdlePull EXCEPT
                !.pc = IF Has(On[q]) /\ ~local[On[q]].dirty THEN "lookup" ELSE "fetch",
                !.whole = TRUE, !.start = clock, !.from = since[On[q]]]]
  /\ UNCHANGED <<serviceVars, clock, local, storeVars, since, push, used, shared, missed>>

\* dropMovedOut: collectionsByIds, then the copy is dropped, without its lock.
LookUp(q) ==
  /\ pull[q].pc = "lookup"
  /\ PullTo(q, IF row # NoRow /\ row.away THEN "drop" ELSE "fetch")
  /\ UNCHANGED <<serviceVars, clock, local, storeVars, since, push, used, shared, missed>>
DropMoved(q) ==
  /\ pull[q].pc = "drop" /\ PullTo(q, "fetch")
  /\ SetLocal(On[q], NoCopy)
  /\ UNCHANGED <<serviceVars, clock, storeVars, since, push, used, shared, missed>>

\* What backend.pull returns on machine m from a pull point on: the row unless
\* its last write is this device's own, and the deletions; then the tombstones.
Page(m, from, ownToo) ==
  [row  |-> IF row # NoRow /\ ~row.away /\ row.at >= from /\ (row.by # m \/ ownToo)
            THEN row ELSE NoRow,
   del  |-> IF purgedAt # 0 /\ purgedAt >= from THEN "purge"
            ELSE IF deletedAt # 0 /\ deletedAt >= from THEN "delete" ELSE "none",
   tomb |-> tombstone[m]]
WithPage(r, page) ==
  [r EXCEPT !.pc = "apply", !.from = 0, !.row = page.row, !.del = page.del, !.tomb = page.tomb]

\* A store that never pulled accepts its own rows too.
Fetch(q) ==
  /\ pull[q].pc = "fetch"
  /\ pull' = [pull EXCEPT ![q] = WithPage(@, Page(On[q], @.from, @.from = 0))]
  /\ UNCHANGED <<serviceVars, clock, local, storeVars, since, push, used, shared, missed>>

\* A hook's pullCollection, which checks no moves and leaves the pull point; a
\* page with nothing on it ends it.
HookFetch(q) ==
  LET page == Page(On[q], since[On[q]], FALSE) IN
  /\ pull[q].pc = "idle"
  /\ page.row # NoRow \/ page.del # "none"
  /\ pull' = [pull EXCEPT ![q] = WithPage(IdlePull, page)]
  /\ UNCHANGED <<serviceVars, clock, local, storeVars, since, push, used, shared, missed>>

\* Mutant: a newer version replaces unpushed edits too.
ReplacesDirty(r, m) == ~Has(m) \/ local[m].gone \/ r.upd > local[m].upd

\* applyRemoteDocLocked: a new document, a live one over an archived copy, or a
\* newer version over a copy without unpushed edits.
Replaces(r, m) ==
  \/ ~Has(m)
  \/ local[m].gone
  \/ ~local[m].dirty /\ r.upd > local[m].upd
Pulled(r) == [rev |-> r.rev, upd |-> r.upd, dirty |-> FALSE, gone |-> FALSE,
              refused |-> FALSE, owner |-> r.owner]

\* Mutant: unpushed edits are archived as well.
AfterDeletionAny(m, kind) ==
  CASE ~Has(m) \/ kind = "purge" -> NoCopy
    [] Has(m) /\ kind = "delete" -> [local[m] EXCEPT !.gone = TRUE]
    [] OTHER -> local[m]

\* applyRemoteDeletion: a purge drops the copy, a delete archives a clean one.
AfterDeletion(m, kind) ==
  CASE ~Has(m) \/ kind = "purge" -> NoCopy
    [] Has(m) /\ kind = "delete" -> IF Unpushed(m) THEN local[m]
                                    ELSE [local[m] EXCEPT !.gone = TRUE]
    [] OTHER -> local[m]

\* Mutant: the pull point is the end of the pull.
PullPointEnd(q) == clock

\* cycleStartedAt
PullPoint(q) == pull[q].start - OVERLAP

\* What the page makes of the copy: a deletion of an id the pull also returned
\* live is older than the row.
Applied(q) ==
  LET m == On[q]  r == pull[q].row IN
  IF r = NoRow THEN AfterDeletion(m, pull[q].del)
  ELSE IF ~pull[q].tomb /\ Replaces(r, m) THEN Pulled(r)
  ELSE local[m]

\* A full pull then sets the pull point, whichever ended last.
Apply(q) ==
  /\ pull[q].pc = "apply" /\ pull' = [pull EXCEPT ![q] = IdlePull]
  /\ SetLocal(On[q], Applied(q))
  /\ since' = [since EXCEPT ![On[q]] = IF pull[q].whole THEN PullPoint(q) ELSE @]
  /\ UNCHANGED <<serviceVars, clock, storeVars, push, used, shared, missed>>

\* failed: an error that is not cycle-fatal ends only what it hit, and the pull
\* point moves on past it.  Times(r, del): when what was passed over was written.
Times(r, del) ==
  (IF r # NoRow THEN {r.at} ELSE {}) \cup (IF del = "purge" THEN {purgedAt} ELSE {})

PassOver(q, times) ==
  /\ since' = [since EXCEPT ![On[q]] = PullPoint(q)]
  /\ missed' = [missed EXCEPT ![On[q]] = @ \cup times]

\* The move check fails: the pull goes on without it.
FailMoveCheck(q) ==
  /\ pull[q].pc \in {"lookup", "drop"} /\ PullTo(q, "fetch")
  /\ Spend("lost", MaxLost)
  /\ UNCHANGED <<serviceVars, clock, local, storeVars, since, push, shared, missed>>

\* backend.pull fails: the collection is left for this cycle.
FailFetch(q) ==
  LET page == Page(On[q], pull[q].from, pull[q].from = 0) IN
  /\ pull[q].pc = "fetch" /\ pull' = [pull EXCEPT ![q] = IdlePull]
  /\ Spend("lost", MaxLost)
  /\ PassOver(q, Times(page.row, page.del))
  /\ UNCHANGED <<serviceVars, clock, local, storeVars, push, shared>>

\* applyRemoteDoc or applyRemoteDeletion fails: that document is left as it is.
FailApply(q) ==
  /\ pull[q].pc = "apply" /\ pull[q].whole /\ pull' = [pull EXCEPT ![q] = IdlePull]
  /\ Spend("lost", MaxLost)
  /\ PassOver(q, Times(pull[q].row, pull[q].del))
  /\ UNCHANGED <<serviceVars, clock, local, storeVars, push, shared>>

\* isCycleFatal after the page was applied, on the next one or in another
\* collection: the pull point stays.
ApplyOnly(q) ==
  /\ pull[q].pc = "apply" /\ pull[q].whole /\ pull' = [pull EXCEPT ![q] = IdlePull]
  /\ Spend("lost", MaxLost)
  /\ SetLocal(On[q], Applied(q))
  /\ UNCHANGED <<serviceVars, clock, storeVars, since, push, shared, missed>>

\* isCycleFatal before, or the process ends: nothing is applied.
LosePull(q) ==
  /\ pull[q].pc # "idle" /\ pull' = [pull EXCEPT ![q] = IdlePull]
  /\ Spend("lost", MaxLost)
  /\ UNCHANGED <<serviceVars, clock, local, storeVars, since, push, shared, missed>>

-----------------------------------------------------------------------------
Tick ==
  /\ clock < MaxTime
  /\ SettlesSoon => \A p \in Pusher : push[p].pc = "settle" => clock < push[p].at + OVERLAP
  /\ clock' = clock + 1
  /\ UNCHANGED <<serviceVars, local, storeVars, since, push, pull, used, shared, missed>>

PushStep(p) ==
  \/ BeginPush(p) \/ CallPurge(p) \/ ClearPurge(p) \/ CallDelete(p) \/ ClearDelete(p)
  \/ CallUpsert(p) \/ Settle(p)
PullStep(q) ==
  \/ BeginPull(q) \/ LookUp(q) \/ DropMoved(q) \/ Fetch(q) \/ HookFetch(q) \/ Apply(q)
FailPull(q) ==
  \/ FailMoveCheck(q) \/ FailFetch(q) \/ FailApply(q) \/ ApplyOnly(q) \/ LosePull(q)
UserStep(m) == Edit(m) \/ Forget(m) \/ AskPurge(m) \/ Note(m) \/ AskRestore(m)

Next ==
  \/ \E m \in Machine : UserStep(m)
  \/ \E p \in Pusher : PushStep(p) \/ FailPush(p) \/ LosePush(p)
  \/ \E q \in Puller : PullStep(q) \/ FailPull(q)
  \/ Moved
  \/ Tick

Spec == Init /\ [][Next]_vars
-----------------------------------------------------------------------------
\* A copy that counts as synced was shared in exactly this revision: whatever
\* edits, pushes and pulls of several processes meet, no push marks an edit
\* synced that it did not send (writeIfUnchanged).
CleanWasShared ==
  \A m \in Machine : Has(m) /\ ~local[m].dirty => local[m].rev \in shared

\* Unpushed work leaves a machine's store only by its user's own forget or
\* purge, by the owner's purge of the id, by having been shared, or by a pull
\* that saw the row move out; a newer edit builds on it (applyRemoteDoc,
\* applyRemoteDeletion).
UnpushedEditKept ==
  [][\A m \in Machine : Unpushed(m) /\ local'[m] # local[m] =>
       \/ asked'[m] # "nothing" /\ asked[m] = "nothing"
       \/ IsPurged
       \/ \E q \in Puller : On[q] = m /\ DropMoved(q)
       \/ /\ local'[m] # NoCopy
          /\ \/ local'[m].dirty /\ ~local'[m].gone /\ local'[m].rev >= local[m].rev
             \/ local'[m].rev = local[m].rev /\ local[m].rev \in shared]_vars

\* The row's last write is before t, and no pull of m passed over it.
Old(t) == row # NoRow /\ ~row.away /\ row.at < t
Due(m, t) == Old(t) /\ row.at \notin missed[m]

\* A clean copy of another machine's write that nobody tombstoned on m is live
\* and the row's revision or not older than it.
Level(m) ==
  row.by # m /\ Has(m) /\ ~local[m].dirty /\ ~tombstone[m]
  => ~local[m].gone /\ (local[m].rev = row.rev \/ local[m].upd >= row.upd)

\* Once a full pull has moved the pull point past another machine's last write
\* of the row, the machine's clean copy is level with it, unless the page or the
\* row itself failed on a pull that moved on: nothing else slips between two
\* pulls (cycleStartedAt, the overlap).  An answer recorded later than the
\* overlap breaks it (SettlesSoon): a pull before that kept the edited copy,
\* and the late answer calls it synced.
NeverBehind == \A m \in Machine : Due(m, since[m]) => Level(m)

\* The purge's entry on the feed is before t, and no pull of m passed over it.
Passed(m, t) == 0 < purgedAt /\ purgedAt < t /\ purgedAt \notin missed[m]

\* A purged id has no row, and a machine whose pull point is past the purge's
\* entry holds no copy, edited or not, unless the page or the entry itself
\* failed on a pull that moved on.
PurgeReaches == IsPurged => row = NoRow /\ \A m \in Machine : Passed(m, since[m]) => ~Has(m)
=============================================================================
