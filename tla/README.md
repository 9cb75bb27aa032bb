# Verification of YAPA's coordination and synchronization

YAPA keeps memories and tasks for coding assistants. Every machine has a local
store; a sync service shares the collections that are not private. Several MCP
servers and hooks run on one machine at a time, several machines belong to one
person, and several people share a collection. What can go wrong there is
mostly order: who wrote first, what was read before an `await`, what a crash or
a lost answer left behind. This directory holds TLA+ models of that part of the
program, TLC configurations that check them, and TLAPS proofs.

Paths below are relative to `packages/core/src` unless they name a package.

## 1. Inventory

| Part | State | Operations | What makes it correct | Modelled in |
|---|---|---|---|---|
| File lock (`fs-lock.ts`) | lock file, break guard | take, break a dead holder's lock, release, sweep debris | one holder at a time, no rewrite lost, a crash blocks nobody for good | `FileLock` |
| Local coordination (`sync/local-coordination.ts`) | JSON file of leases and counters per collection | acquire, heartbeat, release, bump | overlapping work held by one session; the record of a takeover is true; no value twice | `LocalCoordination` |
| Service coordination (`packages/service/src/coord.ts`) | tables `leases`, `counters`, `lease_log` | the same, as transactions | the same, statement by statement | `ServiceCoordination` (partly) |
| Document sync (`sync/push.ts`, `sync/pull.ts`) | local copies with `is_synced`, pull point, archived copies | push, push these now, pull, hook pull | no unsent edit lost or marked synced; nothing missed between pulls; deletes and purges arrive | `DocSync` (partly) |
| Sync queues and sentinels (`sync/deletes.ts`, `sync/sentinel.ts`) | sentinel documents in `global`: queued deletes and purges, tombstones, subscriptions, redirects, backfills | queue, clear, follow, leave, rejoin, redirect | redirects end; what was left stays away; what is followed again gets its history | `DocSync`, `Following` (partly) |
| Collections (`collections/manage.ts`) | collections and what they hold | create, merge, leave, remove | no document lost by a merge or left in a removed collection | `Following` (partly) |
| Service document store (`packages/service/src/store.ts`) | `documents`, `deleted_documents`, deletions feed, `purged_ids`, idempotency keys | upsert, delete, restore, purge, pull pages | a purge is final; pages miss nothing; a retry is idempotent | `ServiceDocument`, `Requests` (partly) |
| Local store (`store/local-adapter.ts`) | one file per collection, a cache, a write chain | create, add, update, patch, delete, drop, read | a write of another process is not lost or hidden by the cache | `LocalStore` (file adapter) |
| Tasks and leases (`tasks/*`, `sync/coordination.ts`, `packages/mcp/src/coord.ts`) | task documents, watched leases, notices | create, start, finish, set aside, delete, link, next, renew, retry offline claims | a clash is told; completions happen once; edges and new tasks are not lost | `Tasks` (partly) |
| Sync scheduling (`sync/index.ts`, `sync/shared-cycle.ts`) | timers, work in flight, cycle lock | start, stop, tick, debounced push, cycle, flush at exit | a returned write leaves at once; every write is eventually pushed; nothing survives a stop | `SyncLoop` (partly) |
| MCP server and CLI (`packages/mcp`) | the server's session, hook files | tools, hooks, commands | which writes are pushed by whom | `McpTools`, `CliTools`, `Sessions` (partly) |
| dsh plugin (`packages/dsh`) | the plugin's settings and loop | tools, approval gate, captures | the same | `DshTools`, `SyncLoop` (partly) |
| Journal (`memory/journal.ts`) | drafts per session | log, consolidate, roll up dead sessions | no entry deleted that is in no memory | `Sessions` (partly) |
| Memory store, curation (`memory/*`, `curation/*`) | memories, archive marks | store, supersede, compact, sweep | writes reach the team | as runs of the tools only |
| Service front end (`packages/service/src/app.ts`, `auth.ts`, `ratelimit.ts`, `cursor.ts`) | token buckets, kept answers | route, authenticate, limit, page | keyed work done once; the sweep gives no tokens away | `HttpRoutes`, `Requests` (partly) |
| Transports (`sync/http-backend.ts`, `sync/mcp-transport.ts`) | token cache and file, MCP sessions, `me` cache | mint, send, retry, open, reopen | own token; never the refused one; the right name | `Requests` (partly) |
| Recall, listing, buckets, training, configuration, remote MCP, infrastructure | settings, indexes | ranking, formatting, routing, jobs driven by hand | not concurrent state | not modelled (section 7) |

How they interact. A tool call (MCP, dsh or CLI) changes the local store under a
document's lock (`doc-lock.ts`, a file lock per document) and asks for a
debounced push. A cycle is push, then pull (`sync/index.ts`), and talks to the
service through one backend. Starting a task asks the coordination backend for a
lease: the service for a shared collection, the local file otherwise. Leases,
counters, document locks and the store's files all rest on the file lock.
Deletes and purges are queued in sentinel documents and sent by the next push.

Which behaviours are hard: processes of one machine that share files without
sharing memory; clean copies judged before an `await` and used after it; a
pull that pages through a feed others are writing; requests whose answers are
lost; leases that expire while their holder sleeps; merges of collections that
are being written to; loops that are stopped while they wait; crashes between
two file system calls. `PROJECT.json` lists each such place under "hazards",
with the properties about it.

## 2. Modules

| Module | Models | Notes |
|---|---|---|
| `FileLock` | `fs-lock.ts` | one step per file system call, per process |
| `LeaseRules` | grant, conflict, prune and takeover rules | no state; used by both backends |
| `LocalCoordination` | `sync/local-coordination.ts` | EXTENDS `LeaseRules`; one step per operation, which runs under the file lock |
| `ServiceCoordination` | `packages/service/src/coord.ts` | EXTENDS `LeaseRules`; one step per statement |
| `ServiceDocument` | `packages/service/src/store.ts`, one id | one step per transaction |
| `DocSync` | `sync/push.ts`, `sync/pull.ts`, `memory/forget.ts`, `memory/trash.ts`, `sync/deletes.ts` | EXTENDS `ServiceDocument`; machines, pushes and pulls around one document |
| `StoreChanges` | what each operation makes of a collection's file | no state |
| `SharedStore` | the promise of `local-adapter.ts`: every change one step | EXTENDS `StoreChanges`; abstract |
| `LocalStore` | `store/local-adapter.ts`, one collection | EXTENDS `StoreChanges`; refines `SharedStore` |
| `Tasks` | `tasks/*`, `sync/coordination.ts` | one step per read, lease call, locked write |
| `McpTools`, `DshTools`, `CliTools` | every tool, hook and command: the runs it may make | no state; each EXTENDS the one before or `McpTools` |
| `SyncLoop` | `sync/index.ts`, `sync/shared-cycle.ts`, server and plugin lifecycle | EXTENDS `DshTools` |
| `Sessions` | servers with journals, hooks and commands over one store | composes `SyncLoop` and `CliTools` |
| `Following` | `sync/sentinel.ts`, `collections/manage.ts`, the choices of push and pull | one step per sentinel write and service call |
| `FollowingInv` | the inductive invariants of `Following` | no state of its own; EXTENDS `Following` |
| `HttpRoutes` | the routes of `app.ts` and the requests of `http-backend.ts` | no state |
| `Requests` | `http-backend.ts`, `mcp-transport.ts`, `app.ts`, `ratelimit.ts`, `auth.ts`, feed pages | EXTENDS `HttpRoutes` |
| `LocalCoordinationProofs`, `ServiceCoordinationProofs`, `DocSyncProofs`, `LocalStoreProofs`, `TasksProofs`, `SessionsProofs`, `FollowingProofs`, `RequestsProofs` | theorems | see section 5; the first is about `LocalCoordination` and the lock it runs under, `FileLock` |
| `MC*` | instances for TLC | model values, who runs where, symmetry |

Definitions commented "Mutant" are plausible bugs of the definition they stand
before. Each is used in its place once, to see that the property named with it
in `PROJECT.json` fails: no property holds whatever the code does.

The modules cut the program at its interfaces, and each takes from the one below
what that one shows: `LocalStore` and `LocalCoordination` take from `FileLock`
that a lock excludes; `Tasks` takes a lease call as one step, which is what
`ServiceCoordination` shows of it; `Following` takes of `DocSync` that a push
sends and a pull brings the newest revision; `SyncLoop` takes a push as reading
what is unpushed and clearing it on success; `DocSync` takes a request as
happening once, not at all, or with its answer lost, which is what `Requests`
shows of it.

### FileLock
`pc[p]` is the call process p makes next; the constants `Holding`, `Guarding`
and `Judging` name groups of them. `lock` and `guard` are the two paths, each
absent or a file with its creator, whether its name has been written, and
whether it outlived the 2 s grace. `Open`, `Write`, `Read` are `attempt`;
`OpenGuard` to `DropGuard` are `breakStale`; `ReadGuard`, `CheckGuard`,
`RemoveGuard` its handling of a guard in the way (`rmIfSame`); `LockIsMine`,
`Drop` are `releaseIfMine`; `SweepStat`, `SweepRemove` are `sweepLockDebris`.
`Load` and `Store` stand for any caller's read, change and atomic rewrite; the
guarded file is a counter, so that a lost rewrite shows. `Crash` may happen
before any call in `CrashAt`. Timing is assumed as the code assumes it: only
dead processes' files are ever judged stale.

### LeaseRules, LocalCoordination, ServiceCoordination
A lease table maps each key to at most one lease with holder, scope, ttl and
expiry. A request may leave out scope and ttl, and may reclaim. `Conflicts` is
the check a grant depends on. The histories `revived` and `reclaimed` record
which leases a heartbeat renewed after they had expired and which were granted
with reclaim. On the machine an operation is a step. On the service `tx` is the
one transaction that holds the collection's advisory lock (`Begin`: lock and
DELETE; `ReadPrev`: SELECT FOR UPDATE; `CheckLive`: live query; `Grant`: upsert
and commit), `beat` the rows renewed by heartbeats that have not committed, and
time passes between any two statements. A row lock is a guard on `RenewRow`,
`ReadPrev` and `Release`.

### ServiceDocument, DocSync
A revision number stands for content and metadata; two copies with the same
revision are the same document. `row`, `trash`, `deletedAt`, `purgedAt` and
`closedAt` are the service's side of one id. `local[m]` is machine m's copy
(`dirty` is `is_synced = false`, `gone` the `deleted_upstream` marks,
`refused` is `sync_rejected`), `since[m]` its pull point. A push reads, calls,
settles: what it read is in `push[p].doc`, and edits may come at any moment in
between. A pull starts (and notes the time), may look up moved documents, reads
a page and applies it. Pushes and pulls are processes of their own: `On` says
on which machine each runs, so two processes of one machine are two pushers.
`Edit`, `Forget`, `AskPurge` and `AskRestore` are what people ask for; `Note`
is the queueing that follows a local delete. `Moved` is a machine outside the
model that moves the row to a collection not followed here. What fails follows
`isCycleFatal`: `LosePush`, `LosePull` and `ApplyOnly` give the rest up and leave
the pull point; after an error that is not fatal a push goes on with what comes
next (`FailPush`), and a pull goes on and moves its pull point past what it did
not apply: a failed move check, page, document or deletion (`FailMoveCheck`,
`FailFetch`, `FailApply`). The history `missed` has when the writes it passed over
were made. `SettlesSoon` assumes that a push records its answer before the overlap
has passed.

### StoreChanges, SharedStore, LocalStore
`StoreChanges` says what add, update, batch update, patch, delete, create and
drop make of a collection. In `SharedStore` every change is one step. In
`LocalStore` a process has a cache with the identity of the file it was read
from, and any number of operations under way (`ProcOf`). An operation takes the
cached collection and then asks for the file's identity; it reloads when the
identity differs, changes the collection in place, writes and renames, and
remembers the new identity after a stat; a failing write drops the cache. A step
ends where the code awaits the file system, so the operations of one process
interleave there. Two histories name where they get into each other's way:
`stale` marks an operation whose collection another one of its process has
replaced in the cache meanwhile, `mixed` a process whose cache and identity come
from two operations. The refinement is the identity on the file's content:
`ActsAsOneStore` is `SharedStore`'s next-state relation with `docs` read off the
file, but for a rewrite by a stale operation.

### Tasks
`call[s]` is a session's tool call: what it saw before the lock, what the lease
backend answered, what it reads under the lock and writes. Leases live on the
service (`lease`), lapse, and may go to a colleague; `watch` is what a session
renews, `told` whom a clash was reported to. A claim made while the service is
away is `unshared` and retried (`RetryList` to `RetryClear`). Numbers for new
tasks come from the service or, while it is away, from the machine's counter, or,
when that is busy or unreadable too, are the highest number seen and one
(`NumberFrom`). A link edits one task's edges and then the other's, also when the
first is gone by then (`OtherEdge`).
The histories `told` and `wiped` are about a session's present claim: a granted
or unshared claim starts them anew (`Anew`), a removed task takes its mark along
(`Gone`).

### McpTools, DshTools, CliTools
One definition per tool, hook or command, with the tool's name: the set of runs
it may make. A run lists the changing calls of core in order ("share",
"destroy", "keep", ...) and whether the handler returns or throws, at any point
where a call may fail. The handlers' branches decide the runs; texts and reads
are left out. `withSyncOnWrite` wraps the runs as the code wraps the handlers.
The plugin's approval gate is not in them: a call that waits for the user, or is
denied, is a call that did not begin or made no run.

### SyncLoop, Sessions
`loop[p]` has the timer of process p (`owned`, `active`, `armed`), `soon[p]` the
debounce, `work[p][s]` what it has under way: an initial cycle, a tick, a
debounced or asked-for push, with the state of each. `inFlight[p]` is the one
piece of work `runTracked` remembers. `lock` is the cycle lock file: made,
named, judged and removed in steps. `pending` is whose writes are unpushed,
`owed` whose returned tool calls must be pushed at once. Plugins are removed,
switched off and on; servers shut down with a flush, or crash. `Sessions` adds
`command[h]`, a hook or CLI process with the rest of its run, and the journal:
`drafts`, `rolled`, and `roll[x]`, a roll-up under way (list, store, delete). A
command's push may fail and count an error (`PushFails`), throw before the service
is asked, which the caller swallows (`PushThrows`), or be answered with a refusal
for good, which counts no error; `kept` has whose documents were refused. The
backend is configured and the collections are ones that sync.

### Following
`copy[n][d]` is the revision of document d in the local collection n, `rows[d]`
the service's row and the collection it is in. `subscribed`, `left`, `pending`
(backfills), `redirect`, `queue` and `tombs` are the sentinel documents. `at[p]`
is where a session, cycle or hook is in `createNewCollection`, `sync subscribe`
and `unsubscribe`, `removeCollection`, `mergeCollections`, a write, a push and
pull, or a hook's first visit; each write of a sentinel and each request is a
step of its own. A failing request ends the cycle, or, when its error is not one
of `isCycleFatal`'s, only its part of it (`Skips`, `RecoverFails`, `FetchFails`,
`EachCollection`). Four histories name what a property is about or excepts, each
set in the very steps in which the code does it: `excused` has documents whose deletion a
user confirmed or whose newest revision the code loses; `astray` documents whose
row a pull read and could not put, or never read, and those a merge moved; `dropped` names that were
removed here, or that a recovery did not get to read; `owed` the names whose
history is due after following them again. Section 6 lists the cases. `at[p].away`
is what was unfollowed when p's work began. `FollowingInv` says what holds in
every state in parts that name what each process is about to do.

### HttpRoutes, Requests
`HttpRoutes` states for every route its rate class, whether it keeps answers
under a key and what it does, and for every client operation the route it uses.
In `Requests` `proc[p]` holds a process's token, its generation, the cached
name, the MCP session and the one being opened; `file` is the shared token file;
`call[c]` an operation with its part, retry and key; `net` the requests under
way. `TurnAway`, `Admit`, `LookUp`, `Run`, `UpsertOne` and `Keep` are the
service's handling in order: a batch of documents to store is upserted item by
item, each in a transaction of its own, and may fail between two of them
(`Unavailable`). The token command prints a new token or, again, one it has
printed for this account (`Printable`). `now` drives refill, idling and the sweep.

## 3. Runs

| Run | Question | Instance |
|---|---|---|
| `file_lock` | exclusion, no lost rewrite | 4 processes, 2 crashes anywhere but inside a break; symmetric |
| `file_lock_liveness` | does everybody get through? | 3 processes, 2 crashes anywhere; fair |
| `local_coordination` | lease rules and counters | 3 sessions of 2 users, 2 keys with a common resource, time 0..3, ttl 2 |
| `service_leases` | do the rules hold statement by statement? | 3 sessions of 2 users, 2 keys, time 0..2, ttl 1 |
| `doc_sync_edits` | edits, pushes and pulls of two people | 2 machines, 2 revisions, overlap 1, 5 time units, 1 failing call, `SettlesSoon` |
| `doc_sync_deletes` | with forgets or purges, and a restore or a move | 2 machines, 2 pushes, 1 pull, 2 revisions, overlap 0, 2 time units, 2 forgets or purges, 1 failing call |
| `local_store` | do caching processes act as one store? | a server with 2 operations at a time and a command, 2 documents, 8 changes, 3 writes, failing calls, crashes; symmetric |
| `tasks` | clashes, completions, edges and numbers | 2 sessions and a colleague, 3 tasks and 2 new numbers, 2 calls each, 1 lapse, 1 outage; symmetric |
| `sync_loop` | is a returned write pushed, is no entry lost? | 1 server with 2 pieces of work, 1 hook or command, 2 journal entries, 1 crash, 1 failing push |
| `sync_loop_liveness` | is every write pushed in the end, does a stop stop? | 1 server and 1 plugin, 2 starts, 1 crash, sync off and on once; fair |
| `following` | are documents kept, do collections stay away or come back as asked? | 1 session with 2 calls, 1 cycle, 1 hook, an edit and a teammate's store, 1 fault, 4 of these in all; 2 collections, 3 documents |
| `requests` | keyed work, tokens, limits and pages | 2 processes (HTTP and MCP gateway), 2 calls, 3 documents, a batch of 2 and one of 1, pages of 2, 2 events |

Why the bounds are enough.

* A broken lock needs a dead holder, two processes that judge it and one that
  takes the new lock: four processes are the first number at which a breaker's
  late removal hits a live lock with somebody left to take it, and two crashes
  the first at which a breaker dies as well.
* A lease needs a second key to overlap, a second session of its user to be
  reclaimed, another user to be refused, and time past its expiry and its
  pruning, which the clocks allow (expired leases are kept for 0 seconds instead
  of seven days).
* Two revisions are an edit on top of what was pushed. With OVERLAP = 0 a pull
  point may lie right behind a write, the hardest case where all clocks agree;
  the edits run has the overlap of the code and the time for one push to be
  answered late within it. One failing call passes a page or a document over; the
  histories show that both exceptions are met.
* Three writes of a file are enough for a cache to be two rewrites behind, its
  owner dead in between, and for a lost change to show: without its exceptions
  the run finds one in a single process with a reader and a writer. The two
  operations of the server are interchangeable (`Same`).
* Two sessions complete, link and number the same tasks; three tasks give an
  edge on both sides of a task that is linked twice. A retry needs an outage, a
  clash a lapse.
* In `sync_loop` two pieces of background work let a push be forgotten by later
  work; the hook runs any of its runs, and a second roll-up may overlap. In
  `sync_loop_liveness` two processes race for the cycle lock that a crash leaves
  behind. Variants with two servers or two calls per process were explored
  without a violation.
* In `following` one session with two calls can merge and then follow again,
  leave and come back, or create over a redirect, while a cycle and a hook work
  from lists they read earlier; the collections have a document of the user's, a
  teammate's and one the service refuses. Two sessions, three calls, or a fault
  beside four pieces of work were explored without a violation.
* In `requests` three documents of one instant make a page end in the middle of
  an instant, and one that was deleted and stored again is on both feeds. The
  first batch has two documents and the bucket of documents room for it, so it can
  stop between them. Two events are a token that ends and an account that changes,
  a lost answer and an outage, and so on.

Deadlock is not checked: every instance stops when its bounds are used up, and
processes that finished do nothing.

Properties, and where they come from:

* `MutualExclusion`, `NoLostUpdate`: the header of `fs-lock.ts` (17-21), through
  takes, releases, crashes and breaks. `CrashNeverBlocks`: every process that
  keeps running finishes or gives up.
* `ExclusiveUnlessRevived`: overlapping live leases of two sessions exist only
  where a heartbeat revived an expired lease or one session of a user
  reclaimed. On the service the first covers a renewal that began in time and
  committed after the expiry, when somebody's live query had passed it by.
* `TakeoverRecordHonest`: `took_over_from` says truly whether the lost lease had
  expired or was reclaimed, although row, live leases and grant are read and
  written at three times.
* `NoSilentTakeover`: a live lease changes hands only on the record and ends
  only by its holder's release; pruning and renewals never race one away.
* `CountersStrictlyIncrease`: whatever the floors.
* `CleanWasShared`: a copy that counts as synced was the shared row in exactly
  that revision (`writeIfUnchanged`).
* `UnpushedEditKept`: an unsent edit leaves a store only by its user's delete,
  by a purge, by being shared, or with a document that moved out.
* `NeverBehind`: once the pull point is past the last write of the row by
  another machine, a clean copy is live and the row's revision or not older
  (`cycleStartedAt`), unless the row was passed over by a pull that failed on it.
* `PurgeReaches`: a purged id has no row, and every machine past the purge's
  entry on the feed holds no copy, with the same exception.
* `ActsAsOneStore`: the processes with their caches implement `SharedStore`.
  `ReadsFresh`: no read returns a collection older than its begin. Both except an
  operation whose collection its own process replaced or mixed up meanwhile.
* `ClashIsTold`: whoever works on a task whose lease a colleague has was told,
  has the mark the retry goes by or the lease the heartbeat asks about, or is
  just claiming the task again.
  `OthersKept`, `NewTaskReplacesNone`: no edge, close time or task is lost to a
  session that wrote meanwhile, but where two numbers came from two counters or
  from none. `Consistent` adds to the types that a recurring
  task has one next occurrence per completion.
* `PromptPush`: a returned write has a push on its way. `FlushSent`: also at the
  server's exit. `ReleaseTold`: a `yapa task release` that exits with 0 was pushed,
  unless the push threw or the service refused the document for good.
  `Consistent` (Sessions): no journal entry is deleted that is in no memory.
* `NothingLeft`: no timer outlives the plugin's stop, no cycle lock its cycle.
  `EveryWritePushed`: every write is pushed, or no loop is running.
* `NothingLost`: of every document the newest revision is on the service or in a
  local collection. `Consistent` (Following): redirects end. `HistoryBack`: a
  collection followed again and a wiped store get their documents back.
  `StaysAway`: what was left or merged away is not made or followed by itself.
* `RanOnce`: keyed work is done once, and no document of a batch is written
  again, but for the keys in `torn`. `Consistent` (Requests): a request bears
  the process's own token and never the one just refused, unless the token command
  printed it again. `MeIsSignedIn`: the
  cached name is the token's account. `SweepUnseen`: dropping idle buckets gives
  nobody tokens. `PullIsWhole`: a pull that ends well has brought everything
  that was there throughout and removed what was deleted.

## 4. Fairness

`FileLock`'s `FairSpec` asks weak fairness of each process's next call (a live
process is scheduled) and of the ageing of files (time passes). It asks nothing
of crashes, of giving up (`Timeout`) or of the sweep. It is enough because
`withFileLock` retries until `waitMs`: a process that waits either gets the lock
or gives up, and what is claimed is that a crash, inside a break too, never
leaves a survivor waiting without that choice coming out.

`SyncLoop`'s `Fairness` (in `SessionFairSpec`) asks weak fairness of each
server's work (Node runs a ready callback; a call to the remote is answered or
fails), of its armed timer firing, of a start's connection being answered, and of
the interval passing. Nobody has to call a tool,
start a server or switch sync on, and no crash or failure has to stop happening:
they are bounded. The liveness run gives every process one piece of background
work at a time.

## 5. Proofs

All theorems hold for every value of the constants that satisfies the named
assumptions of the module that declares them.

`LocalCoordinationProofs`: `TypeCorrect`; `Exclusion`
(`ExclusiveUnlessRevived`); `CountersUnique`; `TakeoverRecord`;
`TakeoverNotSilent`. Exclusion is inductive together with the type invariant: a
grant adds a lease that overlaps no live lease of others, but for the same
user's under reclaim, and time only ends leases. The takeover record needs the
grant's guard: a lease on the key that is not in the live set has expired. The
counters need that every issued value is at most the counter's present value.

The same module, about `FileLock`'s `LockSpec`: `LockTypeCorrect` without
conditions; `LockExclusion` (`MutualExclusion`), `BreakersExclude` and
`UpdatesKept` (`NoLostUpdate`) assuming that no process crashes inside a break
(`CrashAt \cap Guarding = {}`; section 6 says what happens without it).
The invariant says that a guard belongs to the one process inside a break, that
a lock's file belongs to the one process holding it or to a dead one, and that a
process about to remove a stale lock still looks at the very file it judged. For
`UpdatesKept` it adds that the data equals the number of processes that stored,
and a holder's reading is current.

`ServiceCoordinationProofs`: the same four theorems about the leases
(`TypeCorrect`, `Exclusion`, `TakeoverRecord`, `TakeoverNotSilent`) although a
transaction's statements see different times. Two things are added to the
invariant. `LockInv` is what the row locks give: no row is locked by a heartbeat
and by the transaction, so the row read FOR UPDATE is still the row
(`PrevCurrent`), what the transaction deletes stays expired (`PrunedDead`), and
a heartbeat's rows are still its session's when it commits (`BeatsOwn`).
`CheckedInv` is what the conflict check leaves behind until the grant is
written: every live overlapping lease of others is one the reclaim allows or one
a heartbeat revived since, and the row on the key was either live and of the
same user or has expired. Both backends' proofs begin with the same four lemmas
about what pruning, granting and renewing make of a row.

`DocSyncProofs`, for any number of machines, users, pushes and pulls, with lost
calls, deletes, purges, restores and moves: `TypeCorrect`; `SyncedWasShared`
(`CleanWasShared`); `WorkIsKept` (`UnpushedEditKept`); `PurgeIsComplete` and
`PurgeIsCompleteAlone` (`PurgeReaches`); `NothingSlips` and `NothingSlipsAlone`
(`NeverBehind`, under `SettlesSoon`). The invariant of the first adds that the
row, every copy in the trash, every page being applied and every push about to
settle with success holds a shared revision: a clean copy comes from one of
them. The type invariant adds that the service's clock readings are not in the
future and a pull never starts before the overlap, so that a pull point is a
natural number. An edit is kept because a revision only grows and what a push
settles is the version it read. A purge reaches every copy because its entry
closes the id for good (`PurgedInv`), and because a pull that began after it
either finds no copy, has the entry still before it, or holds it; what may not
happen is that a page read before the purge is applied by one pull after
another pull of the same machine has moved the pull point past it. That is the
hypothesis `NoStalePage` (no full pull begins on a machine while another one
there holds a page), which holds wherever a machine runs one pull at a time, as
the cycle lock means it to; without it TLC finds the purged copy back (section
6). `NothingSlips` has the same hypothesis. Every write of the row carries the
second it is made in, so a row older than the point a pull will set is the row
that pull reads. Its invariant (`LevelInv`) asks three things of such a row: a machine is
level with it once its pull point or the point a pull under way asks from is
later (`Due`: unless a failed pull passed it over), a page not applied yet agrees with it (`Agrees`), and a row that is live
again is not older than the last delete (`DatedInv`), so no page archives it.
An answer recorded within the overlap meets the row the push left or one written
since, which no pull point has passed (`SentInv`): that is what the overlap is
for, and where `SettlesSoon` is used.

`LocalStoreProofs`: `TypeCorrect`, `CacheHonest`, `Implements`
(`ActsAsOneStore`, the refinement) and `FreshReads` (`ReadsFresh`), for any
processes, any number of operations under way in each, and any changes. The
invariant `IInv` has one part per thread, `Fine`, stated of its record with the
file, the cache of its process and `mixed`, and so kept by every step that marks
the thread stale or leaves the cache it waits with: what a thread that is not
stale is about to write is the outcome of its change on the file as it is. A
rewrite then is the abstract step, or one by a stale thread, and every other step
a stutter; a thread that changes the file holds the lock (`Locked`). A cache whose
identity is the file's holds the file's documents, but in a process that is just
writing or is mixed. Reads need that a file's identity only grows. What `stale`
and `mixed` except is in section 6: the code loses a change there, so nothing more
is true of it.

`TasksProofs`: `OneNext` (`Consistent`), `ClashTold` (`ClashIsTold`),
`OthersAreKept` (`OthersKept`) and `NumbersAreNew` (`NewTaskReplacesNone`), for
any finite set of sessions, any tasks, calls, lapses and outages. The invariant
`Inv` has, beside the types, four parts. `ReadInv`: what a session read under
the document's lock is still what the task says, but for what writers without
the lock change (the retry's mark); so no write loses another's. `KeptInv`:
whoever claimed a task watches it, was told, has its mark on it, or is on the
way to one of these, in every step between the lease's answer and the write.
`NumberInv`: a number given by a counter is at most its present value and was
given to one call; of a number that came from no counter nothing is said. `NextInv`: the calls that still owe a next occurrence and
those that made one are together at most the completions; it counts calls, and
is the one place that needs the sessions to be finitely many. `HasMax`, the
greatest of a finite set of numbers, follows from the library's theorem that
proper subsets of finite sets are well ordered.

`SessionsProofs`, over `SessionSpec`: `EntriesKept` (`Consistent`),
`PushIsPrompt` (`PromptPush`), `NothingIsLeft` (`NothingLeft`), `FlushIsSent`
(`FlushSent`) and `ReleaseIsTold` (`ReleaseTold`), for any servers, plugins, hooks, commands and entries. `LockInv`: a lock with a
name is held for a cycle under way; this needs `KindInv`, that only ticks and
initial cycles work on the lock. `LoopInv`: what a stopped plugin still has is the
start that waits. `OwedInv`: an owed push is scheduled or some work sends it, and
after a shutdown has looked, that work is one it waits for or one it does not know
of. `JournalInv`: a roll-up that deletes has stored what it read, and a command
that promises a push either has it before it, or has pushed, or its push was
swallowed. The tools' runs enter through two assumptions, `ToolsAssumption` and
`CommandsAssumption`: what is left of every run, when what stays on the machine is
left out, is a sequence of the four effects, and a command that tells of its push
ends with it. They are closed statements about the tables of `DshTools` and
`CliTools`, and are assumed because the filter, `SelectSeq`, is recursive and the
provers do not evaluate it; TLC evaluates both on every run that extends the
module.

`RequestsProofs`, for any processes, calls, operations, accounts, batches, page
limits, rates and faults: `ConsistentAlways` (`Consistent`), `RanOnceAlways`,
`MeIsSignedInAlways`, `SweepUnseenAlways` and `PullIsWholeAlways`. The invariant
`Inv` has four parts. `TokenInv`: what each call, process and the token file
hold. A generation has one account, so a call that still has the process's
generation has a token of its account; and the token a call was refused is
neither in its process's memory nor in the file, which later take only tokens
that are newer, come from each other, or are printed again, which ends the
refusal, so the retry cannot pick it up. `OpenInv`: a session is opened for one token, and all
who wait for it have that token. `KeyInv`, for every key not in `torn`: one copy
at most is between look-up and record, and what was begun, with the first document of a
batch, is on record or about to be. `LimitInv`: a bucket that was dropped would be full by now. For the pull
there are `StageInv` (only keyed requests are looked up or kept, so a page comes
only from the page's own step) and `PullInv`: of a document nothing touched since
the pull began, the machine has the row and the pull has seen it, or the feed has
it ahead of the position, and the same of its deletion. That a page keeps it is
`PageTurns`: the rows and deletions a page leaves lie past its new positions, a
page that is the last leaves none, and one that is not moves on, so that the
early stop of a cursor that does not move never cuts a pull short. It rests on
lemmas about the feed's order: equal times, first n, byte budget, the entry one
past the limit.

`FollowingProofs`, for any finite set of collections and any documents, sessions,
cycles and hooks, with crashes and failing requests anywhere: `RedirectsResolve`
(`Consistent`), `LeftStaysAway` (`StaysAway`), `NothingIsLost` (`NothingLost`) and
`HistoryComesBack` (`HistoryBack`). Its definitions are in `FollowingInv`.

* `TypeInv` says beside the types which step each operation may be at
  (`OnItsWay`), that a step about a collection has one, and that the service
  refuses what is marked rejected.
* `Acyclic`: every non-empty set of names has one that is not redirected into the
  set. It is inductive because `addCollectionRedirect` clears the target's own
  redirect in the write that adds the new one. That `Resolve`, with its bound of
  one step per name, reaches the end of every path (`AcyclicEnds`): the names that
  end within k steps grow with k until they are all. The least k at which they do
  not gives the contradiction, since the library's induction theorems cannot be
  instantiated here. It needs `Name` finite.
* `KeptAway`: what a process was to keep away from is unfollowed still, and is not
  among the names it is heading for (`Heading`): what it writes, is about to make,
  has chosen for its pull or will subscribe after its push. Following a name again
  takes it from every process's `away`.
* `LossInv`: whatever is not dirty is on the service (`Backed`), and so is all that
  a process relies on when it drops a copy: what a push's answer settles, what a
  removal without force is about to drop except what its own push is to send,
  and, for a merge, what it copied is on the service or in the target, at least as
  new (`MergeBacked`). A revision that leaves a copy is then elsewhere. The steps
  are compared by what they keep (`Steady`, `CopiesKept`, `NewestKept`), so that a
  process's step has to be looked at once and not once for each other process.
* `HistInv`: a name whose history is owed is marked (`pending`), or has every due
  document up to the pull point, and a pull under way that is done with it has
  seen it up to that pull's start, which will be the pull point (`Whole`, `Seen`).
  When its mark is about to be cleared it is whole, but for what the page being
  applied brings (`Clearing`). It needs that one cycle at a time runs here (the
  cycle lock), that a marked collection is pulled from the beginning, and that the
  documents `dropMovedOut` deletes are none that are due.
* `WipeInv`: every document of this user's that the service still has as the wiped
  store left it is in a copy, or a pull from the beginning has yet to come to its
  collection, has it on the page, or is about to subscribe to it (`Coming`). What
  a removal, a merge or `dropMovedOut` may take is either at home, in a collection
  that is thereby dropped, or not the last copy: clean copies are where the row is
  (`CleanHome`), and a merge's target has what it moves.

`HistInv` and `WipeInv` are proved with `LossInv` and `TypeInv` as hypotheses, one
lemma per operation.

Other assumptions are on model values: `NoCopyAssumption`, `TaskAssumption`,
`RowAssumption` and `NoneAssumption` (an absent copy, task, row or record is not
one), the finite sets of sessions, documents and collections, disjoint kinds of process.

Only model-checked: liveness (`CrashNeverBlocks`, `EveryWritePushed`), which the
prover does not reach.

## 6. Disagreements and exceptions

Places where the code does less than it, a comment or a doc says. Each was met
while modelling; where a property would fail for it, the property excepts exactly
that case, by a history variable or an assumption, named here.

File lock and leases:

* A breaker that crashes inside a break (`fs-lock.ts:197`): its guard may be
  removed by two processes, the slower one removing the faster one's new guard,
  against the header's promise. Excepted by `CrashAt`.
* A late heartbeat (`sync/local-coordination.ts:251`): "two sessions can never
  both be granted overlapping work" fails when a session wakes up. Excepted by
  `revived`.

`DocSync`:

* Two pushing processes (`sync/push.ts:97`): "pushes run one at a time" in a
  process, not on a machine; the older version can arrive last.
* A push's answer recorded later than the overlap makes a newer version missed
  (`sync/pull.ts:335`, CHANGELOG.md:413). Excepted by `SettlesSoon`.
* A re-created document (`sync/pull.ts:173`): its author's machine does not read
  its own row back and archives the document on the older deletion.
* Two pulls of one machine (`sync/pull.ts:335`): a page read before a purge can
  be applied after another pull has moved the pull point past the purge's entry;
  the purged copy is back and no later pull removes it. Excepted by
  `NoStalePage`; the instances have one pull per machine.
* A restored document whose last edit was shared but not answered for: the next
  push finds it unchanged (`packages/service/src/store.ts:333`) and marks it synced with
  its own, older `updated_at` (`sync/push.ts:352`), while the row has the
  restore's. The content is the same, so `NeverBehind` asks for the row's
  revision or a time not older.
* A moved document (`sync/pull.ts:296`): `dropMovedOut` deletes without a second
  look, so an edit made during its request is lost.
* A page that fails with an error that is not fatal (`sync/pull.ts:199-201`), or
  one document whose application or deletion throws (`sync/pull.ts:176-179`,
  `190-193`), is skipped, and `updateSyncPullTimestamp` moves the pull point past it
  (`sync/pull.ts:115`), against "must not advance the pull point past docs it never
  read" (`sync/pull.ts:113-114`). The row, or the purge, does not come until it
  changes again. Excepted by `missed`, in the runs and in the theorems.

`LocalStore`, in a process that runs several operations at once, as every MCP server
does. In each case a change made on the wrong collection is written back without
another's, against "one process never writes back a copy that lacks another's
change" (`store/local-adapter.ts:18-19`); TLC finds one operation that reads beside
one that changes to be enough:

* A reload that ends between `cache.set` and `cacheMtimes.set` of `writeAtomic`
  (`store/local-adapter.ts:167-169`) leaves old content with the new identity: the
  comment at 168 thinks of other processes only, and "the cache is current exactly
  when the file's identity still matches it" (185) fails. Excepted by `mixed`.
* An operation takes the cached collection before it asks for the file's identity
  (`store/local-adapter.ts:138-142`). Another one replaces cache and identity
  during that stat, the comparison is with the new identity, and the collection
  taken is the old one. Excepted by `stale`.

`Tasks`:

* `retryUnsharedClaims` clears `claim_unshared` whatever it holds by then
  (`tasks/claim.ts:242`), and a status change by another session clears it
  (`tasks/update.ts:113`): nobody hears of the clash (`wiped`).
* A heartbeat under way when a lease is granted reports it lost.
* The service's and the machine's counters can give out one number
  (`tasks/create.ts:104-107`): excepted by `NewTaskReplacesNone`.
* When the machine's coordination file is busy or unreadable a number is the highest
  one seen and one (`tasks/create.ts:109-112`), which no counter remembers: two
  sessions here can take it and the second task replace the first, against "two
  sessions here never get the same id, online or not" (`tasks/create.ts:104-105`).
  Excepted by the same property.
* `task_next` may start a task again that was completed after its listing; a
  delete takes no document lock, so a completion that races it still makes the
  next occurrence; adding and removing one dependency at once can leave half an
  edge.

`SyncLoop` and `Sessions`:

* `yapa task release` ends with 0 although the status is only on this machine when
  `pushDocsNow` throws (`packages/mcp/src/cli/task.ts:234` catches it to undefined)
  or when the service refuses the document for good (`sync/push.ts:325-327` counts
  it as rejected, not as an error), against "4 done locally but not shared"
  (`packages/mcp/src/cli/task.ts:34`). Excepted by `swallowed`.
* Later work takes the place of a push in `inFlight`, and a shutdown does not
  wait for it, against the comment at `sync/index.ts:200-205` (`Forgotten`).
* `collection_delete` for everyone queues deletes but is not in
  `SYNC_ON_WRITE_TOOLS`; a handler that throws after a write, and the memory a
  shutdown makes of a journal, schedule no push. They wait for the next cycle.
* A start that still waits for the remote when the plugin is stopped or sync is
  switched off leaves the loop running (`late`); stopping and starting during a
  tick doubles the timers; a changed target or interval is not applied while
  sync is on.
* The cycle lock's unnamed moment and its removal allow two cycles at once
  ("harmless", `sync/shared-cycle.ts:155`).
* An entry can be in two memories when it is rolled up twice; a live session
  idle for a day is rolled up by another's start; what was settled before
  `runCapture` throws is not pushed by the Stop hook.
* The asynchronous Stop hook reads the buffered prompt after awaiting the
  heartbeat (`packages/mcp/src/cli/hooks.ts:733-738`), so the next prompt can be
  paired with this turn's answer, against line 726. Not in the model.

`Following`:

* After `collection_delete` with scope local, following again pulls from the
  beginning but without the rows this device wrote (`includeOwnDevice` only when
  recovering, `sync/pull.ts:105`): they stay away, against
  `collections/manage.ts:104` ("`sync subscribe` brings it back"),
  `sync/sentinel.ts:261` ("full history") and CHANGELOG.md:170. `HistoryBack`
  speaks of teammates' rows (`echo`).
* The plugin's subscribe never backfills
  (`packages/dsh/src/tools-advanced.ts:847-875`); a first backfill that fails is
  not tried again, against `sync/pull.ts:39`. A crash inside `rejoinCollection`, or
  a removal and re-following while an earlier backfill runs, which then clears the
  new mark, leaves the history away: `MarkBackfill` owes it only otherwise.
* An error that does not end the cycle (any code not in `isCycleFatal`,
  `sync/backend.ts:393-399`: the service's `internal`, a gateway's `http_502`) skips
  the collection it met, but `updateSyncPullTimestamp` moves the pull point all the
  same (`sync/pull.ts:115`), against "must not advance the pull point past docs it
  never read" (`sync/pull.ts:113-114`). What that page would have brought does not
  come until it changes again; a marked backfill is tried again, a recovery is not.
  Excepted by `astray` and `dropped` (`FetchFails`, `RecoverFails`). One document's
  failing write (`sync/pull.ts:190-193`) is in `DocSync` only.
* A page's row stays unread while an unpushed copy of the document is elsewhere
  (`sync/pull.ts:317-325`, `PassedOver`), or is put where the document was when the
  page was read although its row has moved (`MovedOn`); the same of the documents a
  merge moves. Where they are then is put right only when they change again
  (`astray`).
* A forced removal inside a merge drops what was left if the push before it
  fails; a pull under way makes a left collection again.
* Documents lost (`excused`): a write or edit between a removal's read and
  `deleteCollection` (`collections/manage.ts:99`); an edit before `dropMovedOut`
  deletes (`sync/pull.ts:284`); an edit of the target's copy during a merge, or its
  removal or being merged itself while another merge has copied into it and not
  dropped the source (`MovingInto`); what comes into a source after it was found
  empty; an older revision pushed over a newer one when a failed merge left two
  copies.

`Requests`:

* `me()` stamps its cache with the generation at the answer
  (`sync/http-backend.ts:421`): a token of another account minted meanwhile
  leaves the old name (`late`).
* `idempotent()` looks up and records in two steps, so overlapping copies both
  run, and a failing record answers 503 after the work; a batch is stored document
  by document, each in its own transaction (`packages/service/src/app.ts:300-307`),
  so a failure in the middle leaves documents written and no record, and the next
  attempt writes them again (`torn`).
* A key's record is stored for the account that asked
  (`packages/service/src/store.ts:692`). When a duplicate of a request is done
  under one account, and the request itself is then refused for its token and
  sent again under another one, the second attempt finds no record of its key
  and does the work again; against "makes a retried request return the same
  value" (`app.ts:472`). Such keys are in `torn` too.
* A pull stops silently after 200 pages while the pull point advances
  (`sync/pull.ts:163`, `cut`).
* A 404 of a session that was not reused reads as "no such document"; a late 401
  drops a newer good token and everybody's file; a failing chunk drops the
  outcomes of the chunks before it.

## 7. Not modelled

Within the modelled parts: the plugin's approval gate
(`packages/dsh/src/approval-gate.ts`), which lets a call go on or not by a table of
tools, a setting and the user's answer, and keeps no state; tasks renamed on a push (`id_taken`,
`sync/push.ts:430`), retracts (`sync/push.ts:464`), chunked memories and links
between similar documents, kept and swept copies; a local read that fails and counts
as finding nothing (`getDocumentsByIds(...).catch(() => [])`); the unlocked read and write of
the delete, purge and tombstone queues (`sync/deletes.ts:9`) and a crash between
a local delete and its queueing (`memory/forget.ts:25`, `memory/trash.ts:207`);
tombstones read once per pull while they are added (`sync/pull.ts:167`); a purge
recorded on the feeds of the collections the row is in by then
(`packages/service/src/store.ts:585`); clocks that disagree; the lease log and
the service's counters (one statement, like `LocalCoordination`'s `Bump`); cleanup
keys, waits and the order of the task queue; the 24 hours of an idempotency key,
the daily alert and the retention sweep; hooks' prompt buffers; queries and
embeddings of the local store and its Chroma adapter.

Memory store and curation are in the models as what their tools write and when
it is pushed. Their own races (`archiveSuperseded` patching without the lock,
`memory/store.ts:111`; the sweep judging a pair read before a model's answer,
`curation/janitor.ts:145`) rest on what a language model answers.

Recall, ranking, listing, date parsing, buckets and training, prompts and model
calls, tool schemas, formatting, the remote MCP server, migrations and generated
bundles are sequential, numeric or textual, only read, or talk to systems whose
behaviour is not in this repository.

## 8. Plan

The models are complete as far as section 7 says, and every safety property the
runs check is a theorem. What is worth modelling next is the renaming of a task on
a push (`id_taken`) with its references and the unlocked sentinels of
`sync/deletes.ts`.
