----------------------------- MODULE Following -----------------------------
(***************************************************************************)
(* Which shared collections one machine follows: sync/sentinel.ts (the     *)
(* subscriptions, redirects, left collections and pending backfills kept   *)
(* in `global`), collections/manage.ts (create, remove, merge), the        *)
(* `sync` tool's subscribe and unsubscribe, the prompt hook's first visit  *)
(* (mcp/src/cli/hooks.ts), and the parts of push.ts and pull.ts that       *)
(* choose the collections and move documents between them.                 *)
(*                                                                         *)
(* Sessions, background cycles and hooks run at once on one store.  Each   *)
(* write of a sentinel document (under its lock) and each call to the      *)
(* service is a step; a crash may come between any two.  A document is its *)
(* newest revision.  The reads that choose a pull's collections are one    *)
(* step, and so are applying a page (DocSync takes its documents one by    *)
(* one) and the push's handling of the delete queue.  Left out: local-only *)
(* collections, teammates' deletes, documents linked or renamed by a push, *)
(* leases moved by a merge, chunked memories.                              *)
(***************************************************************************)
EXTENDS Integers, FiniteSets

CONSTANTS
  Name,       \* shared collections
  Doc, Mine,  \* documents, and those this user owns
  Home,       \* where each document's row is at first, or Nowhere
  Refused,    \* documents the service refuses (a secret)
  Made,       \* collections a settled machine has that have no rows
  Session,    \* sessions calling tools
  Plugin,     \* those of the dsh plugin
  Rooted,     \* those whose folder may create a shared collection
  Cycle,      \* background sync cycles
  Hook,       \* prompt hooks
  Nowhere, NoRow,
  MaxCalls, MaxWrites, MaxCycles, MaxVisits, MaxAdds, MaxWork, MaxFaults   \* bounds

Proc == Session \cup Cycle \cup Hook

ASSUME FollowingAssumption ==
  /\ Mine \subseteq Doc /\ Refused \subseteq Mine /\ Made \subseteq Name
  /\ Home \in [Doc -> Name \cup {Nowhere}]
  /\ Plugin \cup Rooted \subseteq Session
  /\ IsFiniteSet(Name) /\ Nowhere \notin Name

VARIABLES
  rows,        \* the service's row of each document
  clock,       \* the service's feed position
  here,        \* collections in the local store
  copy,        \* the revision of each document in each of them, 0 for none
  dirty,       \* copies with is_synced = false
  rejected,    \* copies marked sync_rejected and unchanged since
  subscribed,  \* __sync_subscriptions__
  left,        \* __collections_left__
  redirect,    \* __collection_redirects__
  pending,     \* __collections_backfill__
  queue,       \* __sync_deletes__
  tombs,       \* __sync_tombstones__
  pullPoint,   \* __sync_pull_sentinel__, 0 for never pulled
  at,          \* what each process is about to do
  used,        \* counts of what the bounds limit
  latest,      \* history: each document's newest revision
  excused,     \* history: documents a user confirmed deleting, or wrote too late
  owed,        \* history: names followed again whose history is due
  astray,      \* history: documents whose local copy is not where their row is, or unread
  dropped,     \* history: names a user removed or stopped following, or a recovery failed to read
  wiped        \* history: the store was new or wiped at first

storeVars == <<here, copy, dirty, rejected>>
followVars == <<subscribed, left, redirect, pending>>
deleteVars == <<queue, tombs>>
others == <<latest, owed, astray, dropped, wiped>>
history == <<excused, others>>
vars == <<rows, clock, storeVars, followVars, deleteVars, pullPoint, at, used, history>>

PC == {"idle",
       "uncreate", "rejoin", "resubscribe", "backfill",
       "unredirect", "unleave", "make", "subFetch", "subApply", "subCycle",
       "queueAll", "removePush", "removeSettle", "unfollow", "leave", "drop",
       "mergeCopy", "mergeVerify", "mergeMove", "mergeCheck", "mergeRemove", "redirect",
       "add",
       "deletes", "list", "send", "settle", "autoRead", "autoAdd",
       "pull", "recover", "recoverAdd", "choose", "each", "moveDrop", "fetch", "apply", "clear",
       "visitFetch", "visitApply", "visitDone", "visitFollow"}
Op == {"none", "create", "subscribe", "remove", "removeAll", "merge", "write", "cycle", "visit"}

Row == [in : Name, rev : Nat, at : Nat, echo : BOOLEAN]
ASSUME RowAssumption == NoRow \notin Row
Revs == [Doc -> Nat]
NoDocs == [d \in Doc |-> 0]
Counts == [{"calls", "writes", "cycles", "visits", "adds", "faults"} -> Nat]

\* docs: revisions read at the start; sent: sent or fetched; ids: documents
\* still concerned; todo, whole, all, marked: a push's or a pull's collections;
\* away, a history: names unfollowed all through this work.
Task == [pc : PC, op : Op, sure : BOOLEAN, name : Name \cup {Nowhere}, into : Name \cup {Nowhere},
         docs : Revs, sent : Revs, ids : SUBSET Doc, todo : SUBSET Name, whole : SUBSET Name,
         all : SUBSET Name, marked : SUBSET Name, start : Nat, from : Nat,
         away : SUBSET Name]
Idle == [pc |-> "idle", op |-> "none", sure |-> FALSE, name |-> Nowhere, into |-> Nowhere,
         docs |-> NoDocs, sent |-> NoDocs, ids |-> {}, todo |-> {}, whole |-> {},
         all |-> {}, marked |-> {}, start |-> 0, from |-> 0, away |-> {}]

TypeOK ==
  /\ rows \in [Doc -> Row \cup {NoRow}] /\ clock \in Nat
  /\ here \subseteq Name /\ copy \in [Name -> Revs]
  /\ dirty \subseteq Name \X Doc /\ rejected \subseteq dirty
  /\ \A n \in Name, d \in Doc :
       /\ copy[n][d] > 0 => n \in here
       /\ <<n, d>> \in dirty => copy[n][d] > 0
  /\ subscribed \subseteq Name /\ left \subseteq Name /\ pending \subseteq Name
  /\ redirect \in [Name -> Name \cup {Nowhere}]
  /\ queue \subseteq Mine /\ tombs \subseteq Doc
  /\ pullPoint \in 0..clock
  /\ at \in [Proc -> Task]
  /\ used \in Counts

Homes == {Home[d] : d \in Doc} \ {Nowhere}

Init ==
  /\ rows = [d \in Doc |-> IF Home[d] = Nowhere THEN NoRow
                           ELSE [in |-> Home[d], rev |-> 1, at |-> 1, echo |-> d \in Mine]]
  /\ clock = 1
  /\ wiped \in BOOLEAN
  /\ here = IF wiped THEN {} ELSE Homes \cup Made
  /\ copy = [n \in Name |-> [d \in Doc |-> IF ~wiped /\ Home[d] = n THEN 1 ELSE 0]]
  /\ subscribed = IF wiped THEN {} ELSE Homes
  /\ pullPoint = IF wiped THEN 0 ELSE 1
  /\ latest = [d \in Doc |-> IF Home[d] = Nowhere THEN 0 ELSE 1]
  /\ dirty = {} /\ rejected = {}
  /\ left = {} /\ pending = {} /\ redirect = [n \in Name |-> Nowhere]
  /\ queue = {} /\ tombs = {}
  /\ at = [p \in Proc |-> Idle]
  /\ used = [calls |-> 0, writes |-> 0, cycles |-> 0, visits |-> 0, adds |-> 0, faults |-> 0]
  /\ excused = {} /\ owed = {} /\ astray = {} /\ dropped = {}

-----------------------------------------------------------------------------
Spent == used.calls + used.writes + used.cycles + used.visits + used.adds + used.faults
Spend(what, bound) ==
  /\ used[what] < bound /\ Spent < MaxWork
  /\ used' = [used EXCEPT ![what] = @ + 1]
Work(p, r) == at' = [at EXCEPT ![p] = r]
Then(p, pc) == Work(p, [at[p] EXCEPT !.pc = pc])
At(p, pc) == at[p].pc = pc
In(n) == {d \in Doc : copy[n][d] > 0}
Dirty(n) == {d \in Doc : <<n, d>> \in dirty}
Copies(n, ds) == {<<n, d>> : d \in ds}

\* getUnfollowedCollections
Unfollowed == left \cup {n \in Name : redirect[n] # Nowhere}

\* resolveCollectionRedirect
Resolve(n) ==
  LET follow[k \in 0 .. Cardinality(Name)] ==
        [m \in Name |-> IF k = 0 \/ redirect[m] = Nowhere THEN m ELSE follow[k - 1][redirect[m]]]
  IN  follow[Cardinality(Name) - 1][n]

\* isPushable
Pushable(n) == {d \in Dirty(n) : <<n, d>> \notin rejected}

\* A process starts on its work: what is unfollowed now stays away from it
\* until a user follows it again; ns are named by the user.
Begin(p, r, ns) ==
  /\ At(p, "idle")
  /\ Work(p, [r EXCEPT !.away = Unfollowed \ ns])
  /\ UNCHANGED history

\* It goes on with a clean slate.
Fresh(p, pc) == [Idle EXCEPT !.pc = pc, !.op = at[p].op, !.away = at[p].away]

\* A user follows n again, by p: no process need keep it away.
Wanted(p, n, next) ==
  at' = [q \in Proc |-> [IF q = p THEN next ELSE at[q] EXCEPT !.away = @ \ {n}]]

-----------------------------------------------------------------------------
(* The sync service.                                                       *)

Accepted(ds) == ds \ Refused

\* upsertMany: the rows n's documents leave; an identical row is left alone.
Upserted(n, revs) ==
  [d \in Doc |->
     IF revs[d] = 0 \/ d \in Refused THEN rows[d]
     ELSE IF rows[d] # NoRow /\ rows[d].in = n /\ rows[d].rev = revs[d] THEN rows[d]
     ELSE [in |-> n, rev |-> revs[d], at |-> clock + 1, echo |-> TRUE]]

\* The last write to arrive is kept, an older revision or not.
Upsert(n, revs) ==
  /\ rows' = Upserted(n, revs)
  /\ clock' = IF rows' = rows THEN clock ELSE clock + 1
  /\ excused' = excused \cup {d \in Doc : rows'[d] # rows[d] /\ rows[d] # NoRow /\ rows[d].rev > revs[d]}

\* GET /v1/collections/{c}/documents: rows of n later than since, without this
\* device's own writes unless it asks for them.
Feed(n, since, own) ==
  [d \in Doc |->
     IF rows[d] # NoRow /\ rows[d].in = n /\ rows[d].at > since /\ (own \/ ~rows[d].echo)
     THEN rows[d].rev ELSE 0]

\* A request that reaches the service or not, and whose answer is lost.
Lost == Spend("faults", MaxFaults)

\* A teammate stores a document of theirs, again or in another collection.
TeammateStores(d, n) ==
  /\ d \notin Mine
  /\ Spend("adds", MaxAdds)
  /\ latest' = [latest EXCEPT ![d] = @ + 1]
  /\ rows' = [rows EXCEPT ![d] = [in |-> n, rev |-> latest'[d], at |-> clock + 1, echo |-> FALSE]]
  /\ clock' = clock + 1
  /\ UNCHANGED <<storeVars, followVars, deleteVars, pullPoint, at, excused, owed, astray, dropped, wiped>>

-----------------------------------------------------------------------------
(* createNewCollection, rejoinCollection, the `sync` tool.                 *)

svc == <<rows, clock>>

\* chromaCreateCollection, which refuses a name that exists.
Create(p, n) ==
  /\ n \notin here
  /\ Spend("calls", MaxCalls)
  /\ Begin(p, [Idle EXCEPT !.pc = "uncreate", !.op = "create", !.name = n], {n})
  /\ here' = here \cup {n}
  /\ UNCHANGED <<svc, copy, dirty, rejected, followVars, deleteVars, pullPoint>>

\* clearCollectionRedirect
ClearRedirect(p, pc, next) ==
  /\ At(p, pc)
  /\ redirect' = [redirect EXCEPT ![at[p].name] = Nowhere]
  /\ Wanted(p, at[p].name, [at[p] EXCEPT !.pc = next])
  /\ UNCHANGED <<svc, storeVars, subscribed, left, pending, deleteVars, pullPoint, used, history>>

\* rejoinCollection of a name left earlier: clearLeftCollection first.
Rejoin(p) ==
  /\ At(p, "rejoin")
  /\ LET n == at[p].name
     IN  /\ left' = left \ {n}
         /\ Wanted(p, n, IF n \in left THEN [at[p] EXCEPT !.pc = "resubscribe"] ELSE Idle)
  /\ UNCHANGED <<svc, storeVars, subscribed, redirect, pending, deleteVars, pullPoint, used, history>>

\* addSyncSubscriptions
Subscribes(p, pc, ns, next) ==
  /\ At(p, pc)
  /\ subscribed' = subscribed \cup ns
  /\ Work(p, next)
  /\ UNCHANGED <<svc, storeVars, left, redirect, pending, deleteVars, pullPoint, used, history>>

\* addPendingBackfill.  Its history is due unless it was removed again, or an
\* earlier backfill is under way, which will clear the mark.
MarkBackfill(p) ==
  /\ At(p, "backfill")
  /\ LET n == at[p].name
     IN  /\ pending' = pending \cup {n}
         /\ owed' = IF n \in here \ Unfollowed /\ \A q \in Proc : n \notin at[q].marked
                    THEN owed \cup {n} ELSE owed
  /\ Work(p, Idle)
  /\ UNCHANGED <<svc, storeVars, subscribed, left, redirect, deleteVars, pullPoint, used, latest,
                 excused, astray, dropped, wiped>>

\* clearPendingBackfill, once its history was pulled.
ClearBackfill(p, pc, ns, next) ==
  /\ At(p, pc)
  /\ pending' = pending \ ns
  /\ Work(p, next)
  /\ UNCHANGED <<svc, storeVars, subscribed, left, redirect, deleteVars, pullPoint, used, history>>

\* `sync subscribe` of a name the service has.
Subscribe(p, n) ==
  /\ \E d \in Doc : rows[d] # NoRow /\ rows[d].in = n
  /\ Spend("calls", MaxCalls)
  /\ Begin(p, [Idle EXCEPT !.pc = "unredirect", !.op = "subscribe", !.name = n,
                           !.whole = {n}], {n})
  /\ subscribed' = subscribed \cup {n}
  /\ UNCHANGED <<svc, storeVars, left, redirect, pending, deleteVars, pullPoint>>

\* clearLeftCollection
ClearLeft(p) ==
  /\ At(p, "unleave")
  /\ left' = left \ {at[p].name}
  /\ Wanted(p, at[p].name, [at[p] EXCEPT !.pc = "make"])
  /\ UNCHANGED <<svc, storeVars, subscribed, redirect, pending, deleteVars, pullPoint, used, history>>

\* getOrCreateCollection; the dsh plugin pulls no history.
Make(p) ==
  /\ At(p, "make")
  /\ here' = here \cup {at[p].name}
  /\ Then(p, IF p \in Plugin THEN "subCycle" ELSE "subFetch")
  /\ UNCHANGED <<svc, copy, dirty, rejected, followVars, deleteVars, pullPoint, used, history>>

\* `sync unsubscribe`: local data is kept.
Unsubscribe(p, n) ==
  /\ At(p, "idle")
  /\ n \in subscribed
  /\ Spend("calls", MaxCalls)
  /\ subscribed' = subscribed \ {n}
  /\ dropped' = dropped \cup {n}
  /\ UNCHANGED <<svc, storeVars, left, redirect, pending, deleteVars, pullPoint, at, latest, excused,
                 owed, astray, wiped>>

-----------------------------------------------------------------------------
(* removeCollection                                                        *)

\* The documents are read, and the call refused when it would lose one.
Remove(p, n, all, sure) ==
  /\ n \in here
  /\ Spend("calls", MaxCalls)
  /\ sure \/ ~all \/ In(n) = {}
  /\ sure \/ all \/ Copies(n, In(n)) \cap rejected = {}
  /\ Begin(p, [Idle EXCEPT !.pc = IF all THEN "queueAll"
                                  ELSE IF Pushable(n) = {} THEN "unfollow" ELSE "removePush",
                           !.op = IF all THEN "removeAll" ELSE "remove", !.sure = sure,
                           !.name = n, !.docs = copy[n], !.ids = Pushable(n)], {})
  /\ UNCHANGED <<svc, storeVars, followVars, deleteVars, pullPoint>>

OwnOf(ds) == ds \cap Mine

\* queueSyncDeletes of the user's documents, addLocalTombstones of the others.
QueueAll(p) ==
  /\ At(p, "queueAll")
  /\ LET ds == {d \in Doc : at[p].docs[d] > 0}
     IN  /\ queue' = queue \cup OwnOf(ds) /\ tombs' = tombs \cup (ds \ Mine)
         /\ excused' = excused \cup ds
  /\ Then(p, "unfollow")
  /\ UNCHANGED <<svc, storeVars, followVars, pullPoint, used, others>>

Unsent(n, ids) == [d \in Doc |-> IF d \in ids \cap Pushable(n) THEN copy[n][d] ELSE 0]

\* pushDocsNow: what is still pushable is sent.
RemovePush(p) ==
  /\ At(p, "removePush")
  /\ LET sent == Unsent(at[p].name, at[p].ids)
     IN  Upsert(at[p].name, sent) /\ Work(p, [at[p] EXCEPT !.pc = "removeSettle", !.sent = sent])
  /\ UNCHANGED <<storeVars, followVars, deleteVars, pullPoint, used, others>>

\* The request fails, or its answer does: nothing counts as pushed.
RemovePushFails(p) ==
  /\ At(p, "removePush")
  /\ Lost
  /\ \/ Upsert(at[p].name, Unsent(at[p].name, at[p].ids))
     \/ UNCHANGED <<svc, excused>>
  /\ IF at[p].sure THEN Then(p, "unfollow") ELSE Work(p, Idle)
  /\ UNCHANGED <<storeVars, followVars, deleteVars, pullPoint, others>>

\* writeIfUnchanged: what a push learned, of the copies it sent unchanged since.
Settled(n, sent) == {d \in Doc : sent[d] > 0 /\ <<n, d>> \in dirty /\ copy[n][d] = sent[d]}
Settle(n, sent) ==
  /\ dirty' = dirty \ Copies(n, Accepted(Settled(n, sent)))
  /\ rejected' = rejected \cup Copies(n, Settled(n, sent) \cap Refused)

\* Mutant: whatever the push left behind, the collection goes.
MissingNone(n, ids) == {}

\* Refused when a document that was to be pushed is not on the service.
Missing(n, ids) == {d \in ids : copy[n][d] = 0 \/ <<n, d>> \in dirty'}
RemoveSettle(p) ==
  /\ At(p, "removeSettle")
  /\ Settle(at[p].name, at[p].sent)
  /\ IF at[p].sure \/ Missing(at[p].name, at[p].ids) = {}
     THEN Work(p, [at[p] EXCEPT !.pc = "unfollow", !.sent = NoDocs,
                                !.docs = [d \in Doc |-> IF d \in at[p].ids THEN copy[at[p].name][d] ELSE @[d]]])
     ELSE Work(p, Idle)
  /\ UNCHANGED <<svc, here, copy, followVars, deleteVars, pullPoint, used, history>>

\* removeSyncSubscriptions
Unfollow(p) ==
  /\ At(p, "unfollow")
  /\ subscribed' = subscribed \ {at[p].name}
  /\ dropped' = dropped \cup {at[p].name}
  /\ Then(p, IF at[p].op = "remove" THEN "leave" ELSE "drop")
  /\ UNCHANGED <<svc, storeVars, left, redirect, pending, deleteVars, pullPoint, used, latest, excused,
                 owed, astray, wiped>>

\* addLeftCollection
Leave(p) ==
  /\ At(p, "leave")
  /\ left' = left \cup {at[p].name} /\ owed' = owed \ {at[p].name}
  /\ Then(p, "drop")
  /\ UNCHANGED <<svc, storeVars, subscribed, redirect, pending, deleteVars, pullPoint, used, latest,
                 excused, astray, dropped, wiped>>

\* chromaDeleteCollection
Drop(p) ==
  /\ At(p, "drop")
  /\ LET n == at[p].name
     IN  /\ here' = here \ {n}
         /\ copy' = [copy EXCEPT ![n] = NoDocs]
         /\ dirty' = dirty \ Copies(n, Doc) /\ rejected' = rejected \ Copies(n, Doc)
         /\ excused' = excused \cup {d \in In(n) : \/ at[p].sure \/ at[p].op = "merge"
                                                  \/ copy[n][d] # at[p].docs[d]}
         /\ owed' = owed \ {n}
  /\ IF at[p].op = "merge" THEN Then(p, "redirect") ELSE Work(p, Idle)
  /\ UNCHANGED <<svc, followVars, deleteVars, pullPoint, used, latest, astray, dropped, wiped>>

-----------------------------------------------------------------------------
(* mergeCollections                                                        *)

\* No document of `from` may be in `into` already.
Merge(p, from, into) ==
  /\ from # into /\ {from, into} \subseteq here
  /\ In(from) \cap In(into) = {}
  /\ Spend("calls", MaxCalls)
  /\ Begin(p, [Idle EXCEPT !.pc = IF In(from) = {} THEN "mergeRemove" ELSE "mergeCopy",
                           !.op = "merge", !.name = from, !.into = into, !.docs = copy[from],
                           !.sent = Unsent(from, Doc)], {into})
  /\ UNCHANGED <<svc, storeVars, followVars, deleteVars, pullPoint>>

Moved(p) == {d \in Doc : at[p].docs[d] > 0}

\* addDocumentsBatch, to be pushed again; `into` is counted before.
MergeCopy(p) ==
  /\ At(p, "mergeCopy")
  /\ LET n == at[p].into
     IN  /\ here' = here \cup {n}
         /\ copy' = [copy EXCEPT ![n] = [d \in Doc |-> IF d \in Moved(p) THEN at[p].docs[d] ELSE @[d]]]
         /\ dirty' = dirty \cup Copies(n, Moved(p))
         /\ rejected' = (rejected \ Copies(n, Moved(p)))
                          \cup Copies(n, {d \in Moved(p) : <<at[p].name, d>> \in rejected})
         /\ excused' = excused \cup {d \in Moved(p) : copy[n][d] > at[p].docs[d]}
         /\ Work(p, [at[p] EXCEPT !.pc = "mergeVerify", !.ids = In(n)])
  /\ UNCHANGED <<svc, followVars, deleteVars, pullPoint, used, others>>

\* All landed, and `into` grew by just them; else the source is left intact.
MergeVerify(p) ==
  /\ At(p, "mergeVerify")
  /\ LET n == at[p].into
         ok == Moved(p) \subseteq In(n) /\ Cardinality(In(n)) = Cardinality(at[p].ids) + Cardinality(Moved(p))
     IN  Work(p, IF ok THEN [at[p] EXCEPT !.pc = "mergeMove", !.ids = Moved(p)] ELSE Idle)
  /\ UNCHANGED <<svc, storeVars, followVars, deleteVars, pullPoint, used, history>>

\* Documents that merges have copied into n and not yet dropped where they were.
MovingInto(n) ==
  {d \in Doc : \E q \in Proc :
     /\ at[q].into = n /\ at[q].docs[d] > 0
     /\ \/ At(q, "mergeVerify")
        \/ At(q, "mergeMove") /\ d \in at[q].ids}

\* Under its lock, a source document changed since (edited, or settled by a
\* push) is copied again, and goes.
MergeMove(p, d) ==
  /\ At(p, "mergeMove") /\ d \in at[p].ids
  /\ LET f == at[p].name
         n == at[p].into
         again == copy[f][d] > 0 /\ (copy[f][d] # at[p].docs[d] \/ Unsent(f, {d})[d] # at[p].sent[d])
         to == IF again THEN copy[f][d] ELSE copy[n][d]
     IN  /\ copy' = [copy EXCEPT ![f][d] = 0, ![n][d] = to]
         /\ dirty' = (dirty \ {<<f, d>>}) \cup (IF again THEN {<<n, d>>} ELSE {})
         /\ rejected' = (rejected \ ({<<f, d>>} \cup (IF again THEN {<<n, d>>} ELSE {})))
                          \cup (IF again /\ <<f, d>> \in rejected THEN {<<n, d>>} ELSE {})
         /\ here' = IF again THEN here \cup {n} ELSE here
         /\ excused' = excused \cup {e \in {d} : copy[n][d] > to \/ d \in MovingInto(f)}
         /\ astray' = astray \cup {d}
         /\ Work(p, [at[p] EXCEPT !.ids = @ \ {d},
                                  !.pc = IF at[p].ids = {d} THEN "mergeCheck" ELSE @])
  /\ UNCHANGED <<svc, followVars, deleteVars, pullPoint, used, latest, owed, dropped, wiped>>

\* The source must be empty.
MergeCheck(p) ==
  /\ At(p, "mergeCheck")
  /\ IF In(at[p].name) = {} THEN Then(p, "mergeRemove") ELSE Work(p, Idle)
  /\ UNCHANGED <<svc, storeVars, followVars, deleteVars, pullPoint, used, history>>

\* removeCollection, forced and marking nothing left: what came in since is
\* pushed, whatever becomes of it.
MergeRemove(p) ==
  /\ At(p, "mergeRemove")
  /\ LET n == at[p].name
         push == Upsert(n, Unsent(n, Doc))
     IN  \/ push /\ UNCHANGED used
         \/ Pushable(n) # {} /\ Lost /\ (push \/ UNCHANGED <<svc, excused>>)
  /\ Then(p, "unfollow")
  /\ UNCHANGED <<storeVars, followVars, deleteVars, pullPoint, others>>

\* Mutant: a redirect away from the target is kept.
AddRedirectKeeping(from, into) == redirect' = [redirect EXCEPT ![from] = into]

\* addCollectionRedirect: `into` is live again.
AddRedirect(from, into) == redirect' = [redirect EXCEPT ![from] = into, ![into] = Nowhere]

MergeRedirect(p) ==
  /\ At(p, "redirect")
  /\ AddRedirect(at[p].name, at[p].into)
  /\ Wanted(p, at[p].into, Idle)
  /\ owed' = owed \ {at[p].name}
  /\ UNCHANGED <<svc, storeVars, subscribed, left, pending, deleteVars, pullPoint, used, latest,
                 excused, astray, dropped, wiped>>

-----------------------------------------------------------------------------
(* Writes.                                                                 *)

\* resolveWriteCollection, assertMayCreateCollection: where a write goes.
Write(p, n) ==
  /\ LET t == Resolve(n)
     IN  /\ t \notin left
         /\ p \in Rooted \/ t \in here
         /\ Begin(p, [Idle EXCEPT !.pc = "add", !.op = "write", !.name = t], {})
  /\ Spend("writes", MaxWrites)
  /\ UNCHANGED <<svc, storeVars, followVars, deleteVars, pullPoint>>

\* A new document, unsynced, in a collection made when it is missing.
Add(p, d) ==
  /\ At(p, "add")
  /\ d \in Mine /\ latest[d] = 0
  /\ here' = here \cup {at[p].name}
  /\ copy' = [copy EXCEPT ![at[p].name][d] = 1]
  /\ dirty' = dirty \cup {<<at[p].name, d>>}
  /\ latest' = [latest EXCEPT ![d] = 1]
  /\ Work(p, Idle)
  /\ UNCHANGED <<svc, rejected, followVars, deleteVars, pullPoint, used, excused, owed, astray,
                 dropped, wiped>>

\* An edit of a copy, under its lock; each document is edited once at most.
Edit(n, d) ==
  /\ d \in Mine /\ latest[d] = 1 /\ copy[n][d] = 1
  /\ Spend("writes", MaxWrites)
  /\ copy' = [copy EXCEPT ![n][d] = 2]
  /\ dirty' = dirty \cup {<<n, d>>} /\ rejected' = rejected \ {<<n, d>>}
  /\ latest' = [latest EXCEPT ![d] = 2]
  /\ UNCHANGED <<svc, here, followVars, deleteVars, pullPoint, at, excused, owed, astray, dropped,
                 wiped>>

-----------------------------------------------------------------------------
(* A sync cycle: pushAll, then pullFromRemote.                             *)

Pushing == {"deletes", "list", "send", "settle", "autoRead", "autoAdd"}
Pulling == {"pull", "recover", "recoverAdd", "choose", "each", "moveDrop", "fetch", "apply", "clear"}
Cycling == {q \in Proc : at[q].pc \in Pushing \cup Pulling}

\* The shared-cycle lock lets one cycle run.
StartCycle(p) ==
  /\ Cycling = {}
  /\ Spend("cycles", MaxCycles)
  /\ Begin(p, [Idle EXCEPT !.pc = "deletes", !.op = "cycle"], {})
  /\ UNCHANGED <<svc, storeVars, followVars, deleteVars, pullPoint>>

\* `sync subscribe` runs one too, or is done when another one is running.
SubscribeCycle(p) ==
  /\ At(p, "subCycle")
  /\ Work(p, IF Cycling = {} THEN Fresh(p, "deletes") ELSE Idle)
  /\ UNCHANGED <<svc, storeVars, followVars, deleteVars, pullPoint, used, history>>

\* A request that ends the push, or the pull.
Fails(p, pcs, next) ==
  /\ at[p].pc \in pcs
  /\ Lost
  /\ Work(p, next)
  /\ UNCHANGED <<svc, storeVars, followVars, deleteVars, pullPoint, history>>

\* The queued deletes are sent, then the entries handled leave the queue.
PushDeletes(p) ==
  /\ At(p, "deletes")
  /\ rows' = [d \in Doc |-> IF d \in queue THEN NoRow ELSE rows[d]]
  /\ \/ queue' = {} /\ Then(p, "list") /\ UNCHANGED used
     \/ queue # {} /\ Lost /\ UNCHANGED queue /\ \E pc \in {"list", "pull"} : Then(p, pc)
  /\ UNCHANGED <<clock, storeVars, followVars, tombs, pullPoint, history>>
PushDeletesFails(p) ==
  queue # {} /\ \E pc \in {"list", "pull"} : Fails(p, {"deletes"}, [at[p] EXCEPT !.pc = pc])

ListCollections(p) ==
  /\ At(p, "list")
  /\ Work(p, [at[p] EXCEPT !.pc = "send", !.todo = here])
  /\ UNCHANGED <<svc, storeVars, followVars, deleteVars, pullPoint, used, history>>

\* A failure ends the push (isCycleFatal), or its collection's part.
Skips(p, n) == {[at[p] EXCEPT !.pc = "autoRead"], [at[p] EXCEPT !.todo = @ \ {n}]}

\* Only a collection with something pushable makes a request.
Send(p, n) ==
  /\ At(p, "send") /\ n \in at[p].todo /\ Pushable(n) # {}
  /\ LET sent == Unsent(n, Doc)
     IN  /\ Upsert(n, sent)
         /\ \/ /\ Work(p, [at[p] EXCEPT !.pc = "settle", !.name = n, !.sent = sent, !.todo = @ \ {n}])
               /\ UNCHANGED used
            \/ Lost /\ \E u \in Skips(p, n) : Work(p, u)
  /\ UNCHANGED <<storeVars, followVars, deleteVars, pullPoint, others>>
SendFails(p) ==
  \E n \in at[p].todo : Pushable(n) # {} /\ \E u \in Skips(p, n) : Fails(p, {"send"}, u)

PushSettle(p) ==
  /\ At(p, "settle")
  /\ Settle(at[p].name, at[p].sent)
  /\ LET pushed == Accepted(Settled(at[p].name, at[p].sent))
     IN  Work(p, [at[p] EXCEPT !.pc = "send", !.sent = NoDocs, !.name = Nowhere,
                               !.all = IF pushed = {} THEN @ ELSE @ \cup {at[p].name}])
  /\ UNCHANGED <<svc, here, copy, followVars, deleteVars, pullPoint, used, history>>

SendDone(p) ==
  /\ At(p, "send") /\ \A n \in at[p].todo : Pushable(n) = {}
  /\ Then(p, "autoRead")
  /\ UNCHANGED <<svc, storeVars, followVars, deleteVars, pullPoint, used, history>>

\* Mutant: what was pushed is followed, left or not.
AutoSubscribesAll(p) == at[p].all

\* What was pushed is followed, a name merged away or left apart.
AutoSubscribes(p) == at[p].all \ Unfollowed

AutoSubscribe(p) ==
  /\ At(p, "autoRead")
  /\ LET ns == AutoSubscribes(p)
     IN  Work(p, IF ns = {} THEN Fresh(p, "pull") ELSE [Fresh(p, "autoAdd") EXCEPT !.all = ns])
  /\ UNCHANGED <<svc, storeVars, followVars, deleteVars, pullPoint, used, history>>

\* The pull point is 0: this store is new, or was wiped.
Recovering(p) == at[p].from = 0

StartPull(p) ==
  /\ At(p, "pull")
  /\ Work(p, [Fresh(p, IF pullPoint = 0 THEN "recover" ELSE "choose") EXCEPT
                                 !.start = clock, !.from = pullPoint])
  /\ UNCHANGED <<svc, storeVars, followVars, deleteVars, pullPoint, used, history>>

\* collectionsForUser: where this user's rows are.
OfUser == {n \in Name : \E d \in Mine : rows[d] # NoRow /\ rows[d].in = n}
Recover(p) ==
  /\ At(p, "recover")
  /\ Work(p, [at[p] EXCEPT !.pc = "recoverAdd", !.all = OfUser \ Unfollowed])
  /\ UNCHANGED <<svc, storeVars, followVars, deleteVars, pullPoint, used, history>>

\* An error that does not end the cycle: the pull goes on without the answer,
\* and the pull point will move on too.
RecoverFails(p) ==
  /\ At(p, "recover") /\ Lost
  /\ Then(p, "choose")
  /\ dropped' = dropped \cup (OfUser \ subscribed)
  /\ UNCHANGED <<svc, storeVars, followVars, deleteVars, pullPoint, latest, excused, owed, astray,
                 wiped>>

\* Mutant: a marked backfill is not one.
BackfillsSubscribed(p) == subscribed \ here

\* Collections pulled from the start of their history: those whose backfill
\* is due, and subscribed ones not here.
Backfills(p) == pending \cup (subscribed \ here)

Choose(p) ==
  /\ At(p, "choose")
  /\ LET whole == Backfills(p) \ Unfollowed
         new == (subscribed \ Unfollowed) \ here
         todo == (here \ Unfollowed) \cup new \cup (whole \cap subscribed)
     IN  /\ here' = here \cup new \cup (whole \cap subscribed)
         /\ Work(p, [at[p] EXCEPT !.pc = "each", !.todo = todo, !.all = todo, !.whole = whole,
                                  !.marked = pending \ Unfollowed])
  /\ UNCHANGED <<svc, copy, dirty, rejected, followVars, deleteVars, pullPoint, used, history>>

\* dropMovedOut: clean copies whose row is in a collection not followed here.
MovedOut(p, n) ==
  {d \in In(n) \ Dirty(n) : rows[d] # NoRow /\ rows[d].in # n /\ rows[d].in \notin at[p].all}

\* When the check fails, the pull goes on.
EachCollection(p, n) ==
  /\ At(p, "each") /\ n \in at[p].todo
  /\ \E ids \in {MovedOut(p, n), {}} :
       /\ IF ids = MovedOut(p, n) THEN UNCHANGED used ELSE Lost
       /\ Work(p, [at[p] EXCEPT !.pc = IF ids = {} THEN "fetch" ELSE "moveDrop", !.ids = ids,
                                !.name = n, !.todo = @ \ {n}])
  /\ UNCHANGED <<svc, storeVars, followVars, deleteVars, pullPoint, history>>

\* Deleted as they were found, edited since or not.
MoveDrop(p) ==
  /\ At(p, "moveDrop")
  /\ LET n == at[p].name
     IN  /\ copy' = [copy EXCEPT ![n] = [d \in Doc |-> IF d \in at[p].ids THEN 0 ELSE @[d]]]
         /\ dirty' = dirty \ Copies(n, at[p].ids) /\ rejected' = rejected \ Copies(n, at[p].ids)
         /\ excused' = excused \cup (at[p].ids \cap Dirty(n))
  /\ Work(p, [at[p] EXCEPT !.pc = "fetch", !.ids = {}])
  /\ UNCHANGED <<svc, here, followVars, deleteVars, pullPoint, used, others>>

Since(p) == IF at[p].name \in at[p].whole THEN 0 ELSE at[p].from

\* includeOwnDevice
Own(p) == Recovering(p)

Fetch(p, pc, next, own) ==
  /\ At(p, pc)
  /\ Work(p, [at[p] EXCEPT !.pc = next, !.sent = Feed(at[p].name, Since(p), own)])
  /\ UNCHANGED <<svc, storeVars, followVars, deleteVars, pullPoint, used, history>>

\* As in RecoverFails, for one collection.
FetchFails(p) ==
  /\ At(p, "fetch") /\ Lost
  /\ Then(p, "each")
  /\ astray' = astray \cup {d \in Doc : Feed(at[p].name, Since(p), Own(p))[d] > 0}
  /\ dropped' = IF Recovering(p) THEN dropped \cup {at[p].name} ELSE dropped
  /\ UNCHANGED <<svc, storeVars, followVars, deleteVars, pullPoint, latest, excused, owed, wiped>>

\* applyRemoteDoc: a newer row replaces a clean copy; a row not here is added,
\* its clean copies elsewhere going, unless one of those has unpushed edits.
Taken(n, sent) ==
  {d \in Doc \ tombs :
     /\ sent[d] > 0
     /\ IF copy[n][d] > 0 THEN <<n, d>> \notin dirty /\ sent[d] > copy[n][d]
        ELSE \A m \in Name : <<m, d>> \notin dirty}

\* Those an unpushed copy elsewhere keeps out, and those taken that have moved on.
PassedOver(n, sent) == {d \in Doc \ tombs : sent[d] > 0 /\ copy[n][d] = 0} \ Taken(n, sent)
MovedOn(n, sent) == {d \in Taken(n, sent) : rows[d] # NoRow /\ rows[d].in # n}

ApplyPage(p, pc, next) ==
  /\ At(p, pc)
  /\ LET n == at[p].name
         sent == at[p].sent
     IN  /\ here' = IF sent = NoDocs THEN here ELSE here \cup {n}
         /\ copy' = [m \in Name |-> [d \in Doc |->
                       IF d \notin Taken(n, sent) THEN copy[m][d]
                       ELSE IF m = n THEN sent[d]
                       ELSE IF copy[n][d] = 0 THEN 0 ELSE copy[m][d]]]
         /\ astray' = astray \cup PassedOver(n, sent) \cup MovedOn(n, sent)
  /\ Work(p, [next EXCEPT !.sent = NoDocs])
  /\ UNCHANGED <<svc, dirty, rejected, followVars, deleteVars, pullPoint, latest, excused, owed,
                 dropped, wiped>>

Apply(p, pc, next) == ApplyPage(p, pc, next) /\ UNCHANGED used

\* Its backfill is done.
Applied(p) ==
  Apply(p, "apply", [at[p] EXCEPT !.pc = IF at[p].name \in at[p].marked THEN "clear" ELSE "each"])
PullClear(p) == ClearBackfill(p, "clear", {at[p].name}, [at[p] EXCEPT !.pc = "each", !.marked = @ \ {at[p].name}])

EndPull(p) ==
  /\ At(p, "each") /\ at[p].todo = {}
  /\ pullPoint' = at[p].start
  /\ Work(p, Idle)
  /\ UNCHANGED <<svc, storeVars, followVars, deleteVars, used, history>>

Push(p) ==
  \/ PushDeletes(p) \/ PushDeletesFails(p) \/ ListCollections(p)
  \/ \E n \in Name : Send(p, n)
  \/ SendFails(p) \/ PushSettle(p) \/ SendDone(p) \/ AutoSubscribe(p)
  \/ Subscribes(p, "autoAdd", at[p].all, Fresh(p, "pull"))

Pull(p) ==
  \/ StartPull(p) \/ Recover(p) \/ RecoverFails(p) \/ Fails(p, {"recover", "fetch"}, Idle)
  \/ Subscribes(p, "recoverAdd", at[p].all, [at[p] EXCEPT !.pc = "choose", !.all = {}])
  \/ Choose(p) \/ \E n \in Name : EachCollection(p, n)
  \/ MoveDrop(p) \/ Fetch(p, "fetch", "apply", Own(p)) \/ FetchFails(p) \/ Applied(p)
  \/ PullClear(p) \/ EndPull(p)

-----------------------------------------------------------------------------
(* The prompt hook: freshenFromRemote.                                     *)

\* A first visit, and a visit while its backfill is due, pull everything.
Visit(p, n) ==
  /\ n \notin Unfollowed
  /\ Spend("visits", MaxVisits)
  /\ LET followed == n \in subscribed /\ n \notin pending
     IN  Begin(p, [Idle EXCEPT !.pc = "visitFetch", !.op = "visit", !.name = n, !.from = pullPoint,
                               !.whole = IF followed THEN {} ELSE {n},
                               !.marked = pending \cap {n}], {})
  /\ UNCHANGED <<svc, storeVars, followVars, deleteVars, pullPoint>>

\* Cut off by its timeout, the pull applied or not.
VisitTimesOut(p) ==
  \/ Fails(p, {"visitFetch", "visitApply"}, Idle)
  \/ Lost /\ ApplyPage(p, "visitApply", Idle)

Visiting(p) ==
  \/ \E n \in Name : Visit(p, n)
  \/ Fetch(p, "visitFetch", "visitApply", FALSE)
  \/ Apply(p, "visitApply", [at[p] EXCEPT !.pc = IF at[p].marked = {} THEN "visitFollow" ELSE "visitDone"])
  \/ VisitTimesOut(p)
  \/ ClearBackfill(p, "visitDone", at[p].marked, [at[p] EXCEPT !.pc = "visitFollow", !.marked = {}])
  \/ Subscribes(p, "visitFollow", at[p].whole, Idle)

-----------------------------------------------------------------------------
\* The history a `sync subscribe` pulls, or fails to.
SubscribePull(p) ==
  \/ Fetch(p, "subFetch", "subApply", FALSE)
  \/ Fails(p, {"subFetch"}, [at[p] EXCEPT !.pc = "subCycle"])
  \/ Apply(p, "subApply", [at[p] EXCEPT !.pc = "subCycle"])

Creating(p) ==
  \/ \E n \in Name : Create(p, n)
  \/ ClearRedirect(p, "uncreate", "rejoin") \/ Rejoin(p)
  \/ Subscribes(p, "resubscribe", {at[p].name}, [at[p] EXCEPT !.pc = "backfill"])
  \/ MarkBackfill(p)

Subscribing(p) ==
  \/ \E n \in Name : Subscribe(p, n) \/ Unsubscribe(p, n)
  \/ ClearRedirect(p, "unredirect", "unleave") \/ ClearLeft(p) \/ Make(p)
  \/ SubscribePull(p) \/ SubscribeCycle(p)

Removing(p) ==
  \/ \E n \in Name, all, sure \in BOOLEAN : Remove(p, n, all, sure)
  \/ QueueAll(p) \/ RemovePush(p) \/ RemovePushFails(p) \/ RemoveSettle(p)
  \/ Unfollow(p) \/ Leave(p) \/ Drop(p)

Merging(p) ==
  \/ \E from, into \in Name : Merge(p, from, into)
  \/ MergeCopy(p) \/ MergeVerify(p) \/ MergeCheck(p) \/ MergeRemove(p) \/ MergeRedirect(p)
  \/ \E d \in Doc : MergeMove(p, d)

Writing(p) == (\E n \in Name : Write(p, n)) \/ \E d \in Doc : Add(p, d)

\* A process dies: its work is gone.
Crash(p) ==
  /\ ~At(p, "idle")
  /\ Spend("faults", MaxFaults)
  /\ Work(p, Idle)
  /\ UNCHANGED <<svc, storeVars, followVars, deleteVars, pullPoint, history>>

Next ==
  \/ \E p \in Session : Creating(p) \/ Subscribing(p) \/ Removing(p) \/ Merging(p) \/ Writing(p)
  \/ \E p \in Cycle : StartCycle(p)
  \/ \E p \in Cycle \cup Session : Push(p) \/ Pull(p)
  \/ \E p \in Hook : Visiting(p)
  \/ \E p \in Proc : Crash(p)
  \/ \E n \in Name, d \in Doc : Edit(n, d) \/ TeammateStores(d, n)

Spec == Init /\ [][Next]_vars

-----------------------------------------------------------------------------
\* Removing a collection here, merging it, moving documents out and syncing
\* around all that loses no document: its newest revision is on the service or
\* in the store.  Excused: what the user confirmed deleting, and the cases
\* the code does lose (README, Following).
NothingLost ==
  \A d \in Doc \ excused :
    \/ latest[d] = 0
    \/ rows[d] # NoRow /\ rows[d].rev = latest[d]
    \/ \E n \in Name : copy[n][d] = latest[d]

\* A write naming a collection merged away lands in one that was not:
\* redirects never go round in a circle.
RedirectsEnd == \A n \in Name : redirect[Resolve(n)] = Nowhere

\* The state is well formed, and every redirect ends.
Consistent == TypeOK /\ RedirectsEnd

\* A collection followed again after it was left has its teammates' documents,
\* the ones older than the pull point too, once its backfill is done.
RejoinedHasHistory ==
  \A n \in owed \ pending, d \in Doc \ (tombs \cup astray) :
    rows[d] # NoRow /\ rows[d].in = n /\ ~rows[d].echo /\ rows[d].at <= pullPoint
      => copy[n][d] > 0

\* A wiped store, once it has pulled, has this user's documents again, those
\* this very device wrote too.
Recovered ==
  wiped /\ pullPoint > 0
    => \A d \in Mine \ excused :
         rows[d] # NoRow /\ rows[d].at = 1 /\ rows[d].in \notin dropped \cup Unfollowed
           => \E m \in Name : copy[m][d] > 0

\* History that was left or wiped comes back.
HistoryBack == RejoinedHasHistory /\ Recovered

\* A name left or merged away before a process started its work is not made
\* or followed by it, unless a user asked for it again.
StaysAway ==
  [][\A p \in Proc :
       LET away == IF At(p, "idle") THEN at'[p].away ELSE at[p].away
       IN  at'[p] # at[p] => away \cap ((here' \ here) \cup (subscribed' \ subscribed)) = {}]_vars
=============================================================================
