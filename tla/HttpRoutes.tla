----------------------------- MODULE HttpRoutes -----------------------------
(***************************************************************************)
(* Sync API v1, from both ends: the routes of packages/service/src/app.ts  *)
(* and the requests core/src/sync/http-backend.ts makes of them.           *)
(*                                                                         *)
(* Of a route is kept what decides whether it runs: GET or not, the rate   *)
(* class it takes from, whether it also takes the `docs` class, whether it *)
(* looks up an Idempotency-Key, and what it does to the store.  Parameter  *)
(* checks no request of this client fails are left out.                    *)
(***************************************************************************)

Deed == {"none", "page", "store", "remove", "restore", "purge", "link", "count"}

Route(class, does) ==
  [get |-> FALSE, class |-> class, docs |-> FALSE, keyed |-> FALSE, does |-> does]
Get(does) == [Route("read", does) EXCEPT !.get = TRUE]
Keyed(route) == [route EXCEPT !.keyed = TRUE]
OfDocs(does) == [Keyed(Route("write", does)) EXCEPT !.docs = TRUE]

GetHealth == Get("none")
GetMe == Get("none")
GetMyCollections == Get("none")
GetMaxTaskNumber == Get("none")
GetCollections == Get("none")
GetDocuments == Get("page")
BatchUpsert == OfDocs("store")
BatchDelete == OfDocs("remove")
GetDeleted == Get("none")
PostRestore == OfDocs("restore")
PostPurge == OfDocs("purge")
PostCollections == Route("read", "none")
PostOwners == Route("read", "none")
GetCreatedAt == Get("none")
PostRelatedIds == Route("write", "link")
\* A lease is not followed here: ServiceCoordination has it.
LeasesAcquire == Route("write", "none")
LeasesHeartbeat == Route("write", "none")
LeasesRelease == Route("write", "none")
GetLeases == Get("none")
CountersNext == Keyed(Route("write", "count"))
TaskIdsNext == Keyed(Route("write", "count"))
PostSimilar == Route("similar", "none")

-----------------------------------------------------------------------------
\* A client operation: `once` is one request; `chunks` one for each batch;
\* `pages` one for each page of a pull; `me` answers from its cache when it
\* can, `sign in` asks again.  `idempotent` sends a key with each request;
\* `allow404` makes an answer of a 404.
Ask(how, route) ==
  [how |-> how, route |-> route, idempotent |-> FALSE, allow404 |-> FALSE]
Idempotent(op) == [op EXCEPT !.idempotent = TRUE]

me == Ask("me", GetMe)
dataRules == me
pull == Ask("pages", GetDocuments)
upsertMany == Idempotent(Ask("chunks", BatchUpsert))
delete == Idempotent(Ask("chunks", BatchDelete))
listDeleted == Ask("once", GetDeleted)
restore == Idempotent(Ask("chunks", PostRestore))
purge == Idempotent(Ask("chunks", PostPurge))
collections == Ask("once", GetCollections)
collectionsForUser == Ask("once", GetMyCollections)
collectionsByIds == Ask("chunks", PostCollections)
ownersByIds == Ask("chunks", PostOwners)
createdAt == [Ask("once", GetCreatedAt) EXCEPT !.allow404 = TRUE]
maxTaskNumber == Ask("once", GetMaxTaskNumber)
leaseAcquire == Ask("once", LeasesAcquire)
leaseHeartbeat == Ask("once", LeasesHeartbeat)
leaseRelease == Ask("once", LeasesRelease)
leaseList == Ask("once", GetLeases)
counterNext == Idempotent(Ask("once", CountersNext))
nextTaskId == Idempotent(Ask("once", TaskIdsNext))
similar == Ask("once", PostSimilar)
addRelatedIds == Ask("chunks", PostRelatedIds)
health == Ask("once", GetHealth)
prepare == Ask("sign in", GetMe)
describe == Ask("sign in", GetMe)

Operation ==
  {me, dataRules, pull, upsertMany, delete, listDeleted, restore, purge,
   collections, collectionsForUser, collectionsByIds, ownersByIds, createdAt,
   maxTaskNumber, leaseAcquire, leaseHeartbeat, leaseRelease, leaseList,
   counterNext, nextTaskId, similar, addRelatedIds, health, prepare, describe}
=============================================================================
