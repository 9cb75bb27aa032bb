--------------------------- MODULE DocSyncProofs ---------------------------
(***************************************************************************)
(* Proofs about DocSync, for any machines, users, pushes and pulls and any *)
(* bounds: its types, that nothing unsent counts as synced, that unpushed  *)
(* work is kept, and that a purge reaches every copy.                      *)
(***************************************************************************)
EXTENDS DocSync, SequenceTheorems, TLAPS

\* The operations of the service keep its types.
LEMMA UpsertType ==
  ASSUME ServiceTypeOK, NEW m \in Machine, NEW c \in Copy, NEW now \in Nat,
         Upsert(m, c, now)
  PROVE  ServiceTypeOK'
<1>1. UserOf[m] \in User /\ c.rev \in Nat /\ c.upd \in Nat
  BY ServiceDocumentAssumption DEF Copy
<1>2. row # NoRow => row \in Row /\ row.owner \in User
  BY DEF ServiceTypeOK, Row
<1>3. Upserted(m, c, now) \in Row
  BY <1>1, <1>2 DEF Upserted, Row
<1>4. QED
  BY <1>3 DEF ServiceTypeOK, Upsert

LEMMA DeleteType ==
  ASSUME ServiceTypeOK, NEW u \in User, NEW now \in Nat, Delete(u, now)
  PROVE  ServiceTypeOK'
<1>1. CASE row # NoRow /\ row.owner = u
  <2>1. row \in Row
    BY <1>1 DEF ServiceTypeOK
  <2>2. <<row>> \o trash[u] \in Seq(Row)
    BY <2>1, ConcatProperties DEF ServiceTypeOK
  <2>3. QED
    BY <1>1, <2>1, <2>2 DEF ServiceTypeOK, Delete
<1>2. CASE ~(row # NoRow /\ row.owner = u)
  BY <1>2 DEF ServiceTypeOK, Delete, serviceVars
<1>3. QED
  BY <1>1, <1>2

LEMMA PurgeType ==
  ASSUME ServiceTypeOK, NEW u \in User, NEW now \in Nat, Purge(u, now)
  PROVE  ServiceTypeOK'
<1>1. <<>> \in Seq(Row)
  OBVIOUS
<1>2. trash' \in [User -> Seq(Row)]
  BY <1>1 DEF ServiceTypeOK, Purge
<1>3. row' \in Row \cup {NoRow} /\ deletedAt' \in Nat /\ purgedAt' \in Nat /\ closedAt' \in Nat
  BY SMT DEF ServiceTypeOK, Purge, IsPurged
<1>4. QED
  BY <1>2, <1>3 DEF ServiceTypeOK

LEMMA RestoreType ==
  ASSUME ServiceTypeOK, NEW u \in User, NEW now \in Nat, Restore(u, now)
  PROVE  ServiceTypeOK'
<1>1. trash[u] \in Seq(Row) /\ trash[u] # <<>>
  BY DEF ServiceTypeOK, Restore
<1>2. Head(trash[u]) \in Row /\ Tail(trash[u]) \in Seq(Row)
  BY <1>1, HeadTailProperties
<1>3. row' \in Row
  BY <1>2 DEF Restore, Row
<1>4. trash' \in [User -> Seq(Row)]
  BY <1>2 DEF ServiceTypeOK, Restore
<1>5. QED
  BY <1>3, <1>4 DEF ServiceTypeOK, Restore

LEMMA MoveAwayType ==
  ASSUME ServiceTypeOK, NEW now \in Nat, MoveAway(now)
  PROVE  ServiceTypeOK'
  BY DEF ServiceTypeOK, MoveAway, Row

-----------------------------------------------------------------------------
\* A full pull, the only one with a move check and a call of its own, began after
\* the first OVERLAP seconds, so its pull point is one.
Timing ==
  /\ OVERLAP <= clock
  /\ \A q \in Puller : pull[q].whole => OVERLAP <= pull[q].start
  /\ \A q \in Puller : pull[q].pc \in {"lookup", "drop", "fetch"} => pull[q].whole

TypeInv == TypeOK /\ Timing

\* What a push reads of the store it may hold.
LEMMA PushReads ==
  ASSUME StoreTypeOK, NEW m \in Machine
  PROVE  /\ ReadPurges(m) \in [pc : PushPC, doc : Copy \cup {NoCopy}, ok : BOOLEAN, at : Nat]
         /\ ReadDeletes(m) \in [pc : PushPC, doc : Copy \cup {NoCopy}, ok : BOOLEAN, at : Nat]
         /\ ReadDocs(m) \in [pc : PushPC, doc : Copy \cup {NoCopy}, ok : BOOLEAN, at : Nat]
         /\ ReadPurges(m).pc = "upsert" => ReadPurges(m).doc # NoCopy
         /\ ReadDeletes(m).pc = "upsert" => ReadDeletes(m).doc # NoCopy
         /\ ReadDocs(m).pc = "upsert" => ReadDocs(m).doc # NoCopy
         /\ "settle" \notin {ReadPurges(m).pc, ReadDeletes(m).pc, ReadDocs(m).pc}
<1>1. /\ ReadDocs(m) \in [pc : PushPC, doc : Copy \cup {NoCopy}, ok : BOOLEAN, at : Nat]
      /\ ReadDocs(m).pc = "upsert" => ReadDocs(m).doc # NoCopy
      /\ ReadDocs(m).pc # "settle"
  BY DEF StoreTypeOK, ReadDocs, IdlePush, PushPC, Pushable, Unpushed, Has
<1>2. /\ ReadDeletes(m) \in [pc : PushPC, doc : Copy \cup {NoCopy}, ok : BOOLEAN, at : Nat]
      /\ ReadDeletes(m).pc = "upsert" => ReadDeletes(m).doc # NoCopy
      /\ ReadDeletes(m).pc # "settle"
  BY <1>1 DEF ReadDeletes, At, IdlePush, PushPC
<1>3. /\ ReadPurges(m) \in [pc : PushPC, doc : Copy \cup {NoCopy}, ok : BOOLEAN, at : Nat]
      /\ ReadPurges(m).pc = "upsert" => ReadPurges(m).doc # NoCopy
      /\ ReadPurges(m).pc # "settle"
  BY <1>2 DEF ReadPurges, At, IdlePush, PushPC
<1>4. QED
  BY <1>1, <1>2, <1>3

\* A push that moves on to a well-typed record keeps the pushes well typed.
LEMMA PushMoves ==
  ASSUME PushTypeOK, NEW p \in Pusher,
         NEW r \in [pc : PushPC, doc : Copy \cup {NoCopy}, ok : BOOLEAN, at : Nat],
         r.pc \in {"upsert", "settle"} => r.doc # NoCopy,
         push' = [push EXCEPT ![p] = r]
  PROVE  PushTypeOK'
<1>1. push' \in [Pusher -> [pc : PushPC, doc : Copy \cup {NoCopy}, ok : BOOLEAN, at : Nat]]
  BY DEF PushTypeOK
<1>2. \A x \in Pusher : push'[x].pc \in {"upsert", "settle"} => push'[x].doc # NoCopy
  BY DEF PushTypeOK
<1>3. QED
  BY <1>1, <1>2 DEF PushTypeOK

Pull == [pc : PullPC, start : Nat, from : Nat, whole : BOOLEAN, row : Row \cup {NoRow},
         tomb : BOOLEAN, del : {"none", "delete", "purge"}]

LEMMA PullMoves ==
  ASSUME PullTypeOK, Timing, NEW q \in Puller, NEW r \in Pull,
         r.whole => OVERLAP <= r.start, r.pc \in {"lookup", "drop", "fetch"} => r.whole,
         pull' = [pull EXCEPT ![q] = r], UNCHANGED clock
  PROVE  PullTypeOK' /\ Timing'
<1>1. pull' \in [Puller -> Pull]
  BY DEF PullTypeOK, Pull
<1>2. \A x \in Puller : /\ pull'[x].whole => OVERLAP <= pull'[x].start
                        /\ pull'[x].pc \in {"lookup", "drop", "fetch"} => pull'[x].whole
  BY DEF PullTypeOK, Timing
<1>3. QED
  BY <1>1, <1>2 DEF PullTypeOK, Pull, Timing

LEMMA PageType ==
  ASSUME ServiceTypeOK, StoreTypeOK, NEW m \in Machine, NEW from \in Nat,
         NEW ownToo \in BOOLEAN, NEW r \in Pull
  PROVE  /\ WithPage(r, Page(m, from, ownToo)) \in Pull
         /\ WithPage(r, Page(m, from, ownToo)).whole = r.whole
         /\ WithPage(r, Page(m, from, ownToo)).start = r.start
<1>1. /\ Page(m, from, ownToo).row \in Row \cup {NoRow}
      /\ Page(m, from, ownToo).tomb \in BOOLEAN
      /\ Page(m, from, ownToo).del \in {"none", "delete", "purge"}
  BY DEF Page, ServiceTypeOK, StoreTypeOK
<1>2. QED
  BY <1>1 DEF WithPage, Pull, PullPC

LEMMA AppliedType ==
  ASSUME StoreTypeOK, NEW m \in Machine
  PROVE  /\ \A r \in Row : Pulled(r) \in Copy
         /\ \A kind : AfterDeletion(m, kind) \in Copy \cup {NoCopy}
<1>1. local[m] \in Copy \cup {NoCopy}
  BY DEF StoreTypeOK
<1>2. \A r \in Row : Pulled(r) \in Copy
  BY DEF Pulled, Copy, Row
<1>3. \A kind : AfterDeletion(m, kind) \in Copy \cup {NoCopy}
  BY <1>1 DEF AfterDeletion, Has, Copy
<1>4. QED
  BY <1>2, <1>3

\* What an edit, a forget or an applied page makes of the store.
LEMMA StoreMoves ==
  ASSUME StoreTypeOK, NEW m \in Machine, NEW c \in Copy \cup {NoCopy}, SetLocal(m, c),
         asked' \in [Machine -> Ask], since' \in [Machine -> Nat],
         UNCHANGED <<queue, purges, tombstone>>
  PROVE  StoreTypeOK'
  BY DEF StoreTypeOK, SetLocal

\* No pull writes to the service or to the machine's lists.
LEMMA PullFrame ==
  ASSUME NEW q \in Puller, PullStep(q) \/ FailPull(q)
  PROVE  UNCHANGED <<serviceVars, row, trash, deletedAt, purgedAt, closedAt, clock,
                     asked, queue, purges, tombstone, push, shared>>
BY DEF PullStep, BeginPull, LookUp, DropMoved, Fetch, HookFetch, Apply, FailPull, FailMoveCheck,
       FailFetch, FailApply, ApplyOnly, LosePull, serviceVars, storeVars

\* One that applies no page leaves the copy or drops it.
LEMMA PullDrops ==
  ASSUME StoreTypeOK, NEW q \in Puller, PullStep(q) \/ FailPull(q), ~Apply(q), ~ApplyOnly(q)
  PROVE  \A m \in Machine : local'[m] = local[m] \/ (local'[m] = NoCopy /\ DropMoved(q) /\ m = On[q])
<1>1. CASE DropMoved(q)
  BY <1>1 DEF DropMoved, SetLocal, StoreTypeOK
<1>2. CASE ~DropMoved(q)
  <2>1. UNCHANGED local
    BY <1>2 DEF PullStep, BeginPull, LookUp, Fetch, HookFetch, FailPull, FailMoveCheck,
                FailFetch, FailApply, LosePull
  <2>2. QED
    BY <2>1
<1>3. QED
  BY <1>1, <1>2

\* The pull point moves at the end of a full pull, past what it left unapplied.
LEMMA PullPointMoves ==
  ASSUME NEW q \in Puller, PullStep(q) \/ FailPull(q)
  PROVE  \/ Apply(q) \/ FailFetch(q) \/ FailApply(q)
         \/ UNCHANGED <<since, missed>>
BY DEF PullStep, BeginPull, LookUp, DropMoved, Fetch, HookFetch, FailPull, FailMoveCheck,
       ApplyOnly, LosePull

-----------------------------------------------------------------------------
LEMMA TypeInit == Init => TypeInv
<1> SUFFICES ASSUME Init PROVE TypeInv
  OBVIOUS
<1>1. ServiceTypeOK
  <2>1. <<>> \in Seq(Row)
    OBVIOUS
  <2>2. QED
    BY <2>1 DEF Init, ServiceInit, ServiceTypeOK
<1>2. StoreTypeOK
  BY ServiceDocumentAssumption, DocSyncAssumption
  DEF Init, StoreTypeOK, Fresh, Copy, Ask
<1>3. PushTypeOK
  BY DEF Init, PushTypeOK, IdlePush, PushPC
<1>4. PullTypeOK /\ Timing
  BY DocSyncAssumption DEF Init, PullTypeOK, Timing, IdlePull, PullPC
<1>5. QED
  BY <1>1, <1>2, <1>3, <1>4, DocSyncAssumption DEF Init, TypeInv, TypeOK

\* The steps of a user keep the types.
LEMMA UserType ==
  ASSUME TypeInv, NEW m \in Machine, UserStep(m)
  PROVE  TypeInv'
<1> USE DEF TypeInv, TypeOK, Spend
<1>0. local[m] \in Copy \cup {NoCopy} /\ UserOf[m] \in User
  BY ServiceDocumentAssumption DEF StoreTypeOK
<1>1. CASE Edit(m)
  <2>1. [local[m] EXCEPT !.rev = used.rev + 1, !.upd = clock, !.dirty = TRUE,
                         !.refused = FALSE] \in Copy
    <3>1. local[m] \in Copy /\ used.rev + 1 \in Nat /\ clock \in Nat
      BY <1>0, <1>1 DEF Edit, Has
    <3>2. \A n \in Nat : \A t \in Nat :
            [local[m] EXCEPT !.rev = n, !.upd = t, !.dirty = TRUE, !.refused = FALSE] \in Copy
      BY <3>1, Zenon DEF Copy
    <3>3. QED
      BY <3>1, <3>2, Zenon
  <2>2. StoreTypeOK'
    BY <1>1, <2>1, StoreMoves DEF Edit, storeVars, StoreTypeOK
  <2>3. QED
    BY <1>1, <2>2 DEF Edit, serviceVars, ServiceTypeOK, PushTypeOK, PullTypeOK, Timing
<1>2. CASE Forget(m)
  <2>1. StoreTypeOK'
    BY <1>2, StoreMoves DEF Forget, StoreTypeOK, Ask
  <2>2. QED
    BY <1>2, <2>1 DEF Forget, serviceVars, ServiceTypeOK, PushTypeOK, PullTypeOK, Timing
<1>3. CASE AskPurge(m)
  <2>1. StoreTypeOK'
    BY <1>3, StoreMoves DEF AskPurge, StoreTypeOK, Ask
  <2>2. QED
    BY <1>3, <2>1 DEF AskPurge, serviceVars, ServiceTypeOK, PushTypeOK, PullTypeOK, Timing
<1>4. CASE Note(m)
  <2>1. StoreTypeOK'
    BY <1>4 DEF Note, StoreTypeOK, Ask
  <2>2. QED
    BY <1>4, <2>1 DEF Note, serviceVars, ServiceTypeOK, PushTypeOK, PullTypeOK, Timing
<1>5. CASE AskRestore(m)
  <2>1. ServiceTypeOK'
    BY <1>0, <1>5, RestoreType DEF AskRestore
  <2>2. QED
    BY <1>5, <2>1 DEF AskRestore, storeVars, StoreTypeOK, PushTypeOK, PullTypeOK, Timing
<1>6. QED
  BY <1>1, <1>2, <1>3, <1>4, <1>5 DEF UserStep

\* The steps of a push keep the types.
LEMMA PushType ==
  ASSUME TypeInv, NEW p \in Pusher, PushStep(p) \/ FailPush(p) \/ LosePush(p)
  PROVE  TypeInv'
<1> USE DEF TypeInv, TypeOK
<1> DEFINE Push == [pc : PushPC, doc : Copy \cup {NoCopy}, ok : BOOLEAN, at : Nat]
<1>0. /\ On[p] \in Machine /\ UserOf[On[p]] \in User
      /\ push[p] \in Push
      /\ push[p].pc \in {"upsert", "settle"} => push[p].doc \in Copy
  BY ServiceDocumentAssumption, DocSyncAssumption DEF PushTypeOK
<1>a. /\ \A pc \in {"clearPurge", "clearDelete"} :
           At(pc) \in Push /\ At(pc).pc \notin {"upsert", "settle"}
      /\ IdlePush \in Push /\ IdlePush.pc \notin {"upsert", "settle"}
  BY DEF At, IdlePush, PushPC
<1>1. CASE BeginPush(p)
  <2>1. PushTypeOK'
    BY <1>0, <1>1, PushReads, PushMoves DEF BeginPush, PushTo
  <2>2. QED
    BY <1>1, <2>1
    DEF BeginPush, serviceVars, storeVars, ServiceTypeOK, StoreTypeOK, PullTypeOK, Timing
<1>2. CASE CallPurge(p)
  <2>1. PushTypeOK'
    BY <1>a, <1>2, PushMoves DEF CallPurge, PushTo
  <2>2. ServiceTypeOK'
    BY <1>0, <1>2, PurgeType DEF CallPurge
  <2>3. QED
    BY <1>2, <2>1, <2>2 DEF CallPurge, storeVars, StoreTypeOK, PullTypeOK, Timing
<1>3. CASE ClearPurge(p)
  <2>1. PushTypeOK'
    BY <1>0, <1>3, PushReads, PushMoves DEF ClearPurge, PushTo
  <2>2. StoreTypeOK'
    BY <1>0, <1>3 DEF ClearPurge, StoreTypeOK
  <2>3. QED
    BY <1>3, <2>1, <2>2 DEF ClearPurge, serviceVars, ServiceTypeOK, PullTypeOK, Timing
<1>4. CASE CallDelete(p)
  <2>1. PushTypeOK'
    BY <1>a, <1>4, PushMoves DEF CallDelete, PushTo
  <2>2. ServiceTypeOK'
    BY <1>0, <1>4, DeleteType DEF CallDelete
  <2>3. QED
    BY <1>4, <2>1, <2>2 DEF CallDelete, storeVars, StoreTypeOK, PullTypeOK, Timing
<1>5. CASE ClearDelete(p)
  <2>1. PushTypeOK'
    BY <1>0, <1>5, PushReads, PushMoves DEF ClearDelete, PushTo
  <2>2. StoreTypeOK'
    BY <1>0, <1>5 DEF ClearDelete, StoreTypeOK
  <2>3. QED
    BY <1>5, <2>1, <2>2 DEF ClearDelete, serviceVars, ServiceTypeOK, PullTypeOK, Timing
<1>6. CASE CallUpsert(p)
  <2>1. push[p].doc \in Copy /\ push[p].doc.rev \in Nat
    BY <1>0, <1>6 DEF CallUpsert, Copy
  <2>2. PushTypeOK'
    <3>1. push' \in [Pusher -> Push]
      BY <1>0, <1>6 DEF CallUpsert, PushTypeOK, PushPC, IsPurged
    <3>2. \A x \in Pusher : push'[x].pc \in {"upsert", "settle"} => push'[x].doc # NoCopy
      BY <1>6 DEF CallUpsert, PushTypeOK
    <3>3. QED
      BY <3>1, <3>2 DEF PushTypeOK
  <2>3. ServiceTypeOK'
    BY <1>0, <1>6, <2>1, UpsertType DEF CallUpsert
  <2>4. shared' \subseteq Nat
    BY <1>6, <2>1 DEF CallUpsert
  <2>5. QED
    BY <1>6, <2>2, <2>3, <2>4 DEF CallUpsert, storeVars, StoreTypeOK, PullTypeOK, Timing
<1>7. CASE Settle(p)
  <2>1. PushTypeOK'
    BY <1>a, <1>7, PushMoves DEF Settle
  <2>2. StoreTypeOK'
    <3> DEFINE c == [local[On[p]] EXCEPT !.dirty = ~push[p].ok, !.refused = ~push[p].ok]
    <3>1. CASE Unchanged(On[p], push[p].doc)
      <4>1. local[On[p]] \in Copy /\ push[p].ok \in BOOLEAN
        BY <1>0, <3>1 DEF Unchanged, Has, StoreTypeOK
      <4>2. c \in Copy
        BY <4>1 DEF Copy
      <4>3. SetLocal(On[p], c) /\ UNCHANGED <<storeVars, since>>
        BY <1>7, <3>1 DEF Settle
      <4> HIDE DEF c
      <4>4. QED
        BY <1>0, <4>2, <4>3, StoreMoves DEF storeVars, StoreTypeOK
    <3>2. CASE ~Unchanged(On[p], push[p].doc)
      BY <1>7, <3>2 DEF Settle, storeVars, StoreTypeOK
    <3>3. QED
      BY <3>1, <3>2
  <2>3. QED
    BY <1>7, <2>1, <2>2 DEF Settle, serviceVars, ServiceTypeOK, PullTypeOK, Timing
<1>8. CASE FailPush(p) \/ LosePush(p)
  <2>1. PushTypeOK'
    BY <1>0, <1>a, <1>8, PushReads, PushMoves DEF FailPush, LosePush, PushTo
  <2>2. used' \in [{"rev", "forgets", "others", "lost"} -> Nat]
    BY <1>8 DEF FailPush, LosePush, Spend
  <2>3. UNCHANGED <<serviceVars, clock, local, storeVars, since, pull, shared, missed>>
    BY <1>8 DEF FailPush, LosePush
  <2>4. QED
    BY <2>1, <2>2, <2>3
    DEF serviceVars, storeVars, ServiceTypeOK, StoreTypeOK, PullTypeOK, Timing
<1>9. QED
  BY <1>1, <1>2, <1>3, <1>4, <1>5, <1>6, <1>7, <1>8 DEF PushStep

\* The steps of a pull keep the types.
LEMMA PullType ==
  ASSUME TypeInv, NEW q \in Puller, PullStep(q) \/ FailPull(q)
  PROVE  TypeInv'
<1> USE DEF TypeInv, TypeOK
<1>0. /\ On[q] \in Machine /\ pull[q] \in Pull /\ IdlePull \in Pull /\ ~IdlePull.whole
      /\ IdlePull.pc = "idle"
      /\ pull[q].whole => OVERLAP <= pull[q].start
      /\ since[On[q]] \in Nat
  BY DocSyncAssumption DEF PullTypeOK, Pull, IdlePull, PullPC, Timing, StoreTypeOK
<1>1. CASE BeginPull(q)
  <2>1. PICK r \in Pull : pull' = [pull EXCEPT ![q] = r] /\ r.start = clock /\ r.whole
    <3> DEFINE r == [IdlePull EXCEPT
                !.pc = IF Has(On[q]) /\ ~local[On[q]].dirty THEN "lookup" ELSE "fetch",
                !.whole = TRUE, !.start = clock, !.from = since[On[q]]]
    <3>1. r \in Pull /\ r.start = clock /\ r.whole
      BY <1>0 DEF IdlePull, Pull, PullPC
    <3>2. QED
      BY <1>1, <3>1 DEF BeginPull
  <2>2. PullTypeOK' /\ Timing'
    BY <1>1, <2>1, PullMoves DEF BeginPull, Timing
  <2>3. QED
    BY <1>1, <2>2
    DEF BeginPull, serviceVars, storeVars, ServiceTypeOK, StoreTypeOK, PushTypeOK
<1>2. CASE LookUp(q)
  <2>1. PullTypeOK' /\ Timing'
    BY <1>0, <1>2 DEF LookUp, PullTo, PullTypeOK, PullPC, Pull, Timing
  <2>2. QED
    BY <1>2, <2>1
    DEF LookUp, serviceVars, storeVars, ServiceTypeOK, StoreTypeOK, PushTypeOK
<1>3. CASE DropMoved(q)
  <2>1. PullTypeOK' /\ Timing'
    BY <1>0, <1>3 DEF DropMoved, PullTo, PullTypeOK, PullPC, Pull, Timing
  <2>2. StoreTypeOK'
    BY <1>0, <1>3, StoreMoves DEF DropMoved, storeVars, StoreTypeOK
  <2>3. QED
    BY <1>3, <2>1, <2>2 DEF DropMoved, serviceVars, ServiceTypeOK, PushTypeOK
<1>4. CASE Fetch(q)
  <2>1. PullTypeOK' /\ Timing'
    <3> DEFINE r == WithPage(pull[q], Page(On[q], pull[q].from, pull[q].from = 0))
    <3>1. pull[q].from \in Nat /\ (pull[q].from = 0) \in BOOLEAN
          /\ ServiceTypeOK /\ StoreTypeOK
      BY <1>0 DEF Pull
    <3>2. r \in Pull /\ r.whole = pull[q].whole /\ r.start = pull[q].start
      BY <1>0, <3>1, PageType
    <3>a. r.pc = "apply"
      BY <1>0 DEF WithPage, Pull
    <3>3. pull' = [pull EXCEPT ![q] = r] /\ UNCHANGED clock
      BY <1>4 DEF Fetch
    <3> HIDE DEF r
    <3>4. QED
      BY <1>0, <3>2, <3>3, <3>a, PullMoves
  <2>2. QED
    BY <1>4, <2>1
    DEF Fetch, serviceVars, storeVars, ServiceTypeOK, StoreTypeOK, PushTypeOK
<1>5. CASE HookFetch(q)
  <2>1. PullTypeOK' /\ Timing'
    <3> DEFINE r == WithPage(IdlePull, Page(On[q], since[On[q]], FALSE))
    <3>1. r \in Pull /\ ~r.whole /\ r.pc = "apply"
      <4>1. FALSE \in BOOLEAN /\ ServiceTypeOK /\ StoreTypeOK
        OBVIOUS
      <4>2. r \in Pull /\ r.whole = IdlePull.whole
        BY <1>0, <4>1, PageType
      <4>3. r.pc = "apply"
        BY DEF WithPage, IdlePull
      <4>4. QED
        BY <1>0, <4>2, <4>3
    <3>2. pull' = [pull EXCEPT ![q] = r] /\ UNCHANGED clock
      BY <1>5 DEF HookFetch
    <3> HIDE DEF r
    <3>3. QED
      BY <1>0, <3>1, <3>2, PullMoves
  <2>2. QED
    BY <1>5, <2>1
    DEF HookFetch, serviceVars, storeVars, ServiceTypeOK, StoreTypeOK, PushTypeOK
<1>6. CASE Apply(q) \/ ApplyOnly(q)
  <2>1. PullTypeOK' /\ Timing'
    BY <1>0, <1>6, PullMoves DEF Apply, ApplyOnly
  <2>2. since' \in [Machine -> Nat]
    <3>1. pull[q].whole => PullPoint(q) \in Nat
      BY <1>0, DocSyncAssumption DEF PullPoint, Pull
    <3>2. QED
      BY <1>6, <3>1 DEF Apply, ApplyOnly, StoreTypeOK
  <2>3. PICK c \in Copy \cup {NoCopy} : SetLocal(On[q], c)
    <3>1. pull[q].row \in Row \cup {NoRow} /\ local[On[q]] \in Copy \cup {NoCopy}
      BY <1>0 DEF Pull, StoreTypeOK
    <3>2. Applied(q) \in Copy \cup {NoCopy}
      BY <1>0, <3>1, AppliedType DEF Applied
    <3>3. QED
      BY <1>6, <3>2 DEF Apply, ApplyOnly
  <2>4. StoreTypeOK'
    BY <1>0, <1>6, <2>2, <2>3, StoreMoves DEF Apply, ApplyOnly, storeVars, StoreTypeOK
  <2>5. used' \in [{"rev", "forgets", "others", "lost"} -> Nat]
    BY <1>6 DEF Apply, ApplyOnly, Spend
  <2>6. UNCHANGED <<serviceVars, clock, push, shared, missed>>
    BY <1>6 DEF Apply, ApplyOnly
  <2>7. QED
    BY <2>1, <2>4, <2>5, <2>6 DEF serviceVars, ServiceTypeOK, PushTypeOK
<1>7. CASE LosePull(q)
  <2>1. PullTypeOK' /\ Timing'
    BY <1>0, <1>7, PullMoves DEF LosePull
  <2>2. QED
    BY <1>7, <2>1
    DEF LosePull, Spend, serviceVars, storeVars, ServiceTypeOK, StoreTypeOK, PushTypeOK
<1>8. CASE FailMoveCheck(q)
  <2>1. PullTypeOK' /\ Timing'
    BY <1>0, <1>8 DEF FailMoveCheck, PullTo, PullTypeOK, PullPC, Pull, Timing
  <2>2. QED
    BY <1>8, <2>1
    DEF FailMoveCheck, Spend, serviceVars, storeVars, ServiceTypeOK, StoreTypeOK, PushTypeOK
<1>9. CASE FailFetch(q) \/ FailApply(q)
  <2>1. PullTypeOK' /\ Timing'
    BY <1>0, <1>9, PullMoves DEF FailFetch, FailApply
  <2>2. PICK r \in Row \cup {NoRow}, del \in {"none", "delete", "purge"} :
            PassOver(q, Times(r, del))
    <3>1. /\ pull[q].row \in Row \cup {NoRow}
          /\ pull[q].del \in {"none", "delete", "purge"}
      BY <1>0 DEF Pull
    <3>2. LET page == Page(On[q], pull[q].from, pull[q].from = 0)
          IN  /\ page.row \in Row \cup {NoRow}
              /\ page.del \in {"none", "delete", "purge"}
      BY DEF Page, ServiceTypeOK
    <3>3. QED
      BY <1>9, <3>1, <3>2 DEF FailFetch, FailApply
  <2>3. Times(r, del) \subseteq Nat
    BY DEF Times, Row, ServiceTypeOK
  <2>4. PullPoint(q) \in Nat /\ UNCHANGED <<local, storeVars>>
    BY <1>0, <1>9, DocSyncAssumption DEF FailFetch, FailApply, PullPoint, Pull, Timing
  <2>5. since' \in [Machine -> Nat] /\ missed' \in [Machine -> SUBSET Nat]
    BY <2>2, <2>3, <2>4 DEF PassOver, StoreTypeOK
  <2>6. used' \in [{"rev", "forgets", "others", "lost"} -> Nat]
    BY <1>9 DEF FailFetch, FailApply, Spend
  <2>7. UNCHANGED <<serviceVars, clock, push, shared>>
    BY <1>9 DEF FailFetch, FailApply
  <2>8. QED
    BY <2>1, <2>4, <2>5, <2>6, <2>7
    DEF serviceVars, storeVars, ServiceTypeOK, StoreTypeOK, PushTypeOK
<1>10. QED
  BY <1>1, <1>2, <1>3, <1>4, <1>5, <1>6, <1>7, <1>8, <1>9 DEF PullStep, FailPull

LEMMA TypeStep == TypeInv /\ [Next]_vars => TypeInv'
<1> SUFFICES ASSUME TypeInv, [Next]_vars PROVE TypeInv'
  OBVIOUS
<1>1. CASE Moved
  <2>1. ServiceTypeOK'
    BY <1>1, MoveAwayType DEF Moved, TypeInv, TypeOK
  <2>2. QED
    BY <1>1, <2>1 DEF Moved, Spend, TypeInv, TypeOK, storeVars, StoreTypeOK, PushTypeOK,
                      PullTypeOK, Timing
<1>2. CASE Tick
  BY <1>2, DocSyncAssumption
  DEF Tick, TypeInv, TypeOK, serviceVars, storeVars, ServiceTypeOK, StoreTypeOK,
      PushTypeOK, PullTypeOK, Timing
<1>3. CASE UNCHANGED vars
  BY <1>3 DEF vars, TypeInv, TypeOK, ServiceTypeOK, StoreTypeOK, PushTypeOK, PullTypeOK,
              Timing
<1>4. QED
  BY <1>1, <1>2, <1>3, UserType, PushType, PullType DEF Next

\* Type correctness of every machine, push and pull.
THEOREM TypeCorrect == Spec => []TypeOK
<1>1. TypeInv => TypeOK
  BY DEF TypeInv
<1>2. QED
  BY <1>1, TypeInit, TypeStep, PTL DEF Spec

-----------------------------------------------------------------------------
\* Every version a synced copy can come from has been in the row: the row, its
\* deleted copies, the rows on a page and the versions a push was told are stored.
SharedInv ==
  /\ CleanWasShared
  /\ row # NoRow => row.rev \in shared
  /\ \A u \in User : \A i \in 1..Len(trash[u]) : trash[u][i].rev \in shared
  /\ \A p \in Pusher : push[p].pc = "settle" /\ push[p].ok => push[p].doc.rev \in shared
  /\ \A q \in Puller : pull[q].row # NoRow => pull[q].row.rev \in shared

\* A step that only drops or dirties the copy of one machine keeps the invariant.
LEMMA LocalShared ==
  ASSUME TypeOK, SharedInv, NEW m \in Machine, NEW c \in Copy \cup {NoCopy}, SetLocal(m, c),
         c # NoCopy /\ ~c.dirty => c.rev \in shared, UNCHANGED shared
  PROVE  CleanWasShared'
  BY DEF TypeOK, StoreTypeOK, SharedInv, CleanWasShared, SetLocal, Has

LEMMA UserShared ==
  ASSUME TypeOK, SharedInv, NEW m \in Machine, UserStep(m)
  PROVE  SharedInv'
<1>0. local \in [Machine -> Copy \cup {NoCopy}]
  BY DEF TypeOK, StoreTypeOK
<1>1. CASE Edit(m)
  BY <1>0, <1>1 DEF Edit, SharedInv, CleanWasShared, SetLocal, Has, Copy, serviceVars
<1>2. CASE Forget(m) \/ AskPurge(m)
  BY <1>0, <1>2 DEF Forget, AskPurge, SharedInv, CleanWasShared, SetLocal, Has, serviceVars
<1>3. CASE Note(m)
  BY <1>3 DEF Note, SharedInv, CleanWasShared, Has, serviceVars
<1>4. CASE AskRestore(m)
  <2> DEFINE u == UserOf[m]
  <2>1. u \in User /\ trash[u] \in Seq(Row) /\ trash[u] # <<>>
    BY <1>4, ServiceDocumentAssumption DEF AskRestore, Restore, TypeOK, ServiceTypeOK
  <2>2. /\ Head(trash[u]) = trash[u][1] /\ 1 \in 1..Len(trash[u])
        /\ Tail(trash[u]) \in Seq(Row)
        /\ \A i \in 1..Len(Tail(trash[u])) :
             /\ Tail(trash[u])[i] = trash[u][i + 1]
             /\ i + 1 \in 1..Len(trash[u])
    BY <2>1, HeadTailProperties
  <2>3. row'.rev \in shared'
    <3>1. Head(trash[u]) \in Row
      BY <2>1, HeadTailProperties
    <3>2. row'.rev = Head(trash[u]).rev
      BY <1>4, <3>1 DEF AskRestore, Restore, Row
    <3>3. QED
      BY <1>4, <2>1, <2>2, <3>2 DEF AskRestore, SharedInv
  <2>4. \A v \in User : \A i \in 1..Len(trash'[v]) : trash'[v][i].rev \in shared'
    <3>1. trash' = [trash EXCEPT ![u] = Tail(@)] /\ shared' = shared
      BY <1>4 DEF AskRestore, Restore
    <3>2. trash'[u] = Tail(trash[u]) /\ \A v \in User \ {u} : trash'[v] = trash[v]
      BY <2>1, <3>1 DEF TypeOK, ServiceTypeOK
    <3>3. QED
      BY <2>1, <2>2, <3>1, <3>2 DEF SharedInv
  <2>5. QED
    BY <1>4, <2>3, <2>4 DEF AskRestore, SharedInv, CleanWasShared, Has
<1>5. QED
  BY <1>1, <1>2, <1>3, <1>4 DEF UserStep

LEMMA PushShared ==
  ASSUME TypeOK, SharedInv, NEW p \in Pusher, PushStep(p) \/ FailPush(p) \/ LosePush(p)
  PROVE  SharedInv'
<1>0. /\ On[p] \in Machine /\ UserOf[On[p]] \in User
      /\ push \in [Pusher -> [pc : PushPC, doc : Copy \cup {NoCopy}, ok : BOOLEAN, at : Nat]]
      /\ local \in [Machine -> Copy \cup {NoCopy}]
      /\ trash \in [User -> Seq(Row)]
  BY ServiceDocumentAssumption, DocSyncAssumption
  DEF TypeOK, PushTypeOK, StoreTypeOK, ServiceTypeOK
<1>a. StoreTypeOK
  BY DEF TypeOK
<1>1. CASE BeginPush(p) \/ FailPush(p) \/ LosePush(p)
  <2>1. PICK r : push' = [push EXCEPT ![p] = r] /\ r.pc # "settle"
    BY <1>0, <1>a, <1>1, PushReads DEF BeginPush, FailPush, LosePush, PushTo, IdlePush
  <2>2. QED
    BY <1>0, <1>1, <2>1
    DEF BeginPush, FailPush, LosePush, SharedInv, CleanWasShared, Has, serviceVars
<1>2. CASE CallPurge(p)
  <2>1. push' = [push EXCEPT ![p] = At("clearPurge")] /\ At("clearPurge").pc # "settle"
    BY <1>2 DEF CallPurge, PushTo, At, IdlePush
  <2>2. row' # NoRow => row' = row
    BY <1>2 DEF CallPurge, Purge
  <2>3. \A v \in User : trash'[v] \in {trash[v], <<>>}
    BY <1>0, <1>2 DEF CallPurge, Purge
  <2>4. QED
    BY <1>0, <1>2, <2>1, <2>2, <2>3 DEF CallPurge, SharedInv, CleanWasShared, Has
<1>3. CASE ClearPurge(p) \/ ClearDelete(p)
  <2>1. PICK r : push' = [push EXCEPT ![p] = r] /\ r.pc # "settle"
    BY <1>0, <1>a, <1>3, PushReads DEF ClearPurge, ClearDelete, PushTo
  <2>2. QED
    BY <1>0, <1>3, <2>1
    DEF ClearPurge, ClearDelete, SharedInv, CleanWasShared, Has, serviceVars
<1>4. CASE CallDelete(p)
  <2> DEFINE u == UserOf[On[p]]
  <2>1. push' = [push EXCEPT ![p] = At("clearDelete")] /\ At("clearDelete").pc # "settle"
    BY <1>4 DEF CallDelete, PushTo, At, IdlePush
  <2>2. row' # NoRow => row' = row
    BY <1>4 DEF CallDelete, Delete, serviceVars
  <2>3. \A v \in User : \A i \in 1..Len(trash'[v]) : trash'[v][i].rev \in shared
    <3>1. CASE row # NoRow /\ row.owner = u
      <4>1. /\ trash' = [trash EXCEPT ![u] = <<row>> \o @]
            /\ row \in Row
        BY <1>4, <3>1 DEF CallDelete, Delete, TypeOK, ServiceTypeOK
      <4>2. /\ trash'[u] = <<row>> \o trash[u]
            /\ \A v \in User \ {u} : trash'[v] = trash[v]
        BY <1>0, <4>1
      <4>3. \A i \in 1..Len(<<row>> \o trash[u]) :
              \/ (<<row>> \o trash[u])[i] = row
              \/ \E j \in 1..Len(trash[u]) : (<<row>> \o trash[u])[i] = trash[u][j]
        <5>1. /\ <<row>> \in Seq(Row) /\ trash[u] \in Seq(Row)
              /\ Len(<<row>>) = 1 /\ <<row>>[1] = row
          BY <1>0, <4>1
        <5>2. /\ Len(<<row>> \o trash[u]) = 1 + Len(trash[u])
              /\ \A i \in 1..(1 + Len(trash[u])) :
                   (<<row>> \o trash[u])[i] = IF i <= 1 THEN row ELSE trash[u][i - 1]
          BY <5>1, ConcatProperties, SMTT(30)
        <5>3. Len(trash[u]) \in Nat
          BY <5>1
        <5>4. QED
          BY <5>2, <5>3
      <4>4. row.rev \in shared /\ \A i \in 1..Len(trash[u]) : trash[u][i].rev \in shared
        BY <1>0, <3>1 DEF SharedInv
      <4>5. \A i \in 1..Len(trash'[u]) : trash'[u][i].rev \in shared
        BY <4>2, <4>3, <4>4
      <4>6. \A v \in User \ {u} : \A i \in 1..Len(trash'[v]) : trash'[v][i].rev \in shared
        BY <4>2 DEF SharedInv
      <4>7. QED
        BY <4>5, <4>6
    <3>2. CASE ~(row # NoRow /\ row.owner = u)
      BY <1>4, <3>2 DEF CallDelete, Delete, serviceVars, SharedInv
    <3>3. QED
      BY <3>1, <3>2
  <2>4. QED
    BY <1>0, <1>4, <2>1, <2>2, <2>3 DEF CallDelete, SharedInv, CleanWasShared, Has
<1>5. CASE CallUpsert(p)
  <2>1. shared \subseteq shared' /\ (~IsPurged => push[p].doc.rev \in shared')
    BY <1>5 DEF CallUpsert
  <2>2. row' # NoRow => row'.rev \in shared'
    BY <1>5, <2>1 DEF CallUpsert, Upsert, Upserted, SharedInv
  <2>3. \A x \in Pusher : push'[x].pc = "settle" /\ push'[x].ok => push'[x].doc.rev \in shared'
    <3>1. push'[p].ok <=> ~IsPurged
      BY <1>0, <1>5, Zenon DEF CallUpsert
    <3>2. push'[p].doc = push[p].doc /\ \A x \in Pusher \ {p} : push'[x] = push[x]
      BY <1>0, <1>5 DEF CallUpsert
    <3>3. QED
      BY <2>1, <3>1, <3>2 DEF SharedInv
  <2>4. QED
    BY <1>5, <2>1, <2>2, <2>3 DEF CallUpsert, Upsert, SharedInv, CleanWasShared, Has
<1>6. CASE Settle(p)
  <2>1. CleanWasShared'
    <3> DEFINE c == [local[On[p]] EXCEPT !.dirty = ~push[p].ok, !.refused = ~push[p].ok]
    <3>1. CASE Unchanged(On[p], push[p].doc)
      <4>1. local[On[p]] \in Copy /\ push[p].ok \in BOOLEAN
        BY <1>0, <3>1 DEF Unchanged, Has
      <4>2. c \in Copy /\ c.rev = push[p].doc.rev /\ (c.dirty <=> ~push[p].ok)
        BY <3>1, <4>1 DEF Copy, Unchanged
      <4>3. SetLocal(On[p], c) /\ UNCHANGED shared
        BY <1>6, <3>1 DEF Settle
      <4>4. ~c.dirty => c.rev \in shared
        BY <1>6, <4>2 DEF Settle, SharedInv
      <4> HIDE DEF c
      <4>5. QED
        BY <1>0, <4>2, <4>3, <4>4, LocalShared
    <3>2. CASE ~Unchanged(On[p], push[p].doc)
      BY <1>6, <3>2 DEF Settle, SharedInv, CleanWasShared, Has
    <3>3. QED
      BY <3>1, <3>2
  <2>2. QED
    BY <1>0, <1>6, <2>1 DEF Settle, SharedInv, IdlePush, serviceVars
<1>7. QED
  BY <1>1, <1>2, <1>3, <1>4, <1>5, <1>6 DEF PushStep

LEMMA PullShared ==
  ASSUME TypeOK, SharedInv, NEW q \in Puller, PullStep(q) \/ FailPull(q)
  PROVE  SharedInv'
<1>0. /\ On[q] \in Machine
      /\ pull \in [Puller -> Pull]
      /\ local \in [Machine -> Copy \cup {NoCopy}]
  BY DocSyncAssumption DEF TypeOK, PullTypeOK, Pull, StoreTypeOK
<1>1. CASE Apply(q) \/ ApplyOnly(q)
  <2> DEFINE r == pull[q].row
             c == IF r = NoRow THEN AfterDeletion(On[q], pull[q].del)
                  ELSE IF ~pull[q].tomb /\ Replaces(r, On[q]) THEN Pulled(r)
                  ELSE local[On[q]]
  <2>1. c \in Copy \cup {NoCopy}
    BY <1>0, AppliedType DEF Pull, TypeOK
  <2>2. c # NoCopy /\ ~c.dirty => c.rev \in shared
    <3>1. r # NoRow => Pulled(r).rev \in shared
      BY <1>0 DEF SharedInv, Pulled
    <3>2. local[On[q]] # NoCopy /\ ~local[On[q]].dirty => local[On[q]].rev \in shared
      BY <1>0 DEF SharedInv, CleanWasShared, Has
    <3>3. AfterDeletion(On[q], pull[q].del) # NoCopy
            /\ ~AfterDeletion(On[q], pull[q].del).dirty
          => AfterDeletion(On[q], pull[q].del).rev \in shared
      BY <1>0, <3>2 DEF AfterDeletion, Has, Copy
    <3>4. QED
      BY <3>1, <3>2, <3>3
  <2>3. SetLocal(On[q], c) /\ UNCHANGED shared
    BY <1>1 DEF Apply, ApplyOnly, Applied
  <2> HIDE DEF c
  <2>4. CleanWasShared'
    BY <1>0, <2>1, <2>2, <2>3, LocalShared
  <2>5. QED
    BY <1>0, <1>1, <2>4 DEF Apply, ApplyOnly, SharedInv, IdlePull, serviceVars
<1>2. CASE DropMoved(q)
  BY <1>0, <1>2
  DEF DropMoved, PullTo, SetLocal, SharedInv, CleanWasShared, Has, serviceVars, Pull
<1>3. CASE Fetch(q) \/ HookFetch(q)
  <2>1. PICK r : /\ pull' = [pull EXCEPT ![q] = r]
                 /\ r.row # NoRow => r.row = row
    <3>1. \A m, from, ownToo : Page(m, from, ownToo).row \in {row, NoRow}
      BY DEF Page
    <3>2. \A x \in Pull : \A page : WithPage(x, page).row = page.row
      BY DEF WithPage, Pull
    <3>3. IdlePull \in Pull
      BY DEF IdlePull, Pull, PullPC
    <3>4. CASE Fetch(q)
      <4> DEFINE r == WithPage(pull[q], Page(On[q], pull[q].from, pull[q].from = 0))
      <4>1. r.row \in {row, NoRow}
        BY <1>0, <3>1, <3>2
      <4>2. pull' = [pull EXCEPT ![q] = r]
        BY <3>4 DEF Fetch
      <4> HIDE DEF r
      <4>3. QED
        BY <4>1, <4>2
    <3>5. CASE HookFetch(q)
      <4> DEFINE page == Page(On[q], since[On[q]], FALSE)
                 r == WithPage(IdlePull, page)
      <4>0. page.row \in {row, NoRow}
        BY Zenon DEF Page
      <4>1. r.row \in {row, NoRow}
        <5> HIDE DEF page
        <5>1. QED
          BY <3>2, <3>3, <4>0
      <4>2. pull' = [pull EXCEPT ![q] = r]
        BY <3>5 DEF HookFetch
      <4> HIDE DEF r
      <4>3. QED
        BY <4>1, <4>2
    <3>6. QED
      BY <1>3, <3>4, <3>5
  <2>2. QED
    BY <1>0, <1>3, <2>1 DEF Fetch, HookFetch, SharedInv, CleanWasShared, Has, serviceVars
<1>4. CASE BeginPull(q) \/ LookUp(q) \/ FailMoveCheck(q) \/ FailFetch(q) \/ FailApply(q) \/ LosePull(q)
  <2>1. PICK r : /\ pull' = [pull EXCEPT ![q] = r]
                 /\ r.row # NoRow => r.row = pull[q].row
    <3>1. CASE BeginPull(q)
      <4> DEFINE r == [IdlePull EXCEPT
                !.pc = IF Has(On[q]) /\ ~local[On[q]].dirty THEN "lookup" ELSE "fetch",
                !.whole = TRUE, !.start = clock, !.from = since[On[q]]]
      <4>1. r.row = NoRow
        BY DEF IdlePull
      <4>2. QED
        BY <3>1, <4>1 DEF BeginPull
    <3>2. CASE LookUp(q)
      <4> DEFINE pc == IF row # NoRow /\ row.away THEN "drop" ELSE "fetch"
      <4>1. [pull[q] EXCEPT !.pc = pc].row = pull[q].row
        BY <1>0 DEF Pull
      <4>2. QED
        BY <3>2, <4>1 DEF LookUp, PullTo
    <3>3. CASE FailFetch(q) \/ FailApply(q) \/ LosePull(q)
      <4>1. IdlePull.row = NoRow
        BY DEF IdlePull
      <4>2. QED
        BY <3>3, <4>1 DEF FailFetch, FailApply, LosePull
    <3>4. CASE FailMoveCheck(q)
      <4>1. [pull[q] EXCEPT !.pc = "fetch"].row = pull[q].row
        BY <1>0 DEF Pull
      <4>2. QED
        BY <3>4, <4>1 DEF FailMoveCheck, PullTo
    <3>5. QED
      BY <1>4, <3>1, <3>2, <3>3, <3>4
  <2>2. UNCHANGED <<serviceVars, local, push, shared>>
    BY <1>4 DEF BeginPull, LookUp, FailMoveCheck, FailFetch, FailApply, LosePull
  <2>3. QED
    BY <1>0, <2>1, <2>2 DEF SharedInv, CleanWasShared, Has, serviceVars
<1>5. QED
  BY <1>1, <1>2, <1>3, <1>4 DEF PullStep, FailPull

LEMMA SharedStep == TypeOK /\ SharedInv /\ [Next]_vars => SharedInv'
<1> SUFFICES ASSUME TypeOK, SharedInv, [Next]_vars PROVE SharedInv'
  OBVIOUS
<1>1. CASE Moved
  <2>1. row'.rev = row.rev /\ row # NoRow
    BY <1>1 DEF Moved, MoveAway, TypeOK, ServiceTypeOK, Row
  <2>2. QED
    BY <1>1, <2>1 DEF Moved, MoveAway, SharedInv, CleanWasShared, Has
<1>2. CASE Tick \/ UNCHANGED vars
  BY <1>2 DEF Tick, vars, serviceVars, SharedInv, CleanWasShared, Has
<1>3. QED
  BY <1>1, <1>2, UserShared, PushShared, PullShared DEF Next

\* No copy counts as synced in a version that was never shared, however many
\* machines and processes edit, push and pull at once.
THEOREM SyncedWasShared == Spec => []CleanWasShared
<1>1. Init => SharedInv
  BY DEF Init, ServiceInit, SharedInv, CleanWasShared, Has, Fresh, IdlePush, IdlePull
<1>2. SharedInv => CleanWasShared
  BY DEF SharedInv
<1>3. QED
  BY <1>1, <1>2, TypeCorrect, SharedStep, PTL DEF Spec

-----------------------------------------------------------------------------
\* Revisions count edits: none is newer than the last edit.
RevInv ==
  /\ \A n \in shared : n <= used.rev
  /\ \A m \in Machine : Has(m) => local[m].rev <= used.rev
  /\ \A p \in Pusher : push[p].doc # NoCopy => push[p].doc.rev <= used.rev

LEMMA UserRev ==
  ASSUME TypeOK, RevInv, NEW m \in Machine, UserStep(m)
  PROVE  RevInv'
<1>0. /\ local \in [Machine -> Copy \cup {NoCopy}]
      /\ used \in [{"rev", "forgets", "others", "lost"} -> Nat]
      /\ shared \subseteq Nat
      /\ \A p \in Pusher : push[p].doc # NoCopy => push[p].doc.rev \in Nat
  BY DEF TypeOK, StoreTypeOK, PushTypeOK, Copy
<1>1. CASE Edit(m)
  <2>1. used'.rev = used.rev + 1 /\ used.rev \in Nat
    BY <1>0, <1>1 DEF Edit, Spend
  <2>2. /\ \A x \in Machine \ {m} : local'[x] = local[x]
        /\ local'[m].rev = used.rev + 1
    BY <1>0, <1>1 DEF Edit, SetLocal, Has, Copy
  <2>3. \A x \in Machine : Has(x) => local[x].rev \in Nat
    BY <1>0 DEF Has, Copy
  <2>4. \A x \in Machine : Has(x)' => local'[x].rev <= used'.rev
    BY <2>1, <2>2, <2>3 DEF RevInv, Has
  <2>5. QED
    BY <1>0, <1>1, <2>1, <2>4 DEF Edit, RevInv
<1>2. CASE Forget(m) \/ AskPurge(m)
  <2>1. used'.rev = used.rev /\ UNCHANGED <<push, shared>>
    BY <1>0, <1>2 DEF Forget, AskPurge, Spend
  <2>2. local' = [local EXCEPT ![m] = NoCopy]
    BY <1>2 DEF Forget, AskPurge, SetLocal
  <2>3. QED
    BY <1>0, <2>1, <2>2 DEF RevInv, Has
<1>3. CASE Note(m)
  BY <1>3 DEF Note, RevInv, Has
<1>4. CASE AskRestore(m)
  <2>1. used'.rev = used.rev
    BY <1>0, <1>4 DEF AskRestore, Spend
  <2>2. QED
    BY <1>4, <2>1 DEF AskRestore, RevInv, Has
<1>5. QED
  BY <1>1, <1>2, <1>3, <1>4 DEF UserStep

\* What a push reads is nothing or the machine's copy.
LEMMA ReadsCopy ==
  ASSUME NEW m \in Machine
  PROVE  /\ ReadPurges(m).doc \in {NoCopy, local[m]}
         /\ ReadDeletes(m).doc \in {NoCopy, local[m]}
         /\ ReadDocs(m).doc \in {NoCopy, local[m]}
<1>1. ReadDocs(m).doc \in {NoCopy, local[m]}
  BY DEF ReadDocs, IdlePush
<1>2. \A pc : At(pc).doc = NoCopy
  BY DEF At, IdlePush
<1>3. ReadDeletes(m).doc \in {NoCopy, local[m]}
  BY <1>1, <1>2 DEF ReadDeletes
<1>4. QED
  BY <1>1, <1>2, <1>3 DEF ReadPurges

LEMMA PushRev ==
  ASSUME TypeOK, RevInv, NEW p \in Pusher, PushStep(p) \/ FailPush(p) \/ LosePush(p)
  PROVE  RevInv'
<1>0. /\ On[p] \in Machine
      /\ push \in [Pusher -> [pc : PushPC, doc : Copy \cup {NoCopy}, ok : BOOLEAN, at : Nat]]
      /\ local \in [Machine -> Copy \cup {NoCopy}]
      /\ used \in [{"rev", "forgets", "others", "lost"} -> Nat]
      /\ push[p].pc \in {"upsert", "settle"} => push[p].doc # NoCopy
  BY DocSyncAssumption DEF TypeOK, PushTypeOK, StoreTypeOK
<1>1. CASE CallUpsert(p)
  <2>1. UNCHANGED <<local, used>>
    BY <1>1 DEF CallUpsert
  <2>2. \A x \in Pusher : push'[x].doc = push[x].doc
    BY <1>0, <1>1 DEF CallUpsert
  <2>3. \A n \in shared' : n <= used.rev
    BY <1>0, <1>1 DEF CallUpsert, RevInv
  <2>4. QED
    BY <2>1, <2>2, <2>3 DEF RevInv, Has
<1>2. CASE Settle(p)
  <2>1. \A m \in Machine : Has(m)' => Has(m) /\ local'[m].rev = local[m].rev
    <3> DEFINE c == [local[On[p]] EXCEPT !.dirty = ~push[p].ok, !.refused = ~push[p].ok]
    <3>1. CASE Unchanged(On[p], push[p].doc)
      <4>1. local[On[p]] \in Copy /\ push[p].ok \in BOOLEAN /\ local[On[p]] # NoCopy
        BY <1>0, <3>1 DEF Unchanged, Has
      <4>2. c.rev = local[On[p]].rev
        BY <4>1 DEF Copy
      <4>3. local' = [local EXCEPT ![On[p]] = c]
        BY <1>2, <3>1 DEF Settle, SetLocal
      <4> HIDE DEF c
      <4>4. QED
        BY <1>0, <4>1, <4>2, <4>3 DEF Has
    <3>2. CASE ~Unchanged(On[p], push[p].doc)
      BY <1>2, <3>2 DEF Settle, Has
    <3>3. QED
      BY <3>1, <3>2
  <2>2. IdlePush.doc = NoCopy
    BY DEF IdlePush
  <2>3. QED
    BY <1>0, <1>2, <2>1, <2>2 DEF Settle, RevInv
<1>3. CASE FailPush(p) \/ LosePush(p)
  <2>1. used'.rev = used.rev /\ UNCHANGED <<local, shared>>
    BY <1>0, <1>3 DEF FailPush, LosePush, Spend
  <2>2. PICK r : push' = [push EXCEPT ![p] = r] /\ r.doc \in {NoCopy, local[On[p]]}
    <3>1. IdlePush.doc = NoCopy
      BY DEF IdlePush
    <3>2. QED
      BY <1>0, <1>3, <3>1, ReadsCopy DEF FailPush, LosePush, PushTo
  <2>3. QED
    BY <1>0, <2>1, <2>2 DEF RevInv, Has
<1>4. CASE BeginPush(p) \/ CallPurge(p) \/ ClearPurge(p) \/ CallDelete(p) \/ ClearDelete(p)
  <2>1. UNCHANGED <<local, used, shared>>
    BY <1>4 DEF BeginPush, CallPurge, ClearPurge, CallDelete, ClearDelete
  <2>2. PICK r : push' = [push EXCEPT ![p] = r] /\ r.doc \in {NoCopy, local[On[p]]}
    <3>1. \A pc : At(pc).doc = NoCopy
      BY DEF At, IdlePush
    <3>2. QED
      BY <1>0, <1>4, <3>1, ReadsCopy
      DEF BeginPush, CallPurge, ClearPurge, CallDelete, ClearDelete, PushTo
  <2>3. QED
    BY <1>0, <2>1, <2>2 DEF RevInv, Has
<1>5. QED
  BY <1>1, <1>2, <1>3, <1>4 DEF PushStep

LEMMA PullRev ==
  ASSUME TypeOK, SharedInv, RevInv, NEW q \in Puller, PullStep(q) \/ FailPull(q)
  PROVE  RevInv'
<1>0. /\ On[q] \in Machine
      /\ pull[q].row \in Row \cup {NoRow}
      /\ local \in [Machine -> Copy \cup {NoCopy}]
      /\ used \in [{"rev", "forgets", "others", "lost"} -> Nat]
  BY DocSyncAssumption DEF TypeOK, PullTypeOK, StoreTypeOK
<1>1. CASE Apply(q) \/ ApplyOnly(q)
  <2> DEFINE m == On[q]  r == pull[q].row
  <2>1. r # NoRow => Pulled(r).rev <= used.rev
    BY DEF SharedInv, RevInv, Pulled
  <2>2. AfterDeletion(m, pull[q].del) # NoCopy
        => Has(m) /\ AfterDeletion(m, pull[q].del).rev = local[m].rev
    BY <1>0 DEF AfterDeletion, Has, Copy
  <2>3. Has(m)' => local'[m].rev <= used.rev
    BY <1>0, <1>1, <2>1, <2>2 DEF Apply, ApplyOnly, Applied, SetLocal, Has, RevInv
  <2>4. \A x \in Machine \ {m} : local'[x] = local[x]
    BY <1>0, <1>1 DEF Apply, ApplyOnly, SetLocal
  <2>5. UNCHANGED <<push, shared>> /\ used'.rev = used.rev
    BY <1>0, <1>1 DEF Apply, ApplyOnly, Spend
  <2>6. QED
    BY <2>3, <2>4, <2>5 DEF RevInv, Has
<1>2. CASE DropMoved(q)
  BY <1>0, <1>2 DEF DropMoved, SetLocal, RevInv, Has
<1>3. CASE FailMoveCheck(q) \/ FailFetch(q) \/ FailApply(q) \/ LosePull(q)
  <2>1. used'.rev = used.rev /\ UNCHANGED <<local, push, shared>>
    BY <1>0, <1>3 DEF FailMoveCheck, FailFetch, FailApply, LosePull, Spend
  <2>2. QED
    BY <2>1 DEF RevInv, Has
<1>4. CASE BeginPull(q) \/ LookUp(q) \/ Fetch(q) \/ HookFetch(q)
  BY <1>4 DEF BeginPull, LookUp, Fetch, HookFetch, RevInv, Has
<1>5. QED
  BY <1>1, <1>2, <1>3, <1>4 DEF PullStep, FailPull

LEMMA RevStep == TypeOK /\ SharedInv /\ RevInv /\ [Next]_vars => RevInv'
<1> SUFFICES ASSUME TypeOK, SharedInv, RevInv, [Next]_vars PROVE RevInv'
  OBVIOUS
<1>1. CASE Moved
  <2>1. used'.rev = used.rev
    BY <1>1 DEF Moved, Spend, TypeOK
  <2>2. QED
    BY <1>1, <2>1 DEF Moved, RevInv, Has
<1>2. CASE Tick \/ UNCHANGED vars
  BY <1>2 DEF Tick, vars, RevInv, Has
<1>3. QED
  BY <1>1, <1>2, UserRev, PushRev, PullRev DEF Next

-----------------------------------------------------------------------------
\* What a purge leaves at the service, and when: an entry on the feed means the
\* id is closed, and a closed id has no row.
PurgedInv ==
  /\ 0 < clock /\ purgedAt <= clock
  /\ purgedAt # 0 => IsPurged
  /\ IsPurged => row = NoRow
  /\ \A q \in Puller : pull[q].del = "purge" => IsPurged
  /\ \A m \in Machine : since[m] <= clock
  /\ \A q \in Puller : pull[q].whole => pull[q].start <= clock

\* The id is never opened again.
LEMMA StaysPurged == TypeInv /\ PurgedInv /\ [Next]_vars /\ IsPurged => IsPurged'
<1> SUFFICES ASSUME TypeInv, PurgedInv, [Next]_vars, IsPurged PROVE IsPurged'
  OBVIOUS
<1>1. \A u \in User : Purge(u, clock) => IsPurged'
  BY DEF Purge, IsPurged, PurgedInv
<1>2. \A m \in Machine : UserStep(m) => UNCHANGED closedAt
  BY DEF UserStep, Edit, Forget, AskPurge, Note, AskRestore, Restore, serviceVars
<1>3. \A q \in Puller : PullStep(q) \/ FailPull(q) => UNCHANGED closedAt
  BY PullFrame
<1>4. \A p \in Pusher : PushStep(p) \/ FailPush(p) \/ LosePush(p) => UNCHANGED closedAt \/ CallPurge(p)
  BY DEF PushStep, BeginPush, ClearPurge, CallDelete, ClearDelete, CallUpsert, Settle,
         FailPush, LosePush, Delete, Upsert, serviceVars
<1>5. \A p \in Pusher : CallPurge(p) => IsPurged'
  BY <1>1, ServiceDocumentAssumption, DocSyncAssumption DEF CallPurge
<1>6. CASE Moved \/ Tick \/ UNCHANGED vars
  BY <1>6 DEF Moved, MoveAway, Tick, vars, serviceVars, IsPurged
<1>7. QED
  BY <1>2, <1>3, <1>4, <1>5, <1>6 DEF Next, IsPurged

\* A purge's entry is on the feed of its own second, or of an earlier one.
LEMMA PurgePurges ==
  ASSUME TypeInv, PurgedInv, NEW u \in User, Purge(u, clock)
  PROVE  /\ purgedAt' \in {purgedAt, clock}
         /\ purgedAt' # 0 => IsPurged'
         /\ IsPurged' => row' = NoRow
<1>1. purgedAt' \in {purgedAt, clock} /\ closedAt \in Nat /\ clock \in Nat
  BY DEF Purge, TypeInv, TypeOK, ServiceTypeOK
<1>2. purgedAt' # 0 => IsPurged'
  BY <1>1 DEF Purge, IsPurged, PurgedInv
<1>3. IsPurged' => row' = NoRow
  <2>1. CASE row # NoRow /\ row.owner # u
    BY <2>1 DEF Purge, IsPurged, PurgedInv
  <2>2. CASE ~(row # NoRow /\ row.owner # u)
    BY <2>2 DEF Purge
  <2>3. QED
    BY <2>1, <2>2
<1>4. QED
  BY <1>1, <1>2, <1>3

\* What a pull knows once it has read a page.
LEMMA PageRead ==
  ASSUME TypeOK, NEW q \in Puller, Fetch(q) \/ HookFetch(q)
  PROVE  \E r \in Pull :
           /\ pull' = [pull EXCEPT ![q] = r]
           /\ r.pc = "apply" /\ r.row \in {row, NoRow}
           /\ r.del = "purge" => purgedAt # 0
           /\ r.whole => /\ pull[q].whole /\ r.start = pull[q].start /\ pull[q].pc = "fetch"
                         /\ purgedAt # 0 /\ purgedAt >= pull[q].from => r.del = "purge"
<1>0. /\ pull[q] \in Pull /\ IdlePull \in Pull /\ ~IdlePull.whole
      /\ On[q] \in Machine /\ since[On[q]] \in Nat
      /\ ServiceTypeOK /\ StoreTypeOK
  BY DocSyncAssumption DEF TypeOK, PullTypeOK, Pull, IdlePull, PullPC, StoreTypeOK
<1>1. \A m, from, ownToo :
        /\ Page(m, from, ownToo).row \in {row, NoRow}
        /\ Page(m, from, ownToo).del = "purge" <=> purgedAt # 0 /\ purgedAt >= from
  BY DEF Page
<1>2. \A x \in Pull : \A page :
        /\ WithPage(x, page).del = page.del /\ WithPage(x, page).row = page.row
        /\ WithPage(x, page).whole = x.whole /\ WithPage(x, page).start = x.start
        /\ WithPage(x, page).pc = "apply"
  BY DEF WithPage, Pull
<1>3. CASE Fetch(q)
  <2> DEFINE page == Page(On[q], pull[q].from, pull[q].from = 0)
             r == WithPage(pull[q], page)
  <2>1. pull[q].from \in Nat /\ (pull[q].from = 0) \in BOOLEAN
    BY <1>0 DEF Pull
  <2>2. r \in Pull
    BY <1>0, <2>1, PageType
  <2>3. page.row \in {row, NoRow} /\ (page.del = "purge" <=> purgedAt # 0 /\ purgedAt >= pull[q].from)
    BY <1>1
  <2>4. pull' = [pull EXCEPT ![q] = r] /\ pull[q].pc = "fetch"
    BY <1>3 DEF Fetch
  <2> HIDE DEF page
  <2>5. /\ r.del = page.del /\ r.row = page.row /\ r.whole = pull[q].whole
        /\ r.start = pull[q].start /\ r.pc = "apply"
    BY <1>0, <1>2
  <2> HIDE DEF r
  <2>6. QED
    BY <2>2, <2>3, <2>4, <2>5
<1>4. CASE HookFetch(q)
  <2> DEFINE page == Page(On[q], since[On[q]], FALSE)
             r == WithPage(IdlePull, page)
  <2>1. FALSE \in BOOLEAN
    OBVIOUS
  <2>2. r \in Pull
    BY <1>0, <2>1, PageType
  <2>3. page.row \in {row, NoRow} /\ (page.del = "purge" => purgedAt # 0)
    BY <1>1
  <2>4. pull' = [pull EXCEPT ![q] = r]
    BY <1>4 DEF HookFetch
  <2> HIDE DEF page
  <2>5. /\ r.del = page.del /\ r.row = page.row /\ ~r.whole
        /\ r.pc = "apply"
    BY <1>0, <1>2
  <2> HIDE DEF r
  <2>6. QED
    BY <2>2, <2>3, <2>4, <2>5
<1>5. QED
  BY <1>3, <1>4

LEMMA PurgedStep == TypeInv /\ PurgedInv /\ [Next]_vars => PurgedInv'
<1> SUFFICES ASSUME TypeInv, PurgedInv, [Next]_vars PROVE PurgedInv'
  OBVIOUS
<1>0. /\ clock \in Nat /\ OVERLAP \in Nat
      /\ pull \in [Puller -> Pull] /\ since \in [Machine -> Nat]
      /\ On \in [Pusher \cup Puller -> Machine] /\ UserOf \in [Machine -> User]
  BY ServiceDocumentAssumption, DocSyncAssumption
  DEF TypeInv, TypeOK, PullTypeOK, Pull, StoreTypeOK
<1>a. IsPurged => IsPurged'
  BY StaysPurged
<1>1. ASSUME NEW m \in Machine, UserStep(m) PROVE PurgedInv'
  <2>1. UNCHANGED <<clock, purgedAt, closedAt, since, pull>>
    BY <1>1 DEF UserStep, Edit, Forget, AskPurge, Note, AskRestore, Restore, serviceVars
  <2>2. row' = row \/ ~IsPurged
    BY <1>1 DEF UserStep, Edit, Forget, AskPurge, Note, AskRestore, Restore, serviceVars
  <2>3. QED
    BY <2>1, <2>2 DEF PurgedInv, IsPurged
<1>2. ASSUME NEW p \in Pusher, PushStep(p) \/ FailPush(p) \/ LosePush(p)
      PROVE  PurgedInv'
  <2>1. UNCHANGED <<clock, since, pull>>
    BY <1>2 DEF PushStep, BeginPush, CallPurge, ClearPurge, CallDelete, ClearDelete,
                CallUpsert, Settle, FailPush, LosePush
  <2>2. CASE CallPurge(p)
    <3>1. UserOf[On[p]] \in User /\ Purge(UserOf[On[p]], clock)
      BY <1>0, <2>2 DEF CallPurge
    <3>2. /\ purgedAt' \in {purgedAt, clock}
          /\ purgedAt' # 0 => IsPurged'
          /\ IsPurged' => row' = NoRow
      BY <3>1, PurgePurges
    <3>3. QED
      BY <1>0, <1>a, <2>1, <3>2 DEF PurgedInv
  <2>3. CASE ~CallPurge(p)
    <3>1. UNCHANGED <<purgedAt, closedAt>>
      BY <1>2, <2>3 DEF PushStep, BeginPush, ClearPurge, CallDelete, ClearDelete, CallUpsert,
                  Settle, FailPush, LosePush, Delete, Upsert, serviceVars
    <3>2. row' \in {row, NoRow} \/ ~IsPurged
      BY <1>2, <2>3 DEF PushStep, BeginPush, ClearPurge, CallDelete, ClearDelete, CallUpsert,
                  Settle, FailPush, LosePush, Delete, Upsert, serviceVars
    <3>3. QED
      BY <2>1, <3>1, <3>2 DEF PurgedInv, IsPurged
  <2>4. QED
    BY <2>2, <2>3
<1>3. ASSUME NEW q \in Puller, PullStep(q) \/ FailPull(q) PROVE PurgedInv'
  <2>0. pull[q] \in Pull /\ On[q] \in Machine
    BY <1>0
  <2>1. UNCHANGED <<clock, purgedAt, closedAt, row>>
    BY <1>3, PullFrame
  <2>2. \A m \in Machine : since'[m] <= clock
    <3>1. CASE Apply(q) \/ FailFetch(q) \/ FailApply(q)
      <4>1. pull[q].whole => pull[q].start - OVERLAP <= clock
        BY <1>0, <2>0 DEF PurgedInv, Pull
      <4>2. FailFetch(q) \/ FailApply(q) => pull[q].whole
        BY DEF FailFetch, FailApply, TypeInv, Timing
      <4>3. since' = [since EXCEPT ![On[q]] = IF pull[q].whole THEN PullPoint(q) ELSE @]
        BY <3>1, <4>2 DEF Apply, FailFetch, FailApply, PassOver
      <4>4. QED
        BY <1>0, <4>1, <4>3 DEF PullPoint, PurgedInv
    <3>2. CASE ~(Apply(q) \/ FailFetch(q) \/ FailApply(q))
      <4>1. UNCHANGED since
        BY <1>3, <3>2, PullPointMoves
      <4>2. QED
        BY <4>1 DEF PurgedInv
    <3>3. QED
      BY <3>1, <3>2
  <2>3. PICK r : /\ pull' = [pull EXCEPT ![q] = r]
                 /\ r.del = "purge" => IsPurged
                 /\ r.whole => r.start <= clock
    <3>0. IdlePull \in Pull /\ IdlePull.del # "purge" /\ ~IdlePull.whole
      BY DEF IdlePull, Pull, PullPC
    <3>1. CASE BeginPull(q)
      <4> DEFINE r == [IdlePull EXCEPT
                !.pc = IF Has(On[q]) /\ ~local[On[q]].dirty THEN "lookup" ELSE "fetch",
                !.whole = TRUE, !.start = clock, !.from = since[On[q]]]
      <4>1. r.start = clock /\ r.del = "none"
        BY DEF IdlePull
      <4>2. pull' = [pull EXCEPT ![q] = r]
        BY <3>1 DEF BeginPull
      <4> HIDE DEF r
      <4>3. r.start <= clock /\ r.del # "purge"
        BY <1>0, <4>1
      <4>4. QED
        BY <4>2, <4>3
    <3>2. CASE LookUp(q) \/ DropMoved(q) \/ FailMoveCheck(q)
      <4>1. \A pc : /\ [pull[q] EXCEPT !.pc = pc].del = pull[q].del
                    /\ [pull[q] EXCEPT !.pc = pc].whole = pull[q].whole
                    /\ [pull[q] EXCEPT !.pc = pc].start = pull[q].start
        BY <2>0 DEF Pull
      <4>2. PICK pc : pull' = [pull EXCEPT ![q] = [pull[q] EXCEPT !.pc = pc]]
        <5>1. \A pc : PullTo(q, pc) => pull' = [pull EXCEPT ![q] = [pull[q] EXCEPT !.pc = pc]]
          BY DEF PullTo
        <5>2. QED
          BY <3>2, <5>1 DEF LookUp, DropMoved, FailMoveCheck
      <4>3. QED
        BY <4>1, <4>2 DEF PurgedInv
    <3>3. CASE Fetch(q) \/ HookFetch(q)
      <4>1. PICK r \in Pull :
              /\ pull' = [pull EXCEPT ![q] = r]
              /\ r.del = "purge" => purgedAt # 0
              /\ r.whole => pull[q].whole /\ r.start = pull[q].start
        BY <3>3, PageRead DEF TypeInv
      <4>2. QED
        BY <4>1 DEF PurgedInv
    <3>4. CASE Apply(q) \/ FailFetch(q) \/ FailApply(q) \/ ApplyOnly(q) \/ LosePull(q)
      BY <3>0, <3>4 DEF Apply, FailFetch, FailApply, ApplyOnly, LosePull
    <3>5. QED
      BY <1>3, <3>1, <3>2, <3>3, <3>4 DEF PullStep, FailPull
  <2>4. QED
    BY <1>0, <2>1, <2>2, <2>3 DEF PurgedInv, IsPurged
<1>4. CASE Moved
  BY <1>4 DEF Moved, MoveAway, PurgedInv, IsPurged
<1>5. CASE Tick
  <2>1. clock' = clock + 1 /\ UNCHANGED <<row, purgedAt, closedAt, since, pull>>
    BY <1>5 DEF Tick, serviceVars
  <2>2. purgedAt \in Nat /\ \A q \in Puller : pull[q].start \in Nat
    BY <1>0 DEF TypeInv, TypeOK, ServiceTypeOK, Pull
  <2>3. QED
    BY <1>0, <2>1, <2>2 DEF PurgedInv, IsPurged
<1>6. CASE UNCHANGED vars
  BY <1>6 DEF vars, PurgedInv, IsPurged
<1>7. QED
  BY <1>1, <1>2, <1>3, <1>4, <1>5, <1>6 DEF Next

-----------------------------------------------------------------------------
\* Every step that changes a copy with unpushed edits is one of the four kinds
\* UnpushedEditKept allows.
LEMMA KeptStep ==
  ASSUME TypeOK, SharedInv, RevInv, PurgedInv, [Next]_vars,
         NEW m \in Machine, Unpushed(m), local'[m] # local[m]
  PROVE  \/ asked'[m] # "nothing" /\ asked[m] = "nothing"
         \/ IsPurged
         \/ \E q \in Puller : On[q] = m /\ DropMoved(q)
         \/ /\ local'[m] # NoCopy
            /\ \/ local'[m].dirty /\ ~local'[m].gone /\ local'[m].rev >= local[m].rev
               \/ local'[m].rev = local[m].rev /\ local[m].rev \in shared
<1>0. /\ local \in [Machine -> Copy \cup {NoCopy}]
      /\ local[m] \in Copy /\ local[m] # NoCopy /\ local[m].dirty /\ ~local[m].gone
      /\ asked \in [Machine -> Ask]
      /\ On \in [Pusher \cup Puller -> Machine]
      /\ used.rev \in Nat /\ local[m].rev \in Nat
  BY DocSyncAssumption DEF TypeOK, StoreTypeOK, Unpushed, Has, Copy
<1>1. CASE \E x \in Machine : UserStep(x)
  <2>1. PICK x \in Machine : UserStep(x)
    BY <1>1
  <2>2. x = m
    BY <1>0, <2>1
    DEF UserStep, Edit, Forget, AskPurge, Note, AskRestore, SetLocal
  <2>3. CASE Edit(m)
    <3>1. local'[m] = [local[m] EXCEPT !.rev = used.rev + 1, !.upd = clock, !.dirty = TRUE,
                                       !.refused = FALSE]
      BY <1>0, <2>3 DEF Edit, SetLocal
    <3>2. local'[m].rev = used.rev + 1 /\ local'[m].dirty /\ ~local'[m].gone
      BY <1>0, <3>1 DEF Copy
    <3>3. local'[m] \in Copy
      <4>1. \A n \in Nat : \A t \in Nat :
              [local[m] EXCEPT !.rev = n, !.upd = t, !.dirty = TRUE, !.refused = FALSE] \in Copy
        BY <1>0, Zenon DEF Copy
      <4>2. used.rev + 1 \in Nat /\ clock \in Nat
        BY <1>0 DEF TypeOK
      <4>3. QED
        BY <3>1, <4>1, <4>2, Zenon
    <3>4. local[m].rev <= used.rev
      BY <1>0 DEF RevInv, Has
    <3>5. QED
      BY <1>0, <3>2, <3>3, <3>4, NoCopyAssumption
  <2>4. CASE Forget(m) \/ AskPurge(m)
    BY <1>0, <2>4 DEF Forget, AskPurge
  <2>5. CASE Note(m) \/ AskRestore(m)
    BY <2>5 DEF Note, AskRestore
  <2>6. QED
    BY <2>1, <2>2, <2>3, <2>4, <2>5 DEF UserStep
<1>2. CASE \E p \in Pusher : PushStep(p) \/ FailPush(p) \/ LosePush(p)
  <2>1. PICK p \in Pusher : Settle(p) /\ On[p] = m
    <3>1. PICK p \in Pusher : PushStep(p) \/ FailPush(p) \/ LosePush(p)
      BY <1>2
    <3>2. Settle(p)
      BY <3>1 DEF PushStep, BeginPush, CallPurge, ClearPurge, CallDelete, ClearDelete,
                  CallUpsert, FailPush, LosePush
    <3>3. On[p] = m
      BY <1>0, <3>2 DEF Settle, SetLocal
    <3>4. QED
      BY <3>2, <3>3
  <2>2. Unchanged(m, push[p].doc)
    BY <2>1 DEF Settle
  <2>3. local'[m] = [local[m] EXCEPT !.dirty = ~push[p].ok, !.refused = ~push[p].ok]
    BY <1>0, <2>1, <2>2 DEF Settle, SetLocal
  <2>4. push[p].ok \in BOOLEAN
    BY DEF TypeOK, PushTypeOK
  <2>5. /\ local'[m] \in Copy /\ local'[m].rev = local[m].rev
        /\ ~local'[m].gone /\ (local'[m].dirty <=> ~push[p].ok)
    BY <1>0, <2>3, <2>4 DEF Copy
  <2>6. push[p].ok => local[m].rev \in shared
    BY <2>1, <2>2 DEF Settle, SharedInv, Unchanged
  <2>7. QED
    BY <1>0, <2>5, <2>6, NoCopyAssumption
<1>3. CASE \E q \in Puller : PullStep(q) \/ FailPull(q)
  <2>1. PICK q \in Puller : (Apply(q) \/ ApplyOnly(q) \/ DropMoved(q)) /\ On[q] = m
    <3>1. PICK q \in Puller : PullStep(q) \/ FailPull(q)
      BY <1>3
    <3>2. CASE Apply(q) \/ ApplyOnly(q)
      BY <1>0, <3>2 DEF Apply, ApplyOnly, SetLocal
    <3>3. CASE ~Apply(q) /\ ~ApplyOnly(q)
      BY <3>1, <3>3, PullDrops DEF TypeOK
    <3>4. QED
      BY <3>2, <3>3
  <2>2. CASE Apply(q) \/ ApplyOnly(q)
    <3> DEFINE r == pull[q].row
    <3>1. ~Replaces(r, m)
      BY <1>0 DEF Replaces, Has
    <3>2. r = NoRow /\ local'[m] = AfterDeletion(m, pull[q].del)
      BY <1>0, <2>1, <2>2, <3>1 DEF Apply, ApplyOnly, Applied, SetLocal
    <3>3. pull[q].del = "purge"
      BY <3>2, Zenon DEF AfterDeletion, Unpushed
    <3>4. QED
      BY <3>3 DEF PurgedInv
  <2>3. QED
    BY <2>1, <2>2
<1>4. CASE Moved \/ Tick \/ UNCHANGED vars
  BY <1>4 DEF Moved, Tick, vars
<1>5. QED
  BY <1>1, <1>2, <1>3, <1>4 DEF Next

\* Unpushed work leaves a machine's store only in the ways its users ask for.
THEOREM WorkIsKept == Spec => UnpushedEditKept
<1> DEFINE Kept(m) == Unpushed(m) /\ local'[m] # local[m] =>
       \/ asked'[m] # "nothing" /\ asked[m] = "nothing"
       \/ IsPurged
       \/ \E q \in Puller : On[q] = m /\ DropMoved(q)
       \/ /\ local'[m] # NoCopy
          /\ \/ local'[m].dirty /\ ~local'[m].gone /\ local'[m].rev >= local[m].rev
             \/ local'[m].rev = local[m].rev /\ local[m].rev \in shared
<1>1. Init => TypeInv /\ SharedInv /\ RevInv /\ PurgedInv
  <2>1. Init => SharedInv
    BY DEF Init, ServiceInit, SharedInv, CleanWasShared, Has, Fresh, IdlePush, IdlePull
  <2>2. Init => RevInv
    BY DEF Init, RevInv, Has, Fresh, IdlePush
  <2>3. Init => PurgedInv
    BY DocSyncAssumption DEF Init, ServiceInit, PurgedInv, IsPurged, IdlePull
  <2>4. QED
    BY <2>1, <2>2, <2>3, TypeInit
<1>2. TypeInv /\ SharedInv /\ RevInv /\ PurgedInv /\ [Next]_vars
      => (TypeInv /\ SharedInv /\ RevInv /\ PurgedInv)'
  <2>1. TypeInv => TypeOK
    BY DEF TypeInv
  <2>2. QED
    BY <2>1, TypeStep, SharedStep, RevStep, PurgedStep
<1>3. TypeInv /\ SharedInv /\ RevInv /\ PurgedInv /\ [Next]_vars
      => [\A m \in Machine : Kept(m)]_vars
  BY KeptStep DEF TypeInv
<1> HIDE DEF Kept
<1>4. Spec => [][\A m \in Machine : Kept(m)]_vars
  BY <1>1, <1>2, <1>3, PTL DEF Spec
<1>5. QED
  BY <1>4 DEF UnpushedEditKept, Kept

-----------------------------------------------------------------------------
\* No full pull begins while another pull of the same machine still holds a page
\* it has read and not applied.
NoStalePage ==
  \A q, x \in Puller : BeginPull(q) /\ On[x] = On[q] => pull[x].pc # "apply"

\* A pull that began after the purge will see its entry or found no copy, and a
\* page that still shows the row was read before any such pull began.
ReachInv ==
  /\ \A m \in Machine : Passed(m, since[m]) => ~Has(m)
  /\ \A q \in Puller : pull[q].row # NoRow => pull[q].pc = "apply"
  /\ \A q \in Puller :
       pull[q].whole /\ Passed(On[q], pull[q].start) =>
         \/ ~Has(On[q])
         \/ pull[q].pc # "apply" /\ pull[q].from <= purgedAt
         \/ pull[q].pc = "apply" /\ pull[q].row = NoRow /\ pull[q].del = "purge"
  /\ \A q \in Puller : pull[q].row # NoRow => ~Passed(On[q], since[On[q]])
  /\ \A q, x \in Puller :
       pull[q].row # NoRow /\ On[x] = On[q] /\ pull[x].whole => ~Passed(On[x], pull[x].start)

\* A step of a user or of a push gives no machine a copy it did not have, and a
\* purge it records is newer than every pull point.
LEMMA QuietReach ==
  ASSUME TypeInv, PurgedInv, ReachInv, UNCHANGED <<since, pull, missed>>,
         \A m \in Machine : Has(m)' => Has(m), purgedAt' \in {purgedAt, clock}
  PROVE  ReachInv'
<1>0. /\ clock \in Nat /\ purgedAt \in Nat
      /\ On \in [Pusher \cup Puller -> Machine]
      /\ since \in [Machine -> Nat]
      /\ pull \in [Puller -> Pull]
  BY DocSyncAssumption DEF TypeInv, TypeOK, ServiceTypeOK, StoreTypeOK, PullTypeOK, Pull
<1>1. CASE purgedAt' = purgedAt
  BY <1>0, <1>1 DEF ReachInv, Passed
<1>2. CASE purgedAt' = clock
  <2>1. \A m \in Machine, t \in Nat : t <= clock => ~Passed(m, t)'
    BY <1>0, <1>2 DEF Passed
  <2>2. \A m \in Machine : ~Passed(m, since[m])'
    BY <1>0, <2>1 DEF PurgedInv
  <2>3. \A q \in Puller : pull[q].whole => ~Passed(On[q], pull[q].start)'
    BY <1>0, <2>1 DEF PurgedInv, Pull
  <2>4. QED
    BY <1>0, <2>2, <2>3 DEF ReachInv
<1>3. QED
  BY <1>1, <1>2

LEMMA QuietStep ==
  ASSUME TypeInv, PurgedInv,
         \/ \E m \in Machine : UserStep(m)
         \/ \E p \in Pusher : PushStep(p) \/ FailPush(p) \/ LosePush(p)
         \/ Moved \/ Tick \/ UNCHANGED vars
  PROVE  /\ UNCHANGED <<since, pull, missed>>
         /\ \A m \in Machine : Has(m)' => Has(m)
         /\ purgedAt' \in {purgedAt, clock}
<1>0. /\ local \in [Machine -> Copy \cup {NoCopy}]
      /\ On \in [Pusher \cup Puller -> Machine] /\ UserOf \in [Machine -> User]
  BY ServiceDocumentAssumption, DocSyncAssumption DEF TypeInv, TypeOK, StoreTypeOK
<1>1. ASSUME NEW x \in Machine, UserStep(x)
      PROVE  /\ UNCHANGED <<since, pull, missed, purgedAt>>
             /\ \A m \in Machine : Has(m)' => Has(m)
  <2>1. UNCHANGED <<since, pull, missed, purgedAt>>
    BY <1>1 DEF UserStep, Edit, Forget, AskPurge, Note, AskRestore, Restore, serviceVars
  <2>2. \A m \in Machine : Has(m)' => Has(m)
    <3>1. CASE Edit(x)
      BY <1>0, <3>1 DEF Edit, SetLocal, Has
    <3>2. CASE ~Edit(x)
      BY <1>0, <1>1, <3>2 DEF UserStep, Forget, AskPurge, Note, AskRestore, SetLocal, Has
    <3>3. QED
      BY <3>1, <3>2
  <2>3. QED
    BY <2>1, <2>2
<1>2. ASSUME NEW p \in Pusher, PushStep(p) \/ FailPush(p) \/ LosePush(p)
      PROVE  /\ UNCHANGED <<since, pull, missed>>
             /\ \A m \in Machine : Has(m)' => Has(m)
             /\ purgedAt' \in {purgedAt, clock}
  <2>1. UNCHANGED <<since, pull, missed>>
    BY <1>2 DEF PushStep, BeginPush, CallPurge, ClearPurge, CallDelete, ClearDelete,
                CallUpsert, Settle, FailPush, LosePush
  <2>2. \A m \in Machine : Has(m)' => Has(m)
    BY <1>0, <1>2
    DEF PushStep, BeginPush, CallPurge, ClearPurge, CallDelete, ClearDelete, CallUpsert,
        Settle, FailPush, LosePush, SetLocal, Unchanged, Has
  <2>3. CASE CallPurge(p)
    <3>1. UserOf[On[p]] \in User /\ Purge(UserOf[On[p]], clock)
      BY <1>0, <2>3 DEF CallPurge
    <3>2. QED
      BY <2>1, <2>2, <3>1, PurgePurges
  <2>4. CASE ~CallPurge(p)
    <3>1. UNCHANGED purgedAt
      BY <1>2, <2>4 DEF PushStep, BeginPush, ClearPurge, CallDelete, ClearDelete, CallUpsert,
                  Settle, FailPush, LosePush, Delete, Upsert, serviceVars
    <3>2. QED
      BY <2>1, <2>2, <3>1
  <2>5. QED
    BY <2>3, <2>4
<1>3. CASE Moved \/ Tick \/ UNCHANGED vars
  BY <1>3 DEF Moved, MoveAway, Tick, vars, serviceVars, Has
<1>4. QED
  BY <1>1, <1>2, <1>3

\* A pull that moves on without touching the store or the pull point: what the
\* invariant asks is asked of that pull alone.
LEMMA PullReach ==
  ASSUME TypeInv, ReachInv, NEW q \in Puller, NEW r \in Pull,
         pull' = [pull EXCEPT ![q] = r],
         UNCHANGED <<since, purgedAt, missed>>,
         \A m \in Machine : Has(m)' => Has(m),
         r.row # NoRow => r.pc = "apply",
         r.whole /\ Passed(On[q], r.start) =>
           \/ ~Has(On[q])
           \/ r.pc # "apply" /\ r.from <= purgedAt
           \/ r.pc = "apply" /\ r.row = NoRow /\ r.del = "purge",
         r.row # NoRow => purgedAt = 0 \/ r.row = pull[q].row,
         r.whole => \/ pull[q].whole /\ r.start = pull[q].start
                    \/ \A x \in Puller : On[x] = On[q] => pull[x].row = NoRow
  PROVE  ReachInv'
<1>0. /\ On \in [Pusher \cup Puller -> Machine] /\ pull \in [Puller -> Pull]
      /\ purgedAt \in Nat
  BY DocSyncAssumption DEF TypeInv, TypeOK, ServiceTypeOK, PullTypeOK, Pull
<1>1. pull'[q] = r /\ \A x \in Puller \ {q} : pull'[x] = pull[x]
  BY <1>0
<1>2. purgedAt' = purgedAt /\ since' = since /\ missed' = missed
  OBVIOUS
<1>3. \A m \in Machine : Passed(m, since[m])' => ~Has(m)'
  BY <1>2 DEF ReachInv, Passed
<1>4. \A x \in Puller : pull'[x].row # NoRow => pull'[x].pc = "apply"
  BY <1>1 DEF ReachInv
<1>5. \A x \in Puller :
        (pull[x].whole /\ Passed(On[x], pull[x].start) =>
           \/ ~Has(On[x])
           \/ pull[x].pc # "apply" /\ pull[x].from <= purgedAt
           \/ pull[x].pc = "apply" /\ pull[x].row = NoRow /\ pull[x].del = "purge")'
  <2> SUFFICES ASSUME NEW x \in Puller, pull'[x].whole, Passed(On[x], pull[x].start)'
               PROVE  \/ ~Has(On[x])'
                      \/ pull'[x].pc # "apply" /\ pull'[x].from <= purgedAt
                      \/ pull'[x].pc = "apply" /\ pull'[x].row = NoRow /\ pull'[x].del = "purge"
    BY <1>2
  <2>0. On[x] \in Machine
    BY <1>0
  <2>1. CASE x = q
    BY <1>1, <1>2, <2>0, <2>1 DEF Passed
  <2>2. CASE x # q
    BY <1>1, <1>2, <2>0, <2>2 DEF ReachInv, Passed
  <2>3. QED
    BY <2>1, <2>2
<1>6. \A x \in Puller : (pull[x].row # NoRow => ~Passed(On[x], since[On[x]]))'
  <2> SUFFICES ASSUME NEW x \in Puller, pull'[x].row # NoRow
               PROVE  ~Passed(On[x], since[On[x]])'
    OBVIOUS
  <2>1. CASE purgedAt = 0
    BY <1>2, <2>1 DEF Passed
  <2>2. CASE purgedAt # 0
    <3>1. pull[x].row # NoRow
      BY <1>1, <2>2
    <3>2. QED
      BY <1>2, <3>1 DEF ReachInv, Passed
  <2>3. QED
    BY <2>1, <2>2
<1>7. \A y, x \in Puller :
        (pull[y].row # NoRow /\ On[x] = On[y] /\ pull[x].whole => ~Passed(On[x], pull[x].start))'
  <2> SUFFICES ASSUME NEW y \in Puller, NEW x \in Puller, pull'[y].row # NoRow,
                      On[x] = On[y], pull'[x].whole
               PROVE  ~Passed(On[x], pull[x].start)'
    OBVIOUS
  <2>1. CASE purgedAt = 0
    BY <1>2, <2>1 DEF Passed
  <2>2. CASE purgedAt # 0
    <3>1. pull[y].row # NoRow
      BY <1>1, <2>2
    <3>2. pull[x].whole /\ pull'[x].start = pull[x].start
      BY <1>1, <3>1
    <3>3. ~Passed(On[x], pull[x].start)
      BY <3>1, <3>2 DEF ReachInv
    <3>4. QED
      BY <1>2, <3>2, <3>3 DEF Passed
  <2>3. QED
    BY <2>1, <2>2
<1>8. QED
  BY <1>3, <1>4, <1>5, <1>6, <1>7 DEF ReachInv

LEMMA AppliedReach ==
  ASSUME TypeInv, PurgedInv, ReachInv, NEW q \in Puller, Apply(q) \/ ApplyOnly(q)
  PROVE  ReachInv'
<1> DEFINE m == On[q]  r == pull[q].row
<1>0. /\ m \in Machine /\ r \in Row \cup {NoRow} /\ pull[q].start \in Nat
      /\ pull \in [Puller -> Pull] /\ since \in [Machine -> Nat]
      /\ local \in [Machine -> Copy \cup {NoCopy}]
      /\ purgedAt \in Nat /\ OVERLAP \in Nat
  BY DocSyncAssumption
  DEF TypeInv, TypeOK, StoreTypeOK, ServiceTypeOK, PullTypeOK, Pull
<1>1. /\ pull[q].pc = "apply" /\ pull' = [pull EXCEPT ![q] = IdlePull]
      /\ \/ since' = since
         \/ pull[q].whole /\ since' = [since EXCEPT ![m] = pull[q].start - OVERLAP]
      /\ local' = [local EXCEPT ![m] =
           IF r = NoRow THEN AfterDeletion(m, pull[q].del)
           ELSE IF ~pull[q].tomb /\ Replaces(r, m) THEN Pulled(r) ELSE local[m]]
      /\ purgedAt' = purgedAt /\ missed' = missed
  <2>1. since' = since \/ (pull[q].whole /\ since' = [since EXCEPT ![m] = pull[q].start - OVERLAP])
    <3>1. CASE Apply(q) /\ pull[q].whole
      BY <3>1 DEF Apply, PullPoint
    <3>2. CASE ~(Apply(q) /\ pull[q].whole)
      BY <1>0, <3>2 DEF Apply, ApplyOnly
    <3>3. QED
      BY <3>1, <3>2
  <2>2. QED
    BY <2>1 DEF Apply, ApplyOnly, Applied, SetLocal, serviceVars
<1>2. IdlePull.row = NoRow /\ ~IdlePull.whole
  BY DEF IdlePull
<1>3. /\ pull'[q] = IdlePull /\ \A x \in Puller \ {q} : pull'[x] = pull[x]
      /\ \A x \in Machine \ {m} : since'[x] = since[x] /\ local'[x] = local[x]
  BY <1>0, <1>1
<1>4. since'[m] = since[m] \/ (pull[q].whole /\ since'[m] = pull[q].start - OVERLAP)
  BY <1>0, <1>1
<1>5. Passed(m, since[m])' =>
        Passed(m, since[m]) \/ (pull[q].whole /\ Passed(m, pull[q].start))
  BY <1>0, <1>1, <1>4 DEF Passed
<1>6. r # NoRow => ~Passed(m, since[m])'
  BY <1>0, <1>5 DEF ReachInv
<1>7. r = NoRow /\ (~Has(m) \/ pull[q].del = "purge") => ~Has(m)'
  <2> SUFFICES ASSUME r = NoRow, ~Has(m) \/ pull[q].del = "purge" PROVE ~Has(m)'
    OBVIOUS
  <2>1. local'[m] = AfterDeletion(m, pull[q].del)
    BY <1>0, <1>1
  <2>2. AfterDeletion(m, pull[q].del) = NoCopy
    BY DEF AfterDeletion
  <2>3. QED
    BY <2>1, <2>2 DEF Has
<1>8. Passed(m, since[m])' => ~Has(m)'
  <2> SUFFICES ASSUME Passed(m, since[m])' PROVE ~Has(m)'
    OBVIOUS
  <2>1. r = NoRow
    BY <1>6
  <2>2. ~Has(m) \/ pull[q].del = "purge"
    BY <1>0, <1>1, <1>5 DEF ReachInv
  <2>3. QED
    BY <1>7, <2>1, <2>2
<1>9. \A x \in Machine : Passed(x, since[x])' => ~Has(x)'
  <2> SUFFICES ASSUME NEW x \in Machine, x # m, Passed(x, since[x])' PROVE ~Has(x)'
    BY <1>8
  <2>1. Passed(x, since[x])
    BY <1>1, <1>3 DEF Passed
  <2>2. QED
    BY <1>3, <2>1 DEF ReachInv, Has
\* Another pull of the machine, begun after the purge, sees this one hold no row.
<1>10. \A x \in Puller :
        (pull[x].whole /\ Passed(On[x], pull[x].start) =>
           \/ ~Has(On[x])
           \/ pull[x].pc # "apply" /\ pull[x].from <= purgedAt
           \/ pull[x].pc = "apply" /\ pull[x].row = NoRow /\ pull[x].del = "purge")'
  <2> SUFFICES ASSUME NEW x \in Puller, pull'[x].whole, Passed(On[x], pull[x].start)'
               PROVE  \/ ~Has(On[x])'
                      \/ pull'[x].pc # "apply" /\ pull'[x].from <= purgedAt
                      \/ pull'[x].pc = "apply" /\ pull'[x].row = NoRow /\ pull'[x].del = "purge"
    BY <1>1
  <2>1. x # q /\ pull'[x] = pull[x] /\ Passed(On[x], pull[x].start)
    BY <1>1, <1>2, <1>3 DEF Passed
  <2>2. \/ ~Has(On[x])
        \/ pull'[x].pc # "apply" /\ pull'[x].from <= purgedAt
        \/ pull'[x].pc = "apply" /\ pull'[x].row = NoRow /\ pull'[x].del = "purge"
    BY <2>1 DEF ReachInv
  <2>3. ~Has(On[x]) => ~Has(On[x])'
    <3>1. CASE On[x] = m
      <4>1. r = NoRow
        BY <2>1, <3>1 DEF ReachInv
      <4>2. QED
        BY <1>7, <3>1, <4>1
    <3>2. CASE On[x] # m
      <4>1. On[x] \in Machine
        BY DocSyncAssumption
      <4>2. QED
        BY <1>3, <3>2, <4>1 DEF Has
    <3>3. QED
      BY <3>1, <3>2
  <2>4. QED
    BY <2>2, <2>3
<1>11. \A x \in Puller : (pull[x].row # NoRow =>
                            pull[x].pc = "apply" /\ ~Passed(On[x], since[On[x]]))'
  <2> SUFFICES ASSUME NEW x \in Puller, pull'[x].row # NoRow
               PROVE  pull'[x].pc = "apply" /\ ~Passed(On[x], since[On[x]])'
    OBVIOUS
  <2>1. pull'[x] = pull[x] /\ On[x] \in Machine
    BY <1>2, <1>3, DocSyncAssumption
  <2>2. pull[x].pc = "apply" /\ ~Passed(On[x], since[On[x]])
        /\ (On[x] = m /\ pull[q].whole => ~Passed(On[q], pull[q].start))
    BY <2>1 DEF ReachInv
  <2>3. CASE On[x] = m
    BY <1>5, <2>1, <2>2, <2>3
  <2>4. CASE On[x] # m
    BY <1>1, <1>3, <2>1, <2>2, <2>4 DEF Passed
  <2>5. QED
    BY <2>1, <2>2, <2>3, <2>4
<1>12. \A y, x \in Puller :
        (pull[y].row # NoRow /\ On[x] = On[y] /\ pull[x].whole => ~Passed(On[x], pull[x].start))'
  <2> SUFFICES ASSUME NEW y \in Puller, NEW x \in Puller, pull'[y].row # NoRow,
                      On[x] = On[y], pull'[x].whole
               PROVE  ~Passed(On[x], pull[x].start)'
    OBVIOUS
  <2>1. pull'[y] = pull[y] /\ pull'[x] = pull[x]
    BY <1>2, <1>3
  <2>2. ~Passed(On[x], pull[x].start)
    BY <2>1 DEF ReachInv
  <2>3. QED
    BY <1>1, <2>1, <2>2 DEF Passed
<1>13. QED
  BY <1>9, <1>10, <1>11, <1>12 DEF ReachInv

\* A pull that passes the purge's entry over names it as missed.
LEMMA FailedReach ==
  ASSUME TypeInv, PurgedInv, ReachInv, NEW q \in Puller, FailFetch(q) \/ FailApply(q)
  PROVE  ReachInv'
<1> DEFINE m == On[q]
<1>0. /\ m \in Machine /\ pull[q].start \in Nat /\ pull[q].from \in Nat
      /\ pull \in [Puller -> Pull] /\ since \in [Machine -> Nat]
      /\ missed \in [Machine -> SUBSET Nat]
      /\ purgedAt \in Nat /\ OVERLAP \in Nat
      /\ \A x \in Puller : On[x] \in Machine
  BY DocSyncAssumption
  DEF TypeInv, TypeOK, StoreTypeOK, ServiceTypeOK, PullTypeOK, Pull
<1>1. /\ pull' = [pull EXCEPT ![q] = IdlePull] /\ pull[q].whole
      /\ since' = [since EXCEPT ![m] = pull[q].start - OVERLAP]
      /\ purgedAt' = purgedAt /\ local' = local
  BY DEF FailFetch, FailApply, PassOver, PullPoint, serviceVars, TypeInv, Timing
<1>2. PICK times : missed' = [missed EXCEPT ![m] = @ \cup times]
  BY DEF FailFetch, FailApply, PassOver
<1>3. \A x \in Machine : missed[x] \subseteq missed'[x]
  BY <1>0, <1>2
<1>4. /\ pull'[q] = IdlePull /\ \A x \in Puller \ {q} : pull'[x] = pull[x]
      /\ since'[m] = pull[q].start - OVERLAP /\ \A x \in Machine \ {m} : since'[x] = since[x]
      /\ IdlePull.row = NoRow /\ ~IdlePull.whole
  BY <1>0, <1>1 DEF IdlePull
<1>5. \A x \in Machine, t \in Int : Passed(x, t)' => Passed(x, t)
  BY <1>1, <1>3 DEF Passed
<1>6. Passed(m, since[m])' => Passed(m, pull[q].start)
  BY <1>0, <1>1, <1>3, <1>4 DEF Passed
<1>7. Passed(m, since[m])' => ~Has(m)
  <2> SUFFICES ASSUME Passed(m, since[m])', Has(m) PROVE FALSE
    OBVIOUS
  <2>1. purgedAt # 0 /\ purgedAt \notin missed'[m]
    BY <1>0, <1>1 DEF Passed
  <2>2. \/ pull[q].pc # "apply" /\ pull[q].from <= purgedAt
        \/ pull[q].pc = "apply" /\ pull[q].del = "purge"
    BY <1>1, <1>6 DEF ReachInv
  <2>3. CASE FailFetch(q)
    <3> DEFINE page == Page(On[q], pull[q].from, pull[q].from = 0)
    <3>1. page.del = "purge"
      BY <1>0, <2>1, <2>2, <2>3 DEF FailFetch, Page
    <3>2. missed' = [missed EXCEPT ![m] = @ \cup Times(page.row, page.del)]
      BY <2>3 DEF FailFetch, PassOver
    <3> HIDE DEF page
    <3>3. purgedAt \in Times(page.row, page.del)
      BY <3>1 DEF Times
    <3>4. QED
      BY <1>0, <2>1, <3>2, <3>3
  <2>4. CASE FailApply(q)
    <3>1. missed' = [missed EXCEPT ![m] = @ \cup Times(pull[q].row, pull[q].del)]
      BY <2>4 DEF FailApply, PassOver
    <3>2. purgedAt \in Times(pull[q].row, pull[q].del)
      BY <2>2, <2>4 DEF FailApply, Times
    <3>3. QED
      BY <1>0, <2>1, <3>1, <3>2
  <2>5. QED
    BY <2>3, <2>4
<1>8. \A x \in Machine : (Passed(x, since[x]) => ~Has(x))'
  <2> SUFFICES ASSUME NEW x \in Machine, Passed(x, since[x])' PROVE ~Has(x)'
    OBVIOUS
  <2>1. CASE x = m
    BY <1>1, <1>7, <2>1 DEF Has
  <2>2. CASE x # m
    <3>1. Passed(x, since[x])
      BY <1>1, <1>3, <1>4, <2>2 DEF Passed
    <3>2. QED
      BY <1>1, <3>1 DEF ReachInv, Has
  <2>3. QED
    BY <2>1, <2>2
<1>9. \A x \in Puller :
        (pull[x].whole /\ Passed(On[x], pull[x].start) =>
           \/ ~Has(On[x])
           \/ pull[x].pc # "apply" /\ pull[x].from <= purgedAt
           \/ pull[x].pc = "apply" /\ pull[x].row = NoRow /\ pull[x].del = "purge")'
  <2> SUFFICES ASSUME NEW x \in Puller, pull'[x].whole, Passed(On[x], pull[x].start)'
               PROVE  \/ ~Has(On[x])'
                      \/ pull'[x].pc # "apply" /\ pull'[x].from <= purgedAt
                      \/ pull'[x].pc = "apply" /\ pull'[x].row = NoRow /\ pull'[x].del = "purge"
    BY <1>1
  <2>1. x # q /\ pull'[x] = pull[x]
    BY <1>4
  <2>2. Passed(On[x], pull[x].start)
    BY <1>0, <1>1, <1>3, <2>1 DEF Passed
  <2>3. QED
    BY <1>1, <2>1, <2>2 DEF ReachInv, Has
<1>10. \A x \in Puller : (pull[x].row # NoRow =>
                            pull[x].pc = "apply" /\ ~Passed(On[x], since[On[x]]))'
  <2> SUFFICES ASSUME NEW x \in Puller, pull'[x].row # NoRow
               PROVE  pull'[x].pc = "apply" /\ ~Passed(On[x], since[On[x]])'
    OBVIOUS
  <2>1. pull'[x] = pull[x] /\ On[x] \in Machine
    BY <1>0, <1>4
  <2>2. /\ pull[x].pc = "apply" /\ ~Passed(On[x], since[On[x]])
        /\ On[x] = m => ~Passed(m, pull[q].start)
    BY <1>1, <2>1 DEF ReachInv
  <2>3. CASE On[x] = m
    BY <1>6, <2>1, <2>2, <2>3
  <2>4. CASE On[x] # m
    BY <1>1, <1>3, <1>4, <2>1, <2>2, <2>4 DEF Passed
  <2>5. QED
    BY <2>1, <2>2, <2>3, <2>4
<1>11. \A y, x \in Puller :
        (pull[y].row # NoRow /\ On[x] = On[y] /\ pull[x].whole => ~Passed(On[x], pull[x].start))'
  <2> SUFFICES ASSUME NEW y \in Puller, NEW x \in Puller, pull'[y].row # NoRow,
                      On[x] = On[y], pull'[x].whole
               PROVE  ~Passed(On[x], pull[x].start)'
    OBVIOUS
  <2>1. pull'[y] = pull[y] /\ pull'[x] = pull[x]
    BY <1>4
  <2>2. ~Passed(On[x], pull[x].start)
    BY <2>1 DEF ReachInv
  <2>3. QED
    BY <1>0, <1>1, <1>3, <2>1, <2>2 DEF Passed
<1>12. QED
  BY <1>8, <1>9, <1>10, <1>11 DEF ReachInv

LEMMA ReachStep ==
  TypeInv /\ PurgedInv /\ ReachInv /\ [Next]_vars /\ [NoStalePage]_vars => ReachInv'
<1> SUFFICES ASSUME TypeInv, PurgedInv, ReachInv, [Next]_vars, [NoStalePage]_vars
             PROVE  ReachInv'
  OBVIOUS
<1>1. ASSUME NEW q \in Puller, PullStep(q) \/ FailPull(q),
             ~Apply(q), ~ApplyOnly(q), ~FailFetch(q), ~FailApply(q)
      PROVE  ReachInv'
  <2>0. /\ pull[q] \in Pull /\ IdlePull \in Pull /\ IdlePull.row = NoRow /\ ~IdlePull.whole
        /\ On[q] \in Machine /\ clock \in Nat /\ since \in [Machine -> Nat]
        /\ local \in [Machine -> Copy \cup {NoCopy}] /\ purgedAt \in Nat
    BY DocSyncAssumption
    DEF TypeInv, TypeOK, ServiceTypeOK, StoreTypeOK, PullTypeOK, Pull, IdlePull, PullPC
  <2>1. UNCHANGED <<since, purgedAt, missed>>
    BY <1>1, PullFrame, PullPointMoves
  <2>2. \A m \in Machine : Has(m)' => Has(m)
    <3>1. \A m \in Machine : local'[m] \in {local[m], NoCopy}
      BY <1>1, PullDrops DEF TypeInv, TypeOK
    <3>2. QED
      BY <3>1 DEF Has
  <2>3. CASE BeginPull(q)
    <3> DEFINE r == [IdlePull EXCEPT
                !.pc = IF Has(On[q]) /\ ~local[On[q]].dirty THEN "lookup" ELSE "fetch",
                !.whole = TRUE, !.start = clock, !.from = since[On[q]]]
    <3>1. /\ r.row = NoRow /\ r.pc # "apply" /\ r.start = clock /\ r.from = since[On[q]]
      BY DEF IdlePull
    <3>2. r \in Pull
      BY <2>0 DEF IdlePull, Pull, PullPC
    <3>3. pull' = [pull EXCEPT ![q] = r] /\ NoStalePage
      <4>1. pull[q].pc = "idle" /\ pull' = [pull EXCEPT ![q] = r]
        BY <2>3 DEF BeginPull
      <4> HIDE DEF r
      <4>2. r # pull[q]
        <5>1. r.pc \in {"lookup", "fetch"}
          BY DEF r, IdlePull
        <5>2. QED
          BY <4>1, <5>1
      <4>3. pull' # pull
        BY <4>1, <4>2, <3>2 DEF TypeInv, TypeOK, PullTypeOK
      <4>4. QED
        BY <4>1, <4>3 DEF vars
    <3>4. \A x \in Puller : On[x] = On[q] => pull[x].row = NoRow
      BY <2>3, <3>3 DEF NoStalePage, ReachInv
    <3> HIDE DEF r
    <3>5. Passed(On[q], r.start) => ~Has(On[q]) \/ r.from <= purgedAt
      BY <2>0, <3>1 DEF ReachInv, Passed
    <3>6. QED
      BY <2>1, <2>2, <3>1, <3>2, <3>3, <3>4, <3>5, PullReach
  <2>4. CASE LookUp(q) \/ DropMoved(q) \/ FailMoveCheck(q)
    <3>1. PICK pc \in {"drop", "fetch"} :
            pull' = [pull EXCEPT ![q] = [pull[q] EXCEPT !.pc = pc]] /\ pull[q].pc # "apply"
      <4>1. \A pc : PullTo(q, pc) => pull' = [pull EXCEPT ![q] = [pull[q] EXCEPT !.pc = pc]]
        BY DEF PullTo
      <4>2. QED
        BY <2>4, <4>1 DEF LookUp, DropMoved, FailMoveCheck
    <3> DEFINE r == [pull[q] EXCEPT !.pc = pc]
    <3>2. /\ r \in Pull /\ r.pc = pc /\ r.row = pull[q].row /\ r.whole = pull[q].whole
          /\ r.start = pull[q].start /\ r.from = pull[q].from
      BY <2>0 DEF Pull, PullPC
    <3>3. pull' = [pull EXCEPT ![q] = r]
      BY <3>1
    <3> HIDE DEF r
    <3>4. r.row = NoRow
      BY <3>1, <3>2 DEF ReachInv
    <3>5. r.whole /\ Passed(On[q], r.start) => ~Has(On[q]) \/ (r.pc # "apply" /\ r.from <= purgedAt)
      BY <3>1, <3>2 DEF ReachInv
    <3>6. QED
      BY <2>1, <2>2, <3>2, <3>3, <3>4, <3>5, PullReach
  <2>5. CASE Fetch(q) \/ HookFetch(q)
    <3>1. PICK r \in Pull :
            /\ pull' = [pull EXCEPT ![q] = r]
            /\ r.pc = "apply" /\ r.row \in {row, NoRow}
            /\ r.del = "purge" => purgedAt # 0
            /\ r.whole => /\ pull[q].whole /\ r.start = pull[q].start /\ pull[q].pc = "fetch"
                          /\ purgedAt # 0 /\ purgedAt >= pull[q].from => r.del = "purge"
      BY <2>5, PageRead DEF TypeInv
    <3>2. r.row # NoRow => purgedAt = 0
      BY <3>1 DEF PurgedInv
    <3>3. r.whole /\ Passed(On[q], r.start) => ~Has(On[q]) \/ (r.row = NoRow /\ r.del = "purge")
      <4> SUFFICES ASSUME r.whole, Passed(On[q], r.start), Has(On[q])
                   PROVE  r.row = NoRow /\ r.del = "purge"
        OBVIOUS
      <4>1. purgedAt # 0
        BY <2>0 DEF Passed
      <4>2. pull[q].from <= purgedAt
        BY <3>1 DEF ReachInv
      <4>3. purgedAt >= pull[q].from
        BY <2>0, <4>2 DEF Pull
      <4>4. QED
        BY <3>1, <3>2, <4>1, <4>3
    <3>4. QED
      BY <2>1, <2>2, <3>1, <3>2, <3>3, PullReach
  <2>6. CASE LosePull(q)
    <3>1. pull' = [pull EXCEPT ![q] = IdlePull]
      BY <2>6 DEF LosePull
    <3>2. QED
      BY <2>0, <2>1, <2>2, <3>1, PullReach
  <2>7. QED
    BY <1>1, <2>3, <2>4, <2>5, <2>6 DEF PullStep, FailPull
<1>2. CASE \/ \E m \in Machine : UserStep(m)
           \/ \E p \in Pusher : PushStep(p) \/ FailPush(p) \/ LosePush(p)
           \/ Moved \/ Tick \/ UNCHANGED vars
  <2>1. /\ UNCHANGED <<since, pull, missed>>
        /\ \A m \in Machine : Has(m)' => Has(m)
        /\ purgedAt' \in {purgedAt, clock}
    BY <1>2, QuietStep
  <2>2. QED
    BY <2>1, QuietReach
<1>3. QED
  BY <1>1, <1>2, AppliedReach, FailedReach DEF Next

\* A purge reaches every copy on a machine whose pull point is past its entry,
\* unless the entry was passed over by a failed page or deletion: for any number
\* of machines, pushes and pulls, as long as no pull begins on a machine while
\* another one there holds a page.
THEOREM PurgeIsComplete == Spec /\ [][NoStalePage]_vars => []PurgeReaches
<1>1. Init => PurgedInv /\ ReachInv
  <2>1. Init => PurgedInv
    BY DocSyncAssumption DEF Init, ServiceInit, PurgedInv, IsPurged, IdlePull
  <2>2. Init => ReachInv
    BY DocSyncAssumption DEF Init, ServiceInit, ReachInv, Passed, IdlePull
  <2>3. QED
    BY <2>1, <2>2
<1>2. PurgedInv /\ ReachInv => PurgeReaches
  BY DEF PurgedInv, ReachInv, PurgeReaches, Passed
<1>3. QED
  BY <1>1, <1>2, TypeInit, TypeStep, PurgedStep, ReachStep, PTL DEF Spec

\* In particular when each machine runs one pull at a time, under the same
\* exception of what a failed page or deletion passed over.
COROLLARY PurgeIsCompleteAlone ==
  ASSUME \A q, x \in Puller : On[q] = On[x] => q = x
  PROVE  Spec => []PurgeReaches
<1>1. NoStalePage
  BY DEF NoStalePage, BeginPull
<1>2. [][NoStalePage]_vars
  BY <1>1, PTL
<1>3. QED
  BY <1>2, PurgeIsComplete, PTL

-----------------------------------------------------------------------------
\* A page agrees with a row that another machine wrote: it holds the row, or it
\* asks for nothing that would put the machine's copy behind it.
Agrees(q) ==
  row.by # On[q] =>
    \/ pull[q].row = row
    \/ pull[q].row = NoRow /\ pull[q].del # "delete" /\ Level(On[q])

\* What a push sends is live; while its answer is not recorded, no more than the
\* overlap has passed, and the row is its revision or was written since.
SentInv ==
  /\ \A p \in Pusher : push[p].pc \in {"upsert", "settle"} => ~push[p].doc.gone
  /\ \A p \in Pusher :
       push[p].pc = "settle" =>
         /\ push[p].at <= clock /\ clock <= push[p].at + OVERLAP
         /\ push[p].ok /\ Old(push[p].at) => row.rev = push[p].doc.rev

\* A row is not older than the last delete: it was restored or shared again.
DatedInv == deletedAt <= clock /\ (row # NoRow => deletedAt <= row.at)

\* The machine is level with a row older than its pull point, and than the point
\* a pull under way asks from; a page not applied yet agrees with a row older
\* than the pull point and than the one every full pull of its machine will set.
LevelInv ==
  /\ \A m \in Machine : since[m] <= clock - OVERLAP /\ (Due(m, since[m]) => Level(m))
  /\ \A q \in Puller :
       pull[q].pc \in {"lookup", "drop", "fetch"} =>
         /\ pull[q].whole /\ pull[q].from <= PullPoint(q)
         /\ Due(On[q], pull[q].from) => Level(On[q])
  /\ \A q \in Puller : pull[q].pc = "apply" /\ Due(On[q], since[On[q]]) => Agrees(q)
  /\ \A q, x \in Puller :
       pull[q].pc = "apply" /\ On[x] = On[q] /\ pull[x].whole /\ Due(On[x], PullPoint(x)) => Agrees(q)
  /\ \A q \in Puller : pull[q].tomb => tombstone[On[q]]

LEMMA OldLater ==
  ASSUME ServiceTypeOK, NEW s \in Int, NEW t \in Int, s <= t, Old(s)
  PROVE  Old(t)
<1>1. row.at \in Nat
  BY DEF Old, ServiceTypeOK, Row
<1>2. QED
  BY <1>1 DEF Old

\* A write of the row carries the second it is made in.
LEMMA RowStep ==
  ASSUME TypeInv, [Next]_vars
  PROVE  /\ row' \in {row, NoRow} \/ row'.at = clock
         /\ deletedAt' = deletedAt \/ (deletedAt' = clock /\ row' = NoRow)
<1>0. /\ On \in [Pusher \cup Puller -> Machine] /\ UserOf \in [Machine -> User]
      /\ \A p \in Pusher : On[p] \in Machine
  BY ServiceDocumentAssumption, DocSyncAssumption
<1>1. ASSUME NEW x \in Machine, UserStep(x)
      PROVE  (row' = row \/ row'.at = clock) /\ deletedAt' = deletedAt
  <2>1. CASE AskRestore(x)
    <3>1. Restore(UserOf[x], clock)
      BY <2>1 DEF AskRestore
    <3>2. trash[UserOf[x]] \in Seq(Row) /\ trash[UserOf[x]] # <<>>
      BY <1>0, <3>1 DEF Restore, TypeInv, TypeOK, ServiceTypeOK
    <3>3. Head(trash[UserOf[x]]) \in Row
      BY <3>2, HeadTailProperties
    <3>4. row'.at = clock
      BY <3>1, <3>3 DEF Restore, Row
    <3>5. QED
      BY <3>1, <3>4 DEF Restore
  <2>2. CASE ~AskRestore(x)
    BY <1>1, <2>2 DEF UserStep, Edit, Forget, AskPurge, Note, serviceVars
  <2>3. QED
    BY <2>1, <2>2
<1>2. ASSUME NEW p \in Pusher, PushStep(p) \/ FailPush(p) \/ LosePush(p)
      PROVE  /\ row' \in {row, NoRow} \/ row'.at = clock
             /\ deletedAt' = deletedAt \/ (deletedAt' = clock /\ row' = NoRow)
  <2>1. CASE CallUpsert(p)
    BY <2>1 DEF CallUpsert, Upsert, Upserted
  <2>2. CASE CallDelete(p)
    BY <2>2 DEF CallDelete, Delete, serviceVars
  <2>3. CASE CallPurge(p)
    BY <2>3 DEF CallPurge, Purge
  <2>4. CASE ~(CallUpsert(p) \/ CallDelete(p) \/ CallPurge(p))
    BY <1>2, <2>4 DEF PushStep, BeginPush, ClearPurge, ClearDelete, Settle, FailPush,
        LosePush, serviceVars
  <2>5. QED
    BY <2>1, <2>2, <2>3, <2>4
<1>3. ASSUME NEW q \in Puller, PullStep(q) \/ FailPull(q)
      PROVE  row' = row /\ deletedAt' = deletedAt
  BY <1>3, PullFrame
<1>4. CASE Moved
  <2>1. row' = [row EXCEPT !.away = TRUE, !.by = NoDevice, !.at = clock]
        /\ row \in Row /\ deletedAt' = deletedAt
    BY <1>4 DEF Moved, MoveAway, TypeInv, TypeOK, ServiceTypeOK
  <2>2. row'.at = clock
    BY <2>1 DEF Row
  <2>3. QED
    BY <2>1, <2>2
<1>5. CASE Tick \/ UNCHANGED vars
  BY <1>5 DEF Tick, vars, serviceVars
<1>6. QED
  BY <1>1, <1>2, <1>3, <1>4, <1>5 DEF Next

\* So a row that is older than now has not been written by the step.
LEMMA OldStays ==
  ASSUME TypeInv, [Next]_vars, NEW t \in Int, t <= clock, Old(t)'
  PROVE  row' = row /\ Old(t)
<1>1. clock \in Nat
  BY DEF TypeInv, TypeOK
<1>2. row' = row
  BY <1>1, RowStep DEF Old
<1>3. QED
  BY <1>2 DEF Old

\* Time passes by itself.
LEMMA StepClock ==
  ASSUME [Next]_vars
  PROVE  clock' = clock \/ Tick
<1>1. \A m \in Machine : UserStep(m) => clock' = clock
  BY DEF UserStep, Edit, Forget, AskPurge, Note, AskRestore
<1>2. \A p \in Pusher : PushStep(p) \/ FailPush(p) \/ LosePush(p) => clock' = clock
  BY DEF PushStep, BeginPush, CallPurge, ClearPurge, CallDelete, ClearDelete, CallUpsert,
         Settle, FailPush, LosePush
<1>3. \A q \in Puller : PullStep(q) \/ FailPull(q) => clock' = clock
  BY PullFrame
<1>4. Moved \/ UNCHANGED vars => clock' = clock
  BY DEF Moved, vars
<1>5. QED
  BY <1>1, <1>2, <1>3, <1>4 DEF Next

LEMMA DatedStep == TypeInv /\ DatedInv /\ [Next]_vars => DatedInv'
<1> SUFFICES ASSUME TypeInv, DatedInv, [Next]_vars PROVE DatedInv'
  OBVIOUS
<1>1. /\ clock \in Nat /\ deletedAt \in Nat
      /\ clock' = clock \/ clock' = clock + 1
  <2>1. clock \in Nat /\ deletedAt \in Nat
    BY DEF TypeInv, TypeOK, ServiceTypeOK
  <2>2. Tick => clock' = clock + 1
    BY DEF Tick
  <2>3. QED
    BY <2>1, <2>2, StepClock
<1>2. deletedAt' <= clock'
  BY <1>1, RowStep DEF DatedInv
<1>3. TypeInv'
  BY TypeStep
<1>4. ASSUME row' # NoRow PROVE deletedAt' <= row'.at
  <2>1. deletedAt' = deletedAt
    BY <1>4, RowStep
  <2>2. CASE row' = row
    BY <1>4, <2>1, <2>2 DEF DatedInv
  <2>3. CASE row'.at = clock
    BY <1>1, <2>1, <2>3 DEF DatedInv
  <2>4. QED
    BY <1>4, <2>2, <2>3, RowStep
<1>5. QED
  BY <1>2, <1>4 DEF DatedInv

\* A step of a user or of a push.
Quiet ==
  \/ \E m \in Machine : UserStep(m)
  \/ \E p \in Pusher : PushStep(p) \/ FailPush(p) \/ LosePush(p)
  \/ Moved \/ Tick \/ UNCHANGED vars

LEMMA TombstonesStay ==
  ASSUME TypeInv, Quiet, NEW m \in Machine, tombstone[m]
  PROVE  tombstone'[m]
<1>0. tombstone \in [Machine -> BOOLEAN]
  BY DEF TypeInv, TypeOK, StoreTypeOK
<1>1. \A x \in Machine : UserStep(x) => tombstone'[m]
  BY <1>0 DEF UserStep, Edit, Forget, AskPurge, Note, AskRestore, storeVars
<1>2. \A p \in Pusher : PushStep(p) \/ FailPush(p) \/ LosePush(p) => tombstone' = tombstone
  BY DEF PushStep, BeginPush, CallPurge, ClearPurge, CallDelete, ClearDelete, CallUpsert,
         Settle, FailPush, LosePush, storeVars
<1>3. Moved \/ Tick \/ UNCHANGED vars => tombstone' = tombstone
  BY DEF Moved, Tick, vars, storeVars
<1>4. QED
  BY <1>1, <1>2, <1>3 DEF Quiet

\* It keeps a machine level with a row it does not write: an edit is not clean,
\* and a row older than the overlap is the one an answer is about.
LEMMA QuietLevel ==
  ASSUME TypeInv, SentInv, Quiet, row' = row, Old(clock - OVERLAP), NEW m \in Machine,
         Level(m)
  PROVE  Level(m)'
<1> SUFFICES ASSUME row.by # m, Has(m)', ~local'[m].dirty, ~tombstone'[m]
             PROVE  ~local'[m].gone /\ (local'[m].rev = row.rev \/ local'[m].upd >= row.upd)
  BY DEF Level
<1>0. /\ local \in [Machine -> Copy \cup {NoCopy}]
      /\ tombstone \in [Machine -> BOOLEAN]
      /\ On \in [Pusher \cup Puller -> Machine]
  BY DocSyncAssumption DEF TypeInv, TypeOK, StoreTypeOK
<1>1. ~tombstone[m]
  BY TombstonesStay
<1>2. local'[m] = local[m] => Has(m) /\ ~local[m].dirty
  BY DEF Has
<1>3. CASE local'[m] = local[m]
  BY <1>1, <1>2, <1>3 DEF Level
<1>4. ASSUME NEW x \in Machine, UserStep(x) PROVE local'[m] = local[m]
  <2>1. CASE Edit(x)
    <3>1. local[x] \in Copy /\ local' = [local EXCEPT ![x] =
            [local[x] EXCEPT !.rev = used.rev + 1, !.upd = clock, !.dirty = TRUE, !.refused = FALSE]]
      BY <1>0, <2>1 DEF Edit, Has, SetLocal
    <3>2. local'[x].dirty
      BY <1>0, <3>1 DEF Copy
    <3>3. m # x
      BY <3>2
    <3>4. QED
      BY <1>0, <3>1, <3>3
  <2>2. CASE Forget(x) \/ AskPurge(x)
    <3>1. local' = [local EXCEPT ![x] = NoCopy]
      BY <2>2 DEF Forget, AskPurge, SetLocal
    <3>2. QED
      BY <1>0, <3>1 DEF Has
  <2>3. CASE Note(x) \/ AskRestore(x)
    BY <2>3 DEF Note, AskRestore
  <2>4. QED
    BY <1>4, <2>1, <2>2, <2>3 DEF UserStep
<1>5. ASSUME NEW p \in Pusher, Settle(p), local'[m] # local[m]
      PROVE  ~local'[m].gone /\ local'[m].rev = row.rev
  <2>1. /\ Unchanged(m, push[p].doc) /\ On[p] = m /\ push[p].pc = "settle"
        /\ local' = [local EXCEPT ![m] =
             [local[m] EXCEPT !.dirty = ~push[p].ok, !.refused = ~push[p].ok]]
    BY <1>0, <1>5 DEF Settle, SetLocal
  <2>2. local[m] \in Copy /\ push[p].ok \in BOOLEAN
    BY <1>0, <2>1 DEF Unchanged, Has, TypeInv, TypeOK, PushTypeOK
  <2>3. local'[m] = [local[m] EXCEPT !.dirty = ~push[p].ok, !.refused = ~push[p].ok]
    BY <1>0, <2>1
  <2>4. /\ local'[m].rev = local[m].rev /\ local'[m].gone = local[m].gone
        /\ local'[m].dirty = ~push[p].ok
    BY <2>2, <2>3 DEF Copy
  <2>5. push[p].ok
    BY <2>2, <2>4
  <2>6. row.rev = push[p].doc.rev /\ ~push[p].doc.gone
    <3>1. /\ push[p].at \in Int /\ clock - OVERLAP \in Int /\ ServiceTypeOK
          /\ OVERLAP \in Nat /\ clock \in Nat
      BY DocSyncAssumption DEF TypeInv, TypeOK, PushTypeOK
    <3>2. clock - OVERLAP <= push[p].at
      BY <2>1, <3>1 DEF SentInv
    <3>3. Old(push[p].at)
      BY <3>1, <3>2, OldLater
    <3>4. QED
      BY <2>1, <2>5, <3>3 DEF SentInv
  <2>7. QED
    BY <2>1, <2>4, <2>6 DEF Unchanged
<1>6. ASSUME NEW p \in Pusher, PushStep(p) \/ FailPush(p) \/ LosePush(p), ~Settle(p)
      PROVE  local'[m] = local[m]
  BY <1>6 DEF PushStep, BeginPush, CallPurge, ClearPurge, CallDelete, ClearDelete,
              CallUpsert, FailPush, LosePush
<1>7. CASE Moved \/ Tick \/ UNCHANGED vars
  <2>1. local'[m] = local[m]
    BY <1>7 DEF Moved, Tick, vars
  <2>2. QED
    BY <1>3, <2>1
<1>8. QED
  BY <1>3, <1>4, <1>5, <1>6, <1>7 DEF Quiet

\* A push reads to send only what is live.
LEMMA ReadsLive ==
  ASSUME NEW m \in Machine,
         NEW r \in {IdlePush, ReadPurges(m), ReadDeletes(m), ReadDocs(m),
                    At("clearPurge"), At("clearDelete")}
  PROVE  r.pc # "settle" /\ (r.pc = "upsert" => ~r.doc.gone)
<1>1. \A pc \in {"purge", "clearPurge", "delete", "clearDelete"} : At(pc).pc = pc
  BY DEF At, IdlePush
<1>2. ReadDocs(m).pc # "settle" /\ (ReadDocs(m).pc = "upsert" => ~ReadDocs(m).doc.gone)
  BY DEF ReadDocs, Pushable, Unpushed, IdlePush
<1>3. ReadDeletes(m).pc # "settle" /\ (ReadDeletes(m).pc = "upsert" => ~ReadDeletes(m).doc.gone)
  BY <1>1, <1>2 DEF ReadDeletes
<1>4. ReadPurges(m).pc # "settle" /\ (ReadPurges(m).pc = "upsert" => ~ReadPurges(m).doc.gone)
  BY <1>1, <1>3 DEF ReadPurges
<1>5. QED
  BY <1>1, <1>2, <1>3, <1>4 DEF IdlePush

\* What a push sends stays live, and its answer is recorded within the overlap.
LEMMA SentStep ==
  ASSUME SettlesSoon, TypeInv, SentInv, [Next]_vars
  PROVE  SentInv'
<1>0. /\ On \in [Pusher \cup Puller -> Machine]
      /\ push \in [Pusher -> [pc : PushPC, doc : Copy \cup {NoCopy}, ok : BOOLEAN, at : Nat]]
      /\ clock \in Nat /\ OVERLAP \in Nat /\ ServiceTypeOK /\ StoreTypeOK
  BY DocSyncAssumption DEF TypeInv, TypeOK, PushTypeOK
\* A push that waits for its answer is not kept waiting.
<1>1. ASSUME NEW p \in Pusher, push[p].pc = "settle"
      PROVE  /\ push[p].at <= clock' /\ clock' <= push[p].at + OVERLAP
             /\ push[p].ok /\ Old(push[p].at)' /\ push'[p] = push[p] => row'.rev = push[p].doc.rev
  <2>0. push[p].at \in Int /\ push[p].at <= clock /\ clock <= push[p].at + OVERLAP
    BY <1>0, <1>1 DEF SentInv
  <2>1. push[p].at <= clock' /\ clock' <= push[p].at + OVERLAP
    <3>1. Tick => clock' = clock + 1 /\ clock < push[p].at + OVERLAP
      BY <1>1 DEF Tick
    <3>2. QED
      BY <1>0, <2>0, <3>1, StepClock
  <2>2. ASSUME push[p].ok, Old(push[p].at)', push'[p] = push[p]
        PROVE  row'.rev = push[p].doc.rev
    <3>1. row' # NoRow /\ ~row'.away /\ row'.at < push[p].at
      BY <2>2 DEF Old
    <3>2. row' = row
      BY <1>0, <2>0, <3>1, RowStep
    <3>3. Old(push[p].at)
      BY <3>1, <3>2 DEF Old
    <3>4. QED
      BY <1>1, <2>2, <3>2, <3>3 DEF SentInv
  <2>3. QED
    BY <2>1, <2>2
<1>2. CASE UNCHANGED push
  BY <1>1, <1>2 DEF SentInv, Old
<1>3. ASSUME NEW p \in Pusher, PushStep(p) \/ FailPush(p) \/ LosePush(p)
      PROVE  SentInv'
  <2>1. clock' = clock
    BY <1>3 DEF PushStep, BeginPush, CallPurge, ClearPurge, CallDelete, ClearDelete,
                CallUpsert, Settle, FailPush, LosePush
  <2>2. PICK r : /\ push' = [push EXCEPT ![p] = r]
                 /\ r.pc \in {"upsert", "settle"} => ~r.doc.gone
                 /\ r.pc = "settle" => /\ CallUpsert(p) /\ r.doc = push[p].doc
                                       /\ r.ok = ~IsPurged /\ r.at = clock
    <3>1. CASE CallUpsert(p)
      <4> DEFINE r == [push[p] EXCEPT !.pc = "settle", !.ok = ~IsPurged, !.at = clock]
      <4>1. push' = [push EXCEPT ![p] = r] /\ push[p].pc = "upsert"
        BY <1>0, <3>1 DEF CallUpsert
      <4>2. r.doc = push[p].doc /\ r.ok = ~IsPurged /\ r.at = clock
        BY <1>0
      <4>3. ~push[p].doc.gone
        BY <4>1 DEF SentInv
      <4> HIDE DEF r
      <4>4. QED
        BY <3>1, <4>1, <4>2, <4>3
    <3>2. CASE ~CallUpsert(p)
      <4>1. \E r \in {IdlePush, ReadPurges(On[p]), ReadDeletes(On[p]), ReadDocs(On[p]),
                      At("clearPurge"), At("clearDelete")} : push' = [push EXCEPT ![p] = r]
        BY <1>3, <3>2 DEF PushStep, BeginPush, CallPurge, ClearPurge, CallDelete, ClearDelete,
                          Settle, FailPush, LosePush, PushTo
      <4>2. On[p] \in Machine
        BY <1>0
      <4>3. QED
        BY <4>1, <4>2, ReadsLive
    <3>3. QED
      BY <3>1, <3>2
  <2>3. push'[p] = r /\ \A x \in Pusher \ {p} : push'[x] = push[x]
    BY <1>0, <2>2
  <2>4. r.pc = "settle" /\ r.ok /\ row' # NoRow => row'.rev = r.doc.rev
    <3> SUFFICES ASSUME r.pc = "settle", r.ok PROVE row'.rev = r.doc.rev
      OBVIOUS
    <3>1. row' = Upserted(On[p], push[p].doc, clock)
      BY <2>2 DEF CallUpsert, Upsert
    <3>2. QED
      BY <2>2, <3>1 DEF Upserted
  <2>5. \A x \in Pusher : push'[x].pc \in {"upsert", "settle"} => ~push'[x].doc.gone
    BY <2>2, <2>3 DEF SentInv
  <2>6. \A x \in Pusher :
          push'[x].pc = "settle" =>
            /\ push'[x].at <= clock' /\ clock' <= push'[x].at + OVERLAP
            /\ push'[x].ok /\ Old(push[x].at)' => row'.rev = push'[x].doc.rev
    <3> SUFFICES ASSUME NEW x \in Pusher, push'[x].pc = "settle"
                 PROVE  /\ push'[x].at <= clock' /\ clock' <= push'[x].at + OVERLAP
                        /\ push'[x].ok /\ Old(push[x].at)' => row'.rev = push'[x].doc.rev
      OBVIOUS
    <3>1. CASE x = p
      <4>1. r.pc = "settle" /\ r.at = clock /\ clock' = clock
        BY <2>1, <2>2, <2>3, <3>1
      <4>2. QED
        BY <1>0, <2>3, <2>4, <3>1, <4>1 DEF Old
    <3>2. CASE x # p
      BY <1>1, <2>3, <3>2 DEF Old
    <3>3. QED
      BY <3>1, <3>2
  <2>7. QED
    BY <2>5, <2>6 DEF SentInv
<1>4. CASE ~\E p \in Pusher : PushStep(p) \/ FailPush(p) \/ LosePush(p)
  <2>1. UNCHANGED push
    <3>1. \A m \in Machine : UserStep(m) => UNCHANGED push
      BY DEF UserStep, Edit, Forget, AskPurge, Note, AskRestore
    <3>2. \A q \in Puller : PullStep(q) \/ FailPull(q) => UNCHANGED push
      BY PullFrame
    <3>3. Moved \/ Tick \/ UNCHANGED vars => UNCHANGED push
      BY DEF Moved, Tick, vars
    <3>4. QED
      BY <1>4, <3>1, <3>2, <3>3 DEF Next
  <2>2. QED
    BY <1>2, <2>1
<1>5. QED
  BY <1>3, <1>4

\* Together: what a row older than now asks of the machines stays true.
LEMMA LevelQuiet ==
  ASSUME TypeInv, PurgedInv, SentInv, LevelInv, [Next]_vars, Quiet
  PROVE  LevelInv'
<1>0. /\ clock \in Nat /\ OVERLAP \in Nat /\ On \in [Pusher \cup Puller -> Machine]
      /\ since \in [Machine -> Nat] /\ pull \in [Puller -> Pull] /\ ServiceTypeOK
      /\ tombstone \in [Machine -> BOOLEAN]
  BY DocSyncAssumption DEF TypeInv, TypeOK, StoreTypeOK, PullTypeOK, Pull
<1>1. UNCHANGED <<since, pull, missed>>
  BY QuietStep DEF Quiet
<1>2. \A t \in Int : t <= clock - OVERLAP /\ Old(t)' =>
        /\ row' = row /\ Old(t)
        /\ \A m \in Machine : Level(m) => Level(m)'
  <2> SUFFICES ASSUME NEW t \in Int, t <= clock - OVERLAP, Old(t)'
               PROVE  row' = row /\ Old(t) /\ \A m \in Machine : Level(m) => Level(m)'
    OBVIOUS
  <2>1. row' = row /\ Old(t)
    BY <1>0, OldStays
  <2>2. Old(clock - OVERLAP)
    BY <1>0, <2>1, OldLater
  <2>3. QED
    BY <2>1, <2>2, QuietLevel
<1>3. \A t \in Int : \A m \in Machine : t <= clock - OVERLAP /\ Due(m, t)' => Due(m, t) /\ Old(t)'
  BY <1>1, <1>2 DEF Due
<1>4. \A t \in Int : \A q \in Puller :
        t <= clock - OVERLAP /\ Due(On[q], t)' /\ (Due(On[q], t) => Agrees(q)) => Agrees(q)'
  <2> SUFFICES ASSUME NEW t \in Int, NEW q \in Puller, t <= clock - OVERLAP, Due(On[q], t)',
                      Due(On[q], t) => Agrees(q)
               PROVE  Agrees(q)'
    OBVIOUS
  <2>1. row' = row /\ Agrees(q) /\ On[q] \in Machine /\ (Level(On[q]) => Level(On[q])')
    BY <1>0, <1>2, <1>3
  <2>2. QED
    BY <1>1, <2>1 DEF Agrees
<1>5. \A m \in Machine : (since[m] <= clock - OVERLAP /\ (Due(m, since[m]) => Level(m)))'
  <2> SUFFICES ASSUME NEW m \in Machine
               PROVE  since'[m] <= clock' - OVERLAP /\ (Due(m, since[m])' => Level(m)')
    OBVIOUS
  <2>1. since[m] \in Int /\ since[m] <= clock - OVERLAP /\ since'[m] = since[m]
    BY <1>0, <1>1 DEF LevelInv
  <2>2. since'[m] <= clock' - OVERLAP
    <3>1. Tick => clock' = clock + 1
      BY DEF Tick
    <3>2. QED
      BY <1>0, <2>1, <3>1, StepClock
  <2>3. QED
    BY <1>2, <1>3, <2>1, <2>2 DEF Due, Old, LevelInv
<1>6. \A q \in Puller :
       (pull[q].pc \in {"lookup", "drop", "fetch"} =>
         /\ pull[q].whole /\ pull[q].from <= PullPoint(q)
         /\ Due(On[q], pull[q].from) => Level(On[q]))'
  <2> SUFFICES ASSUME NEW q \in Puller, pull[q].pc \in {"lookup", "drop", "fetch"}
               PROVE  /\ pull[q].whole /\ pull[q].from <= PullPoint(q)
                      /\ Due(On[q], pull[q].from)' => Level(On[q])'
    BY <1>1 DEF PullPoint
  <2>1. pull[q].whole /\ pull[q].from <= PullPoint(q) /\ (Due(On[q], pull[q].from) => Level(On[q]))
    BY DEF LevelInv
  <2>2. pull[q].start <= clock
    BY <2>1 DEF PurgedInv
  <2>3. /\ pull[q].from \in Int /\ pull[q].from <= clock - OVERLAP
        /\ pull'[q] = pull[q] /\ On[q] \in Machine
    BY <1>0, <1>1, <2>1, <2>2 DEF Pull, PullPoint
  <2>4. QED
    BY <1>2, <1>3, <2>1, <2>3 DEF Due, Old
<1>7. \A q \in Puller : (pull[q].pc = "apply" /\ Due(On[q], since[On[q]]) => Agrees(q))'
  <2> SUFFICES ASSUME NEW q \in Puller, pull[q].pc = "apply", Due(On[q], since[On[q]])'
               PROVE  Agrees(q)'
    BY <1>1
  <2>1. since[On[q]] \in Int /\ since[On[q]] <= clock - OVERLAP /\ since' = since
    BY <1>0, <1>1 DEF LevelInv
  <2>2. Due(On[q], since[On[q]]) => Agrees(q)
    BY DEF LevelInv
  <2>3. QED
    BY <1>4, <2>1, <2>2 DEF Due, Old
<1>8. \A q, x \in Puller :
       (pull[q].pc = "apply" /\ On[x] = On[q] /\ pull[x].whole /\ Due(On[x], PullPoint(x))
        => Agrees(q))'
  <2> SUFFICES ASSUME NEW q \in Puller, NEW x \in Puller, pull[q].pc = "apply", On[x] = On[q],
                      pull[x].whole, Due(On[x], PullPoint(x))'
               PROVE  Agrees(q)'
    BY <1>1
  <2>1. PullPoint(x) \in Int /\ PullPoint(x) <= clock - OVERLAP /\ pull' = pull
    BY <1>0, <1>1 DEF PurgedInv, Pull, PullPoint
  <2>2. Due(On[x], PullPoint(x)) => Agrees(q)
    BY DEF LevelInv
  <2>3. QED
    BY <1>4, <2>1, <2>2 DEF Due, Old, PullPoint
<1>9. \A q \in Puller : (pull[q].tomb => tombstone[On[q]])'
  BY <1>0, <1>1, TombstonesStay DEF LevelInv
<1>10. QED
  BY <1>5, <1>6, <1>7, <1>8, <1>9 DEF LevelInv

\* A page just read agrees with the row, if the machine was level with a row
\* older than the point it asked from.
LEMMA PageAgrees ==
  ASSUME TypeInv, DatedInv, NEW q \in Puller, NEW from \in Nat, NEW ownToo \in BOOLEAN,
         pull'[q].row = Page(On[q], from, ownToo).row,
         pull'[q].del = Page(On[q], from, ownToo).del,
         UNCHANGED <<row, local, tombstone>>,
         ~row.away, row # NoRow, row.at \notin missed[On[q]],
         Due(On[q], from) => Level(On[q])
  PROVE  Agrees(q)'
<1> SUFFICES ASSUME row.by # On[q], pull'[q].row # row
             PROVE  pull'[q].row = NoRow /\ pull'[q].del # "delete" /\ Level(On[q])
  BY DEF Agrees, Level, Has
<1>0. row.at \in Nat /\ deletedAt \in Nat
  BY DEF TypeInv, TypeOK, ServiceTypeOK, Row
<1>1. ~(row.at >= from)
  BY DEF Page
<1>2. pull'[q].row = NoRow /\ Level(On[q])
  BY <1>0, <1>1 DEF Page, Due, Old
<1>3. ~(deletedAt >= from)
  BY <1>0, <1>1 DEF DatedInv
<1>4. pull'[q].del # "delete"
  BY <1>3 DEF Page
<1>5. QED
  BY <1>2, <1>4

\* A pull that moves on without touching the row, the tombstones or the pull
\* point: what the invariant asks is asked of that pull alone.
LEMMA PullLevel ==
  ASSUME TypeInv, LevelInv, NEW q \in Puller, NEW r \in Pull,
         pull' = [pull EXCEPT ![q] = r],
         UNCHANGED <<row, since, missed, tombstone, clock>>,
         \A m \in Machine : Level(m) => Level(m)',
         r.pc \in {"lookup", "drop", "fetch"} =>
           r.whole /\ r.from <= r.start - OVERLAP /\ (Due(On[q], r.from) => Level(On[q])),
         r.pc = "apply" /\ row # NoRow /\ ~row.away /\ row.at \notin missed[On[q]] => Agrees(q)',
         r.tomb => tombstone[On[q]],
         r.whole => \/ pull[q].whole /\ r.start = pull[q].start
                    \/ \A x \in Puller : On[x] = On[q] => pull[x].pc # "apply"
  PROVE  LevelInv'
<1>0. /\ On \in [Pusher \cup Puller -> Machine] /\ pull \in [Puller -> Pull]
  BY DocSyncAssumption DEF TypeInv, TypeOK, PullTypeOK, Pull
<1>1. pull'[q] = r /\ \A x \in Puller \ {q} : pull'[x] = pull[x]
  BY <1>0
<1>2. \A m, t : Due(m, t) => row # NoRow /\ ~row.away /\ row.at \notin missed[m]
  BY DEF Due, Old
<1>3. \A x \in Puller \ {q} : Agrees(x) => Agrees(x)'
  BY <1>0, <1>1 DEF Agrees
<1>4. \A m \in Machine : (since[m] <= clock - OVERLAP /\ (Due(m, since[m]) => Level(m)))'
  BY DEF LevelInv, Due, Old
<1>5. \A x \in Puller :
       (pull[x].pc \in {"lookup", "drop", "fetch"} =>
         /\ pull[x].whole /\ pull[x].from <= PullPoint(x)
         /\ Due(On[x], pull[x].from) => Level(On[x]))'
  <2> SUFFICES ASSUME NEW x \in Puller, pull'[x].pc \in {"lookup", "drop", "fetch"}
               PROVE  /\ pull'[x].whole /\ pull'[x].from <= pull'[x].start - OVERLAP
                      /\ Due(On[x], pull[x].from)' => Level(On[x])'
    BY DEF PullPoint
  <2>0. On[x] \in Machine
    BY <1>0
  <2>1. /\ pull'[x].whole /\ pull'[x].from <= pull'[x].start - OVERLAP
        /\ Due(On[x], pull'[x].from) => Level(On[x])
    BY <1>1 DEF LevelInv, PullPoint
  <2>2. QED
    BY <2>0, <2>1 DEF Due, Old
<1>6. \A x \in Puller : (pull[x].pc = "apply" /\ Due(On[x], since[On[x]]) => Agrees(x))'
  <2> SUFFICES ASSUME NEW x \in Puller, pull'[x].pc = "apply", Due(On[x], since[On[x]])'
               PROVE  Agrees(x)'
    OBVIOUS
  <2>1. Due(On[x], since[On[x]])
    BY DEF Due, Old
  <2>2. QED
    BY <1>1, <1>2, <1>3, <2>1 DEF LevelInv
<1>7. \A y, x \in Puller :
       (pull[y].pc = "apply" /\ On[x] = On[y] /\ pull[x].whole /\ Due(On[x], PullPoint(x))
        => Agrees(y))'
  <2> SUFFICES ASSUME NEW y \in Puller, NEW x \in Puller, pull'[y].pc = "apply", On[x] = On[y],
                      pull'[x].whole, Due(On[x], PullPoint(x))'
               PROVE  Agrees(y)'
    OBVIOUS
  <2>1. Due(On[x], pull'[x].start - OVERLAP)
    BY DEF Due, Old, PullPoint
  <2>2. CASE y = q
    BY <1>1, <1>2, <2>1, <2>2
  <2>3. CASE y # q
    <3>1. pull[y].pc = "apply"
      BY <1>1, <2>3
    <3>2. pull[x].whole /\ Due(On[x], PullPoint(x))
      BY <1>1, <2>1, <3>1 DEF PullPoint
    <3>3. QED
      BY <1>3, <2>3, <3>1, <3>2 DEF LevelInv
  <2>4. QED
    BY <2>2, <2>3
<1>8. \A x \in Puller : (pull[x].tomb => tombstone[On[x]])'
  BY <1>0, <1>1 DEF LevelInv
<1>9. QED
  BY <1>4, <1>5, <1>6, <1>7, <1>8 DEF LevelInv

\* A page that agrees with the row leaves the machine level with it.
LEMMA AppliedAgrees ==
  ASSUME TypeInv, LevelInv, NEW q \in Puller, Apply(q) \/ ApplyOnly(q), Agrees(q), row # NoRow
  PROVE  Level(On[q])'
<1> DEFINE m == On[q]  r == pull[q].row
<1>0. /\ m \in Machine /\ r \in Row \cup {NoRow}
      /\ local \in [Machine -> Copy \cup {NoCopy}] /\ row \in Row
  BY DocSyncAssumption
  DEF TypeInv, TypeOK, StoreTypeOK, ServiceTypeOK, PullTypeOK
<1>1. UNCHANGED <<row, tombstone>>
  BY DEF Apply, ApplyOnly, Applied, serviceVars, storeVars
<1>2. local'[m] = IF r = NoRow THEN AfterDeletion(m, pull[q].del)
                  ELSE IF ~pull[q].tomb /\ Replaces(r, m) THEN Pulled(r) ELSE local[m]
  BY <1>0 DEF Apply, ApplyOnly, Applied, SetLocal
<1> SUFFICES ASSUME row.by # m, Has(m)', ~local'[m].dirty, ~tombstone[m]
             PROVE  ~local'[m].gone /\ (local'[m].rev = row.rev \/ local'[m].upd >= row.upd)
  BY <1>1 DEF Level
<1>3. ~pull[q].tomb
  BY DEF LevelInv
<1>4. CASE r = row
  <2>1. CASE Replaces(r, m)
    <3>1. local'[m] = Pulled(row)
      BY <1>2, <1>3, <1>4, <2>1
    <3>2. QED
      BY <3>1 DEF Pulled
  <2>2. CASE ~Replaces(r, m)
    <3>1. local'[m] = local[m]
      BY <1>2, <1>3, <1>4, <2>2
    <3>2. Has(m) /\ local[m] \in Copy /\ ~local[m].gone /\ ~(row.upd > local[m].upd)
      BY <1>0, <1>4, <2>2, <3>1 DEF Replaces, Has
    <3>3. row.upd \in Nat /\ local[m].upd \in Nat
      BY <1>0, <3>2 DEF Row, Copy
    <3>4. QED
      BY <3>1, <3>2, <3>3
  <2>3. QED
    BY <2>1, <2>2
<1>5. CASE r # row
  <2>1. r = NoRow /\ pull[q].del # "delete" /\ Level(m)
    BY <1>5 DEF Agrees
  <2>2. local'[m] \in {NoCopy, local[m]}
    BY <1>2, <2>1 DEF AfterDeletion
  <2>3. local'[m] = local[m] /\ Has(m)
    BY <2>2 DEF Has
  <2>4. QED
    BY <2>1, <2>3 DEF Level
<1>6. QED
  BY <1>4, <1>5

LEMMA AppliedLevel ==
  ASSUME TypeInv, PurgedInv, LevelInv, NEW q \in Puller, Apply(q) \/ ApplyOnly(q)
  PROVE  LevelInv'
<1> DEFINE m == On[q]
<1>0. /\ m \in Machine /\ On \in [Pusher \cup Puller -> Machine]
      /\ pull \in [Puller -> Pull] /\ since \in [Machine -> Nat]
      /\ local \in [Machine -> Copy \cup {NoCopy}] /\ OVERLAP \in Nat /\ ServiceTypeOK
      /\ pull[q].start \in Nat /\ clock \in Nat
  BY DocSyncAssumption DEF TypeInv, TypeOK, StoreTypeOK, PullTypeOK, Pull
<1>1. /\ pull[q].pc = "apply" /\ UNCHANGED <<row, tombstone, clock, missed>>
      /\ pull' = [pull EXCEPT ![q] = IdlePull]
      /\ \/ since' = since
         \/ pull[q].whole /\ since' = [since EXCEPT ![m] = PullPoint(q)]
  <2>1. since' = since \/ (pull[q].whole /\ since' = [since EXCEPT ![m] = PullPoint(q)])
    <3>1. CASE Apply(q) /\ pull[q].whole
      BY <3>1 DEF Apply
    <3>2. CASE ~(Apply(q) /\ pull[q].whole)
      BY <1>0, <3>2 DEF Apply, ApplyOnly
    <3>3. QED
      BY <3>1, <3>2
  <2>2. QED
    BY <2>1 DEF Apply, ApplyOnly, serviceVars, storeVars
<1>2. /\ pull'[q] = IdlePull /\ \A x \in Puller \ {q} : pull'[x] = pull[x]
      /\ \A x \in Machine \ {m} : since'[x] = since[x]
      /\ since'[m] = since[m] \/ (pull[q].whole /\ since'[m] = PullPoint(q))
  BY <1>0, <1>1
<1>3. IdlePull.pc = "idle" /\ ~IdlePull.whole /\ ~IdlePull.tomb
  BY DEF IdlePull
<1>4. \A x, t : Due(x, t)' => row # NoRow
  BY <1>1 DEF Due, Old
\* The row cannot be older than the new pull point and disagree with the page.
<1>5. Due(m, since[m])' => Agrees(q)
  <2> SUFFICES ASSUME Due(m, since[m])' PROVE Agrees(q)
    OBVIOUS
  <2>1. Due(m, since'[m])
    BY <1>1 DEF Due, Old
  <2>2. CASE pull[q].whole /\ since'[m] = PullPoint(q)
    <3>1. Due(On[q], PullPoint(q))
      BY <2>1, <2>2
    <3>2. QED
      BY <1>1, <2>2, <3>1 DEF LevelInv
  <2>3. CASE since'[m] = since[m]
    <3>1. Due(m, since[m])
      BY <2>1, <2>3
    <3>2. QED
      BY <1>1, <3>1 DEF LevelInv
  <2>4. QED
    BY <1>2, <2>2, <2>3
<1>6. Agrees(q) /\ row # NoRow => Level(m)'
  BY AppliedAgrees
<1>7. \A x \in Machine \ {m} : Level(x) => Level(x)'
  <2>1. \A x \in Machine \ {m} : local'[x] = local[x]
    BY <1>0 DEF Apply, ApplyOnly, SetLocal
  <2>2. QED
    BY <1>1, <2>1 DEF Level, Has
<1>8. \A x \in Puller \ {q} : Agrees(x) /\ (On[x] = m => Level(m)') => Agrees(x)'
  <2> SUFFICES ASSUME NEW x \in Puller \ {q}, Agrees(x), On[x] = m => Level(m)'
               PROVE  Agrees(x)'
    OBVIOUS
  <2>1. Level(On[x]) => Level(On[x])'
    BY <1>0, <1>7
  <2>2. QED
    BY <1>1, <1>2, <2>1 DEF Agrees
<1>9. \A x \in Machine : (since[x] <= clock - OVERLAP /\ (Due(x, since[x]) => Level(x)))'
  <2> SUFFICES ASSUME NEW x \in Machine
               PROVE  since'[x] <= clock - OVERLAP /\ (Due(x, since[x])' => Level(x)')
    BY <1>1
  <2>1. CASE x = m
    <3>1. since[m] <= clock - OVERLAP /\ (pull[q].whole => pull[q].start <= clock)
      BY <1>0 DEF LevelInv, PurgedInv
    <3>2. since'[m] <= clock - OVERLAP
      BY <1>0, <1>2, <3>1 DEF PullPoint
    <3>3. QED
      BY <1>4, <1>5, <1>6, <2>1, <3>2
  <2>2. CASE x # m
    BY <1>1, <1>2, <1>7, <2>2 DEF LevelInv, Due, Old
  <2>3. QED
    BY <2>1, <2>2
<1>10. \A x \in Puller :
       (pull[x].pc \in {"lookup", "drop", "fetch"} =>
         /\ pull[x].whole /\ pull[x].from <= PullPoint(x)
         /\ Due(On[x], pull[x].from) => Level(On[x]))'
  <2> SUFFICES ASSUME NEW x \in Puller, pull'[x].pc \in {"lookup", "drop", "fetch"}
               PROVE  /\ pull'[x].whole /\ pull'[x].from <= pull'[x].start - OVERLAP
                      /\ Due(On[x], pull[x].from)' => Level(On[x])'
    BY DEF PullPoint
  <2>1. x # q /\ pull'[x] = pull[x] /\ On[x] \in Machine
    BY <1>0, <1>2, <1>3
  <2>2. pull[x].whole /\ pull[x].from <= PullPoint(x) /\ (Due(On[x], pull[x].from) => Level(On[x]))
    BY <2>1 DEF LevelInv
  <2>3. ASSUME Due(On[x], pull[x].from)' PROVE Level(On[x])'
    <3>1. Due(On[x], pull[x].from)
      BY <1>1, <2>1, <2>3 DEF Due, Old
    <3>2. CASE On[x] # m
      BY <1>7, <2>1, <2>2, <3>1, <3>2
    <3>3. CASE On[x] = m
      <4>1. pull[x].from \in Int /\ PullPoint(x) \in Int
        BY <1>0 DEF Pull, PullPoint
      <4>2. Due(On[x], PullPoint(x))
        BY <1>0, <2>2, <3>1, <4>1, OldLater DEF Due
      <4>3. Agrees(q)
        BY <1>1, <2>2, <3>3, <4>2 DEF LevelInv
      <4>4. QED
        BY <1>4, <1>6, <2>3, <3>3, <4>3
    <3>4. QED
      BY <3>2, <3>3
  <2>4. QED
    BY <2>1, <2>2, <2>3 DEF PullPoint
<1>11. \A x \in Puller : (pull[x].pc = "apply" /\ Due(On[x], since[On[x]]) => Agrees(x))'
  <2> SUFFICES ASSUME NEW x \in Puller, pull'[x].pc = "apply", Due(On[x], since[On[x]])'
               PROVE  Agrees(x)'
    OBVIOUS
  <2>1. x # q /\ pull'[x] = pull[x] /\ On[x] \in Machine
    BY <1>0, <1>2, <1>3
  <2>2. CASE On[x] # m
    <3>1. Due(On[x], since[On[x]])
      BY <1>1, <1>2, <2>1, <2>2 DEF Due, Old
    <3>2. QED
      BY <1>8, <2>1, <2>2, <3>1 DEF LevelInv
  <2>3. CASE On[x] = m
    <3>1. Agrees(x)
      <4>1. CASE pull[q].whole /\ since'[m] = PullPoint(q)
        <5>1. Due(On[q], PullPoint(q))
          BY <1>1, <1>2, <2>3, <4>1 DEF Due, Old
        <5>2. QED
          BY <2>1, <2>3, <4>1, <5>1 DEF LevelInv
      <4>2. CASE since'[m] = since[m]
        <5>1. Due(On[x], since[On[x]])
          BY <1>1, <1>2, <2>3, <4>2 DEF Due, Old
        <5>2. QED
          BY <2>1, <5>1 DEF LevelInv
      <4>3. QED
        BY <1>2, <4>1, <4>2
    <3>2. Level(m)'
      BY <1>4, <1>5, <1>6, <2>3
    <3>3. QED
      BY <1>8, <2>1, <3>1, <3>2
  <2>4. QED
    BY <2>2, <2>3
<1>12. \A y, x \in Puller :
       (pull[y].pc = "apply" /\ On[x] = On[y] /\ pull[x].whole /\ Due(On[x], PullPoint(x))
        => Agrees(y))'
  <2> SUFFICES ASSUME NEW y \in Puller, NEW x \in Puller, pull'[y].pc = "apply", On[x] = On[y],
                      pull'[x].whole, Due(On[x], PullPoint(x))'
               PROVE  Agrees(y)'
    OBVIOUS
  <2>1. x # q /\ y # q /\ pull'[x] = pull[x] /\ pull'[y] = pull[y]
    BY <1>2, <1>3
  <2>2. Due(On[x], PullPoint(x))
    BY <1>1, <2>1 DEF Due, Old, PullPoint
  <2>3. Agrees(y)
    BY <2>1, <2>2 DEF LevelInv
  <2>4. On[y] = m => Level(m)'
    <3>1. On[y] = m => Agrees(q)
      BY <1>1, <2>1, <2>2 DEF LevelInv
    <3>2. QED
      BY <1>4, <1>6, <3>1
  <2>5. QED
    BY <1>8, <2>1, <2>3, <2>4
<1>13. \A x \in Puller : (pull[x].tomb => tombstone[On[x]])'
  BY <1>1, <1>2, <1>3 DEF LevelInv
<1>14. QED
  BY <1>9, <1>10, <1>11, <1>12, <1>13 DEF LevelInv

\* A pull that passes a row over names it as missed; it was level with an older one.
LEMMA FailedLevel ==
  ASSUME TypeInv, PurgedInv, LevelInv, NEW q \in Puller, FailFetch(q) \/ FailApply(q)
  PROVE  LevelInv'
<1> DEFINE m == On[q]
<1>0. /\ m \in Machine /\ On \in [Pusher \cup Puller -> Machine]
      /\ pull \in [Puller -> Pull] /\ since \in [Machine -> Nat]
      /\ missed \in [Machine -> SUBSET Nat] /\ OVERLAP \in Nat
      /\ pull[q].start \in Nat /\ pull[q].from \in Nat /\ clock \in Nat
      /\ row # NoRow => row.at \in Nat
  BY DocSyncAssumption
  DEF TypeInv, TypeOK, ServiceTypeOK, StoreTypeOK, PullTypeOK, Pull, Row
<1>1. /\ pull' = [pull EXCEPT ![q] = IdlePull] /\ pull[q].whole
      /\ since' = [since EXCEPT ![m] = PullPoint(q)]
      /\ UNCHANGED <<row, local, tombstone, clock>>
  BY DEF FailFetch, FailApply, PassOver, serviceVars, storeVars, TypeInv, Timing
<1>2. PICK times : missed' = [missed EXCEPT ![m] = @ \cup times]
  BY DEF FailFetch, FailApply, PassOver
<1>3. \A x \in Machine : missed[x] \subseteq missed'[x]
  BY <1>0, <1>2
<1>4. /\ pull'[q] = IdlePull /\ \A x \in Puller \ {q} : pull'[x] = pull[x]
      /\ since'[m] = PullPoint(q) /\ \A x \in Machine \ {m} : since'[x] = since[x]
      /\ IdlePull.pc = "idle" /\ ~IdlePull.whole /\ ~IdlePull.tomb
  BY <1>0, <1>1 DEF IdlePull
<1>5. \A x \in Machine, t \in Int : Due(x, t)' => Due(x, t)
  BY <1>1, <1>3 DEF Due, Old
<1>6. \A x \in Machine : Level(x)' <=> Level(x)
  BY <1>1 DEF Level, Has
<1>7. \A x \in Puller \ {q} : Agrees(x) => Agrees(x)'
  BY <1>0, <1>1, <1>4, <1>6 DEF Agrees
<1>8. PullPoint(q) \in Int /\ PullPoint(q) <= clock - OVERLAP
  BY <1>0, <1>1 DEF PullPoint, PurgedInv
<1>9. \A t : t = PullPoint(q) /\ Due(m, t)' => Level(m)
  <2> SUFFICES ASSUME Old(PullPoint(q)), row.at \notin missed'[m], row.by # m PROVE Level(m)
    <3>1. \A t : Due(m, t)' => Old(t) /\ row.at \notin missed'[m]
      BY <1>1 DEF Due, Old
    <3>2. row.by = m => Level(m)
      BY DEF Level
    <3>3. QED
      BY <3>1, <3>2
  <2>1. row # NoRow /\ ~row.away /\ row.at \notin missed[m] /\ Due(m, PullPoint(q))
    BY <1>0, <1>3 DEF Due, Old
  <2>2. CASE FailFetch(q)
    <3> DEFINE page == Page(On[q], pull[q].from, pull[q].from = 0)
    <3>1. missed' = [missed EXCEPT ![m] = @ \cup Times(page.row, page.del)]
      BY <2>2 DEF FailFetch, PassOver
    <3>2. page.row = row => row.at \in Times(page.row, page.del)
      BY <2>1 DEF Times
    <3>3. page.row # row
      <4> HIDE DEF page
      <4>1. QED
        BY <1>0, <3>1, <3>2
    <3>4. ~(row.at >= pull[q].from)
      BY <2>1, <3>3 DEF Page
    <3>5. Due(m, pull[q].from)
      BY <1>0, <2>1, <3>4 DEF Due, Old
    <3>6. QED
      BY <2>2, <3>5 DEF LevelInv, FailFetch
  <2>3. CASE FailApply(q)
    <3>1. missed' = [missed EXCEPT ![m] = @ \cup Times(pull[q].row, pull[q].del)]
      BY <2>3 DEF FailApply, PassOver
    <3>2. pull[q].row = row => row.at \in Times(pull[q].row, pull[q].del)
      BY <2>1 DEF Times
    <3>3. pull[q].row # row
      BY <1>0, <3>1, <3>2
    <3>4. Agrees(q)
      BY <1>1, <2>1, <2>3 DEF LevelInv, FailApply
    <3>5. QED
      BY <3>3, <3>4 DEF Agrees
  <2>4. QED
    BY <2>2, <2>3
<1>10. \A x \in Machine : (since[x] <= clock - OVERLAP /\ (Due(x, since[x]) => Level(x)))'
  <2> SUFFICES ASSUME NEW x \in Machine
               PROVE  since'[x] <= clock - OVERLAP /\ (Due(x, since[x])' => Level(x))
    BY <1>1, <1>6
  <2>1. CASE x = m
    <3>1. \A t : t = since'[m] /\ Due(m, t)' => Level(m)
      BY <1>4, <1>9
    <3>2. QED
      BY <1>1, <1>4, <1>8, <2>1, <3>1 DEF Due, Old
  <2>2. CASE x # m
    <3>1. since'[x] = since[x] /\ since[x] \in Int
      BY <1>0, <1>4, <2>2
    <3>2. Due(x, since[x])' => Due(x, since[x])
      BY <1>1, <1>3, <3>1 DEF Due, Old
    <3>3. QED
      BY <3>1, <3>2 DEF LevelInv
  <2>3. QED
    BY <2>1, <2>2
<1>11. \A x \in Puller :
       (pull[x].pc \in {"lookup", "drop", "fetch"} =>
         /\ pull[x].whole /\ pull[x].from <= PullPoint(x)
         /\ Due(On[x], pull[x].from) => Level(On[x]))'
  <2> SUFFICES ASSUME NEW x \in Puller, pull'[x].pc \in {"lookup", "drop", "fetch"}
               PROVE  /\ pull'[x].whole /\ pull'[x].from <= pull'[x].start - OVERLAP
                      /\ Due(On[x], pull[x].from)' => Level(On[x])'
    BY DEF PullPoint
  <2>1. x # q /\ pull'[x] = pull[x] /\ On[x] \in Machine
    BY <1>0, <1>4
  <2>2. pull[x].whole /\ pull[x].from <= PullPoint(x) /\ (Due(On[x], pull[x].from) => Level(On[x]))
    BY <2>1 DEF LevelInv
  <2>3. Due(On[x], pull[x].from)' => Due(On[x], pull[x].from)
    BY <1>1, <1>3, <2>1 DEF Due, Old
  <2>4. QED
    BY <1>6, <2>1, <2>2, <2>3 DEF PullPoint
<1>12. \A x \in Puller : (pull[x].pc = "apply" /\ Due(On[x], since[On[x]]) => Agrees(x))'
  <2> SUFFICES ASSUME NEW x \in Puller, pull'[x].pc = "apply", Due(On[x], since[On[x]])'
               PROVE  Agrees(x)'
    OBVIOUS
  <2>1. x # q /\ pull'[x] = pull[x] /\ On[x] \in Machine
    BY <1>0, <1>4
  <2>2. CASE On[x] # m
    <3>1. Due(On[x], since[On[x]])
      BY <1>1, <1>3, <1>4, <2>1, <2>2 DEF Due, Old
    <3>2. QED
      BY <1>7, <2>1, <3>1 DEF LevelInv
  <2>3. CASE On[x] = m
    <3>1. Due(On[q], PullPoint(q))
      BY <1>1, <1>3, <1>4, <2>1, <2>3 DEF Due, Old
    <3>2. QED
      BY <1>1, <1>7, <2>1, <2>3, <3>1 DEF LevelInv
  <2>4. QED
    BY <2>2, <2>3
<1>13. \A y, x \in Puller :
       (pull[y].pc = "apply" /\ On[x] = On[y] /\ pull[x].whole /\ Due(On[x], PullPoint(x))
        => Agrees(y))'
  <2> SUFFICES ASSUME NEW y \in Puller, NEW x \in Puller, pull'[y].pc = "apply", On[x] = On[y],
                      pull'[x].whole, Due(On[x], PullPoint(x))'
               PROVE  Agrees(y)'
    OBVIOUS
  <2>1. x # q /\ y # q /\ pull'[x] = pull[x] /\ pull'[y] = pull[y] /\ On[x] \in Machine
    BY <1>0, <1>4
  <2>2. Due(On[x], PullPoint(x))
    BY <1>1, <1>3, <2>1 DEF Due, Old, PullPoint
  <2>3. QED
    BY <1>7, <2>1, <2>2 DEF LevelInv
<1>14. \A x \in Puller : (pull[x].tomb => tombstone[On[x]])'
  BY <1>1, <1>4 DEF LevelInv
<1>15. QED
  BY <1>10, <1>11, <1>12, <1>13, <1>14 DEF LevelInv

LEMMA LevelStep ==
  TypeInv /\ PurgedInv /\ SentInv /\ DatedInv /\ LevelInv /\ [Next]_vars /\ [NoStalePage]_vars
  => LevelInv'
<1> SUFFICES ASSUME TypeInv, PurgedInv, SentInv, DatedInv, LevelInv, [Next]_vars,
                    [NoStalePage]_vars
             PROVE  LevelInv'
  OBVIOUS
<1>1. ASSUME NEW q \in Puller, PullStep(q) \/ FailPull(q),
             ~Apply(q), ~ApplyOnly(q), ~FailFetch(q), ~FailApply(q)
      PROVE  LevelInv'
  <2>0. /\ pull[q] \in Pull /\ IdlePull \in Pull /\ pull \in [Puller -> Pull]
        /\ On[q] \in Machine /\ clock \in Nat /\ since \in [Machine -> Nat]
        /\ OVERLAP \in Nat
        /\ local \in [Machine -> Copy \cup {NoCopy}]
    BY DocSyncAssumption
    DEF TypeInv, TypeOK, StoreTypeOK, PullTypeOK, Pull, IdlePull, PullPC
  <2>1. UNCHANGED <<row, since, missed, tombstone, clock>>
    BY <1>1, PullFrame, PullPointMoves
  <2>2. \A m \in Machine : Level(m) => Level(m)'
    <3>1. \A m \in Machine : local'[m] \in {NoCopy, local[m]}
      BY <1>1, PullDrops DEF TypeInv, TypeOK
    <3>2. QED
      BY <2>1, <3>1 DEF Level, Has
  <2>3. CASE BeginPull(q)
    <3> DEFINE r == [IdlePull EXCEPT
                !.pc = IF Has(On[q]) /\ ~local[On[q]].dirty THEN "lookup" ELSE "fetch",
                !.whole = TRUE, !.start = clock, !.from = since[On[q]]]
    <3>1. /\ r.pc \in {"lookup", "fetch"} /\ r.whole /\ ~r.tomb
          /\ r.start = clock /\ r.from = since[On[q]]
      BY DEF IdlePull
    <3>2. r \in Pull
      BY <2>0 DEF IdlePull, Pull, PullPC
    <3>3. pull[q].pc = "idle" /\ pull' = [pull EXCEPT ![q] = r]
      BY <2>3 DEF BeginPull
    <3> HIDE DEF r
    <3>4. \A x \in Puller : On[x] = On[q] => pull[x].pc # "apply"
      <4>1. pull'[q] # pull[q]
        BY <2>0, <3>1, <3>3
      <4>2. NoStalePage
        BY <4>1 DEF vars
      <4>3. QED
        BY <2>3, <4>2 DEF NoStalePage
    <3>5. r.from <= r.start - OVERLAP /\ (Due(On[q], r.from) => Level(On[q]))
      BY <2>0, <3>1 DEF LevelInv
    <3>6. QED
      BY <2>1, <2>2, <3>1, <3>2, <3>3, <3>4, <3>5, PullLevel
  <2>4. CASE LookUp(q) \/ DropMoved(q) \/ FailMoveCheck(q)
    <3>1. PICK pc \in {"drop", "fetch"} :
            /\ pull' = [pull EXCEPT ![q] = [pull[q] EXCEPT !.pc = pc]]
            /\ pull[q].pc \in {"lookup", "drop"}
      <4>1. \A pc : PullTo(q, pc) => pull' = [pull EXCEPT ![q] = [pull[q] EXCEPT !.pc = pc]]
        BY DEF PullTo
      <4>2. QED
        BY <2>4, <4>1 DEF LookUp, DropMoved, FailMoveCheck
    <3> DEFINE r == [pull[q] EXCEPT !.pc = pc]
    <3>2. /\ r \in Pull /\ r.pc = pc /\ r.tomb = pull[q].tomb /\ r.whole = pull[q].whole
          /\ r.start = pull[q].start /\ r.from = pull[q].from
      BY <2>0 DEF Pull, PullPC
    <3>3. pull' = [pull EXCEPT ![q] = r]
      BY <3>1
    <3> HIDE DEF r
    <3>4. /\ pull[q].whole /\ r.from <= r.start - OVERLAP /\ (Due(On[q], r.from) => Level(On[q]))
          /\ r.tomb => tombstone[On[q]]
      BY <3>1, <3>2 DEF LevelInv, PullPoint
    <3>5. QED
      BY <2>1, <2>2, <3>1, <3>2, <3>3, <3>4, PullLevel
  <2>5. CASE Fetch(q)
    <3> DEFINE from == pull[q].from
               page == Page(On[q], from, from = 0)
               r == WithPage(pull[q], page)
    <3>1. /\ r.pc = "apply" /\ r.whole = pull[q].whole /\ r.start = pull[q].start
          /\ r.row = page.row /\ r.del = page.del /\ r.tomb = page.tomb
      BY <2>0 DEF WithPage, Pull
    <3>2. r \in Pull /\ from \in Nat /\ (from = 0) \in BOOLEAN
      <4>1. from \in Nat /\ (from = 0) \in BOOLEAN
        BY <2>0 DEF Pull
      <4>2. QED
        BY <2>0, <4>1, PageType DEF TypeInv, TypeOK
    <3>3. page.tomb = tombstone[On[q]]
      BY DEF Page
    <3>4. /\ pull[q].pc = "fetch" /\ pull' = [pull EXCEPT ![q] = r]
          /\ UNCHANGED <<row, local, tombstone>>
      BY <2>5 DEF Fetch, serviceVars, storeVars
    <3>5. pull[q].whole /\ (Due(On[q], from) => Level(On[q]))
      BY <3>4 DEF LevelInv
    <3>6. pull'[q].row = page.row /\ pull'[q].del = page.del
      BY <2>0, <3>1, <3>4
    <3>7. row # NoRow /\ ~row.away /\ row.at \notin missed[On[q]] => Agrees(q)'
      BY <3>2, <3>4, <3>5, <3>6, PageAgrees
    <3> HIDE DEF from, page, r
    <3>8. QED
      BY <2>1, <2>2, <3>1, <3>2, <3>3, <3>4, <3>5, <3>7, PullLevel
  <2>6. CASE HookFetch(q)
    <3> DEFINE from == since[On[q]]
               page == Page(On[q], from, FALSE)
               r == WithPage(IdlePull, page)
    <3>1. /\ r.pc = "apply" /\ ~r.whole
          /\ r.row = page.row /\ r.del = page.del /\ r.tomb = page.tomb
      BY DEF WithPage, IdlePull
    <3>2. r \in Pull /\ from \in Nat /\ FALSE \in BOOLEAN
      BY <2>0, PageType DEF TypeInv, TypeOK
    <3>3. page.tomb = tombstone[On[q]]
      BY DEF Page
    <3>4. /\ pull' = [pull EXCEPT ![q] = r] /\ UNCHANGED <<row, local, tombstone>>
      BY <2>6 DEF HookFetch, serviceVars, storeVars
    <3>5. Due(On[q], from) => Level(On[q])
      BY <2>0 DEF LevelInv
    <3>6. pull'[q].row = page.row /\ pull'[q].del = page.del
      BY <2>0, <3>1, <3>4
    <3>7. row # NoRow /\ ~row.away /\ row.at \notin missed[On[q]] => Agrees(q)'
      BY <3>2, <3>4, <3>5, <3>6, PageAgrees
    <3> HIDE DEF from, page, r
    <3>8. QED
      BY <2>1, <2>2, <3>1, <3>2, <3>3, <3>4, <3>7, PullLevel
  <2>7. CASE LosePull(q)
    <3>1. pull' = [pull EXCEPT ![q] = IdlePull]
      BY <2>7 DEF LosePull
    <3>2. IdlePull.pc = "idle" /\ ~IdlePull.whole /\ ~IdlePull.tomb
      BY DEF IdlePull
    <3>3. QED
      BY <2>0, <2>1, <2>2, <3>1, <3>2, PullLevel
  <2>8. QED
    BY <1>1, <2>3, <2>4, <2>5, <2>6, <2>7 DEF PullStep, FailPull
<1>2. CASE Quiet
  BY <1>2, LevelQuiet
<1>3. QED
  BY <1>1, <1>2, AppliedLevel, FailedLevel DEF Next, Quiet

\* No write slips between two pulls but one that a failed page or document
\* passed over, for any number of machines, pushes and pulls and whatever is
\* forgotten, restored, moved and lost, as long as a push records its answer
\* within the overlap and no full pull begins on a machine while another one
\* there holds a page.
THEOREM NothingSlips ==
  ASSUME SettlesSoon
  PROVE  Spec /\ [][NoStalePage]_vars => []NeverBehind
<1> DEFINE AllInv == TypeInv /\ PurgedInv /\ SentInv /\ DatedInv /\ LevelInv
<1>1. Init => AllInv
  <2>1. Init => PurgedInv
    BY DocSyncAssumption DEF Init, ServiceInit, PurgedInv, IsPurged, IdlePull
  <2>2. Init => SentInv
    BY DEF Init, SentInv, IdlePush
  <2>3. Init => DatedInv
    BY DocSyncAssumption DEF Init, ServiceInit, DatedInv
  <2>4. Init => LevelInv
    BY DocSyncAssumption DEF Init, ServiceInit, LevelInv, Due, Old, IdlePull
  <2>5. QED
    BY <2>1, <2>2, <2>3, <2>4, TypeInit
<1>2. AllInv /\ [Next]_vars /\ [NoStalePage]_vars => AllInv'
  BY TypeStep, PurgedStep, SentStep, DatedStep, LevelStep
<1>3. AllInv => NeverBehind
  BY DEF LevelInv, NeverBehind
<1>4. QED
  BY <1>1, <1>2, <1>3, PTL DEF Spec

\* In particular when each machine runs one pull at a time, under the same
\* exception.
COROLLARY NothingSlipsAlone ==
  ASSUME SettlesSoon, \A q, x \in Puller : On[q] = On[x] => q = x
  PROVE  Spec => []NeverBehind
<1>1. NoStalePage
  BY DEF NoStalePage, BeginPull
<1>2. [][NoStalePage]_vars
  BY <1>1, PTL
<1>3. QED
  BY <1>2, NothingSlips, PTL
=============================================================================
