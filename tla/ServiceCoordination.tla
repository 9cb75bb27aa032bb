------------------------ MODULE ServiceCoordination ------------------------
(***************************************************************************)
(* packages/service/src/coord.ts: the leases of one collection on the sync *)
(* service.  Every operation is a READ COMMITTED transaction and every     *)
(* statement of it a step here, seeing what is committed and its own       *)
(* writes.  An acquire or a release holds the collection's advisory lock   *)
(* to its end, so one of them runs at a time; a heartbeat does not take it *)
(* and meets them on row locks only.                                       *)
(*                                                                         *)
(* Merged into one step: a statement and the wait for its row locks, the   *)
(* last write of a transaction and its COMMIT.  Left out: the lease log,   *)
(* and the counters, one statement each as in LocalCoordination.           *)
(***************************************************************************)
EXTENDS LeaseRules

CONSTANTS Sent,              \* the requests sent
          MaxTime            \* bound of the model

ASSUME ServiceAssumption ==
  /\ Sent \subseteq Request
  /\ MaxTime \in Nat

VARIABLES
  leases,     \* the committed rows by key
  tx,         \* the transaction that holds the collection lock
  beat,       \* heartbeats in flight: the rows renewed, by their new expires_at
  now,        \* clock_timestamp()
  revived,    \* history: leases whose renewal committed after they had expired
  reclaimed   \* history: leases granted with reclaim

vars == <<leases, tx, beat, now, revived, reclaimed>>

\* pruned holds the keys deleted and not committed yet, live the keys the
\* conflict check found.
TxPC == {"idle", "prev", "check", "grant"}
Untouched == [k \in Key |-> 0]
NoTx == [pc |-> "idle", by |-> Nobody, r |-> Omitted, pruned |-> {},
         prev |-> NoLease, live |-> {}]

TypeOK ==
  /\ leases \in [Key -> Row]
  /\ tx \in [pc : TxPC, by : Session \cup {Nobody}, r : Request \cup {Omitted},
             pruned : SUBSET Key, prev : Row, live : SUBSET Key]
  /\ tx.pc # "idle" => tx.by \in Session /\ tx.r \in Request
  /\ beat \in [Session -> [Key -> Nat]]
  /\ now \in Nat
  /\ revived \subseteq Key
  /\ reclaimed \subseteq Key

Init ==
  /\ leases = [k \in Key |-> NoLease]
  /\ tx = NoTx
  /\ beat = [s \in Session |-> Untouched]
  /\ now = 0
  /\ revived = {}
  /\ reclaimed = {}

-----------------------------------------------------------------------------
\* The row locks: of heartbeats in flight, and of the transaction.
BeatLocks == {k \in Key : \E s \in Session : beat[s][k] # 0}

\* Mutant: the row is read without FOR UPDATE.
TxLocksPruned == tx.pruned

TxLocks == tx.pruned \cup (IF tx.pc \in {"check", "grant"} THEN {tx.r.key} ELSE {})

\* The rows as the transaction sees them.
Mine == [k \in Key |-> IF k \in tx.pruned THEN NoLease ELSE leases[k]]

\* acquire: lockCollection, then the DELETE of what expired long ago.
Begin(s, r) ==
  LET pruned == {k \in Key : IsHeld(leases[k]) /\ Prune(leases, now)[k] = NoLease}
  IN /\ tx.pc = "idle"
     /\ pruned \cap BeatLocks = {}
     /\ tx' = [NoTx EXCEPT !.pc = "prev", !.by = s, !.r = r, !.pruned = pruned]
     /\ UNCHANGED <<leases, beat, now, revived, reclaimed>>

\* SELECT ... FOR UPDATE of the row on the key.
ReadPrev ==
  /\ tx.pc = "prev"
  /\ tx.r.key \notin BeatLocks
  /\ tx' = [tx EXCEPT !.pc = "check", !.prev = Mine[tx.r.key]]
  /\ UNCHANGED <<leases, beat, now, revived, reclaimed>>

\* The live query, at a later clock_timestamp(); a refusal commits the DELETE.
CheckLive ==
  LET s == tx.by
      scope == GrantScope(tx.prev, s, tx.r)
      refused == Conflicts(Mine, s, tx.r, scope, now) # {}
  IN /\ tx.pc = "check"
     /\ tx' = IF refused THEN NoTx
              ELSE [tx EXCEPT !.pc = "grant",
                              !.live = LiveAgainst(Mine, tx.r.key, scope, now)]
     /\ leases' = IF refused THEN Mine ELSE leases
     /\ revived' = IF refused THEN revived \ tx.pruned ELSE revived
     /\ reclaimed' = IF refused THEN reclaimed \ tx.pruned ELSE reclaimed
     /\ UNCHANGED <<beat, now>>

\* Mutant: whether a takeover is a reclaim is judged from the row read first.
WasReclaimedByPrev == IsHeld(tx.prev) /\ tx.r.reclaim

\* Judged from the live query.
WasReclaimed == ~IsMine(tx.prev, tx.by) /\ tx.r.key \in tx.live

\* The upsert on the key, and the end of the transaction.
Grant ==
  LET s == tx.by  k == tx.r.key IN
  /\ tx.pc = "grant"
  /\ leases' = [Mine EXCEPT ![k] = GrantedLease(tx.prev, s, GrantScope(tx.prev, s, tx.r),
                                      GrantTtl(tx.prev, s, tx.r), now, WasReclaimed)]
  /\ revived' = revived \ (tx.pruned \cup {k})
  /\ reclaimed' = (reclaimed \ (tx.pruned \cup {k})) \cup (IF tx.r.reclaim THEN {k} ELSE {})
  /\ tx' = NoTx
  /\ UNCHANGED <<beat, now>>

\* release: the holder's own row goes.
Release(s, k) ==
  /\ tx.pc = "idle"
  /\ k \notin BeatLocks
  /\ IsMine(leases[k], s)
  /\ leases' = [leases EXCEPT ![k] = NoLease]
  /\ revived' = revived \ {k}
  /\ reclaimed' = reclaimed \ {k}
  /\ UNCHANGED <<tx, beat, now>>

\* heartbeat: its UPDATE comes to the next of the session's rows.  A row that
\* is locked is waited for and looked at again.
RenewRow(s, k) ==
  /\ k \notin TxLocks \cup BeatLocks
  /\ IsMine(leases[k], s)
  /\ beat' = [beat EXCEPT ![s][k] = Renewed(leases[k], now).expires_at]
  /\ UNCHANGED <<leases, tx, now, revived, reclaimed>>

CommitBeat(s) ==
  LET renewed == {k \in Key : beat[s][k] # 0} IN
  /\ renewed # {}
  /\ leases' = [k \in Key |-> IF k \in renewed
                              THEN [leases[k] EXCEPT !.expires_at = beat[s][k]]
                              ELSE leases[k]]
  /\ revived' = revived \cup {k \in renewed : ~IsLive(leases[k], now)}
  /\ beat' = [beat EXCEPT ![s] = Untouched]
  /\ UNCHANGED <<tx, now, reclaimed>>

\* withUserTx: a transaction that fails is rolled back.
RollBack ==
  /\ tx.pc # "idle"
  /\ tx' = NoTx
  /\ UNCHANGED <<leases, beat, now, revived, reclaimed>>
RollBackBeat(s) ==
  /\ beat[s] # Untouched
  /\ beat' = [beat EXCEPT ![s] = Untouched]
  /\ UNCHANGED <<leases, tx, now, revived, reclaimed>>

Tick ==
  /\ now < MaxTime
  /\ now' = now + 1
  /\ UNCHANGED <<leases, tx, beat, revived, reclaimed>>

Next ==
  \/ \E s \in Session, r \in Sent : Begin(s, r)
  \/ ReadPrev \/ CheckLive \/ Grant \/ RollBack
  \/ \E s \in Session, k \in Key : Release(s, k) \/ RenewRow(s, k)
  \/ \E s \in Session : CommitBeat(s) \/ RollBackBeat(s)
  \/ Tick

Spec == Init /\ [][Next]_vars
-----------------------------------------------------------------------------
\* Two live leases cover the same work and are held by different sessions.
Clash(j, k) ==
  /\ j # k
  /\ IsLive(leases[j], now) /\ IsLive(leases[k], now)
  /\ ~IsMine(leases[j], leases[k].session)
  /\ leases[j].scope \cap leases[k].scope # {}

\* The rules of the local backend hold on the service too, statement by
\* statement: overlapping work is held twice only after a reclaim within one
\* user, or where a heartbeat committed after the lease it renews had expired
\* (heartbeat takes no collection lock, acquire's live query no row locks).
ExclusiveUnlessRevived ==
  \A j, k \in Key :
    Clash(j, k) =>
      \/ {j, k} \cap revived # {}
      \/ /\ {j, k} \cap reclaimed # {}
         /\ UserOf[leases[j].session] = UserOf[leases[k].session]

\* took_over_from tells the truth although the row on the key is read at one
\* time, the live leases at a second and the grant written at a third.
TakeoverRecordHonest ==
  \A k \in Key :
    LET from == leases[k].took_over_from
    IN from.session # Nobody =>
         IF from.reclaim
         THEN UserOf[from.session] = UserOf[leases[k].session]
         ELSE from.expired_at <= leases[k].acquired_at

\* A live lease changes hands only to another session of its user, which the
\* new row says, and disappears only through its holder's own release: a
\* renewal is never lost to the acquire it races (FOR UPDATE, coord.ts:244-246).
NoSilentTakeover ==
  [][\A k \in Key :
       IsLive(leases[k], now) /\ leases'[k].session # leases[k].session =>
         IF IsHeld(leases'[k])
         THEN /\ UserOf[leases'[k].session] = UserOf[leases[k].session]
              /\ leases'[k].took_over_from.session = leases[k].session
              /\ leases'[k].took_over_from.reclaim
         ELSE Release(leases[k].session, k)]_vars
=============================================================================
