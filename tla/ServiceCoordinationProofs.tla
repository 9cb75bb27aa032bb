---------------------- MODULE ServiceCoordinationProofs ----------------------
(***************************************************************************)
(* Theorems about ServiceCoordination, for every set of sessions, keys and *)
(* scope entries, and for every request.                                   *)
(***************************************************************************)
EXTENDS ServiceCoordination, TLAPS

-----------------------------------------------------------------------------
(* The rows of a lease table *)

\* The fields of a row, present or absent.
LEMMA RowFields ==
  ASSUME NEW l \in Row
  PROVE  /\ l.session \in Session \cup {Nobody} /\ l.scope \in Scopes /\ l.ttl \in Nat
         /\ l.acquired_at \in Nat /\ l.expires_at \in Nat /\ l.took_over_from \in Takeover
         /\ IsHeld(l) <=> l \in Lease
         /\ ~IsHeld(l) => l = NoLease
<1>1. CASE l \in Lease
  BY <1>1, LeaseAssumption DEF Lease, IsHeld
<1>2. CASE l = NoLease
  <2>1. NoLease \notin Lease /\ ~IsHeld(NoLease)
    BY LeaseAssumption DEF Lease, NoLease, IsHeld
  <2> QED BY <1>2, <2>1 DEF NoLease, NoTakeover, Takeover, Scopes
<1> QED BY <1>1, <1>2 DEF Row

\* Pruning keeps the table well typed and every surviving row as it was.
LEMMA PruneRows ==
  ASSUME NEW table \in [Key -> Row], NEW t \in Nat
  PROVE  /\ Prune(table, t) \in [Key -> Row]
         /\ \A k \in Key : Prune(table, t)[k] \in {table[k], NoLease}
         /\ \A k \in Key : IsLive(table[k], t) => Prune(table, t)[k] = table[k]
<1>1. NoLease \in Row
  BY DEF Row
<1>2. \A k \in Key : IsLive(table[k], t) => ~(table[k].expires_at < t - EXPIRED_KEEP_SECONDS)
  <2>1. \A k \in Key : table[k].expires_at \in Nat
    BY RowFields
  <2> QED BY <2>1, LeaseAssumption DEF IsLive
<1> QED BY <1>1, <1>2 DEF Prune

\* The row a grant stores is a lease of the grantee covering its key, live for
\* its ttl.
LEMMA GrantedRow ==
  ASSUME NEW prev \in Row, NEW s \in Session, NEW r \in Request,
         NEW t \in Nat, NEW taken \in BOOLEAN
  PROVE  /\ GrantScope(prev, s, r) \in Scopes
         /\ GrantTtl(prev, s, r) \in Nat
         /\ GrantedLease(prev, s, GrantScope(prev, s, r), GrantTtl(prev, s, r), t, taken)
              \in Lease
<1>1. r.key \in Key /\ r.scope \in Scopes \cup {Omitted} /\ r.ttl \in Nat \cup {Omitted}
  BY LeaseAssumption DEF Request
<1>2. prev.scope \in Scopes /\ prev.ttl \in Nat /\ prev.acquired_at \in Nat
      /\ prev.session \in Session \cup {Nobody} /\ prev.expires_at \in Nat
      /\ prev.took_over_from \in Takeover
  BY RowFields
<1>3. GrantScope(prev, s, r) \in Scopes
  BY <1>1, <1>2 DEF GrantScope, EffectiveScope, Scopes
<1>4. GrantTtl(prev, s, r) \in Nat
  BY <1>1, <1>2, LeaseAssumption DEF GrantTtl
<1>5. [session |-> prev.session, expired_at |-> prev.expires_at, reclaim |-> taken] \in Takeover
  BY <1>2 DEF Takeover
<1>6. NoTakeover \in Takeover
  BY DEF NoTakeover, Takeover
<1> QED BY <1>2, <1>3, <1>4, <1>5, <1>6 DEF GrantedLease, Lease

\* A renewed row is a lease of the same holder and scope that ends ttl from now.
LEMMA RenewedRow ==
  ASSUME NEW l \in Lease, NEW t \in Nat
  PROVE  /\ Renewed(l, t) \in Lease
         /\ Renewed(l, t) = [session |-> l.session, scope |-> l.scope, ttl |-> l.ttl,
                             acquired_at |-> l.acquired_at, expires_at |-> t + l.ttl,
                             took_over_from |-> l.took_over_from]
<1>1. l.ttl \in Nat /\ t + l.ttl \in Nat
  BY DEF Lease
<1>2. Renewed(l, t) = [session |-> l.session, scope |-> l.scope, ttl |-> l.ttl,
                       acquired_at |-> l.acquired_at, expires_at |-> t + l.ttl,
                       took_over_from |-> l.took_over_from]
  BY DEF Renewed, Lease
<1> QED BY <1>1, <1>2 DEF Lease

\* Row locks: no row is locked by a heartbeat and by the transaction.
LocksApart == BeatLocks \cap TxLocks = {}

\* A heartbeat in flight renewed rows its session holds.
BeatsOwn == \A s \in Session, k \in Key : beat[s][k] # 0 => IsMine(leases[k], s)

\* What the transaction deleted has expired.
PrunedDead == \A k \in tx.pruned : ~IsLive(leases[k], now)

\* The row read under FOR UPDATE is still the row.
PrevCurrent == tx.pc \in {"check", "grant"} => tx.prev = Mine[tx.r.key]

IdleClean == tx.pc = "idle" => tx = NoTx

LockInv == LocksApart /\ BeatsOwn /\ PrunedDead /\ PrevCurrent /\ IdleClean

-----------------------------------------------------------------------------
\* The rows as the transaction sees them are the committed ones without those
\* it deleted.
LEMMA MineRows ==
  ASSUME TypeOK
  PROVE  /\ Mine \in [Key -> Row]
         /\ \A k \in Key : Mine[k] = IF k \in tx.pruned THEN NoLease ELSE leases[k]
BY DEF TypeOK, Mine, Row

\* NoTx is a well typed transaction that locks nothing.
LEMMA NoTxFacts ==
  /\ NoTx.pc = "idle" /\ NoTx.pruned = {} /\ NoTx.by = Nobody /\ NoTx.r = Omitted
  /\ NoTx.prev = NoLease /\ NoTx.live = {}
  /\ NoTx \in [pc : TxPC, by : Session \cup {Nobody}, r : Request \cup {Omitted},
               pruned : SUBSET Key, prev : Row, live : SUBSET Key]
BY DEF NoTx, TxPC, Row

\* The end of a heartbeat moves nothing but the ends of the leases it renewed,
\* and records those it brought back to life.
LEMMA BeatRows ==
  ASSUME TypeOK, BeatsOwn, NEW s \in Session, CommitBeat(s), NEW k \in Key
  PROVE  /\ leases'[k] \in Row
         /\ leases'[k].session = leases[k].session
         /\ leases'[k].scope = leases[k].scope
         /\ leases'[k].acquired_at = leases[k].acquired_at
         /\ leases'[k].took_over_from = leases[k].took_over_from
         /\ beat[s][k] = 0 => leases'[k] = leases[k]
         /\ IsLive(leases'[k], now) => IsLive(leases[k], now) \/ k \in revived'
<1>1. beat[s][k] \in Nat /\ leases[k] \in Row
  BY DEF TypeOK
<1>2. CASE beat[s][k] = 0
  <2>1. leases'[k] = leases[k]
    BY <1>2 DEF CommitBeat
  <2> QED BY <1>1, <1>2, <2>1
<1>3. CASE beat[s][k] # 0
  <2>1. leases[k] \in Lease
    BY <1>1, <1>3, RowFields, LeaseAssumption DEF BeatsOwn, IsMine, IsHeld
  <2>2. leases'[k] = [leases[k] EXCEPT !.expires_at = beat[s][k]]
    BY <1>3 DEF CommitBeat
  <2>3. /\ leases'[k] \in Lease
        /\ leases'[k].session = leases[k].session
        /\ leases'[k].scope = leases[k].scope
        /\ leases'[k].acquired_at = leases[k].acquired_at
        /\ leases'[k].took_over_from = leases[k].took_over_from
    BY <1>1, <2>1, <2>2 DEF Lease
  <2>4. ~IsLive(leases[k], now) => k \in revived'
    BY <1>3 DEF CommitBeat
  <2> QED BY <1>3, <2>3, <2>4 DEF Row
<1> QED BY <1>2, <1>3

\* What a grant stores, and where.
LEMMA GrantRows ==
  ASSUME TypeOK, Grant
  PROVE  /\ tx.r.key \in Key /\ tx.by \in Session /\ tx.r \in Request
         /\ leases' \in [Key -> Row]
         /\ leases'[tx.r.key] =
              GrantedLease(tx.prev, tx.by, GrantScope(tx.prev, tx.by, tx.r),
                           GrantTtl(tx.prev, tx.by, tx.r), now, WasReclaimed)
         /\ \A k \in Key \ {tx.r.key} : leases'[k] = Mine[k]
<1>1. tx.by \in Session /\ tx.r \in Request /\ tx.prev \in Row /\ now \in Nat
  BY DEF TypeOK, Grant
<1>2. tx.r.key \in Key
  BY <1>1 DEF Request
<1>3. WasReclaimed \in BOOLEAN
  BY DEF WasReclaimed
<1> DEFINE row == GrantedLease(tx.prev, tx.by, GrantScope(tx.prev, tx.by, tx.r),
                               GrantTtl(tx.prev, tx.by, tx.r), now, WasReclaimed)
<1>4. row \in Row
  BY <1>1, <1>3, GrantedRow DEF Row
<1>5. leases' = [Mine EXCEPT ![tx.r.key] = row]
  BY DEF Grant
<1> HIDE DEF row
<1>6. /\ leases' \in [Key -> Row] /\ leases'[tx.r.key] = row
      /\ \A k \in Key \ {tx.r.key} : leases'[k] = Mine[k]
  BY <1>2, <1>4, <1>5, MineRows
<1> QED BY <1>1, <1>2, <1>6 DEF row

-----------------------------------------------------------------------------
\* Every step keeps the types.
LEMMA TypeStep ==
  ASSUME TypeOK, BeatsOwn, [Next]_vars
  PROVE  TypeOK'
<1> USE DEF TypeOK
<1>1. ASSUME NEW s \in Session, NEW r \in Sent, Begin(s, r)
      PROVE  TypeOK'
  <2>1. r \in Request
    BY ServiceAssumption
  <2> DEFINE pruned == {k \in Key : IsHeld(leases[k]) /\ Prune(leases, now)[k] = NoLease}
  <2>2. tx' = [NoTx EXCEPT !.pc = "prev", !.by = s, !.r = r, !.pruned = pruned]
    BY <1>1 DEF Begin
  <2>3. pruned \subseteq Key
    OBVIOUS
  <2> HIDE DEF pruned
  <2>4. /\ tx' \in [pc : TxPC, by : Session \cup {Nobody}, r : Request \cup {Omitted},
                    pruned : SUBSET Key, prev : Row, live : SUBSET Key]
        /\ tx'.by = s /\ tx'.r = r
    BY <2>1, <2>2, <2>3, NoTxFacts DEF TxPC
  <2> QED BY <1>1, <2>1, <2>4 DEF Begin
<1>2. ASSUME ReadPrev PROVE TypeOK'
  <2>1. tx.r.key \in Key
    BY <1>2 DEF ReadPrev, Request
  <2>2. Mine[tx.r.key] \in Row
    BY <2>1, MineRows
  <2> QED BY <1>2, <2>2 DEF ReadPrev, TxPC
<1>3. ASSUME CheckLive PROVE TypeOK'
  <2> DEFINE live == LiveAgainst(Mine, tx.r.key, GrantScope(tx.prev, tx.by, tx.r), now)
  <2>1. live \in SUBSET Key
    BY DEF LiveAgainst
  <2> HIDE DEF live
  <2>2. [tx EXCEPT !.pc = "grant", !.live = live] \in
          [pc : TxPC, by : Session \cup {Nobody}, r : Request \cup {Omitted},
           pruned : SUBSET Key, prev : Row, live : SUBSET Key]
    BY <2>1 DEF TxPC
  <2>3. tx' = NoTx \/ tx' = [tx EXCEPT !.pc = "grant", !.live = live]
    BY <1>3 DEF CheckLive, live
  <2>4. tx.by \in Session /\ tx.r \in Request
    BY <1>3 DEF CheckLive
  <2>5. /\ tx' \in [pc : TxPC, by : Session \cup {Nobody}, r : Request \cup {Omitted},
                    pruned : SUBSET Key, prev : Row, live : SUBSET Key]
        /\ tx'.pc # "idle" => tx'.by \in Session /\ tx'.r \in Request
    BY <2>2, <2>3, <2>4, NoTxFacts
  <2>6. leases' \in [Key -> Row] /\ revived' \subseteq Key /\ reclaimed' \subseteq Key
        /\ beat' = beat /\ now' = now
    BY <1>3, MineRows DEF CheckLive
  <2> QED BY <2>5, <2>6
<1>4. ASSUME Grant PROVE TypeOK'
  <2>1. revived' \subseteq Key /\ reclaimed' \subseteq Key /\ beat' = beat /\ now' = now
        /\ tx' = NoTx
    BY <1>4, GrantRows DEF Grant
  <2> QED BY <1>4, <2>1, GrantRows, NoTxFacts
<1>5. ASSUME RollBack PROVE TypeOK'
  BY <1>5, NoTxFacts DEF RollBack
<1>6. ASSUME NEW s \in Session, NEW k \in Key, Release(s, k) PROVE TypeOK'
  BY <1>6 DEF Release, Row
<1>7. ASSUME NEW s \in Session, NEW k \in Key, RenewRow(s, k) PROVE TypeOK'
  <2>1. leases[k] \in Lease
    BY <1>7, RowFields, LeaseAssumption DEF RenewRow, IsMine, IsHeld
  <2>2. Renewed(leases[k], now).expires_at \in Nat
    BY <2>1, RenewedRow DEF Lease
  <2> QED BY <1>7, <2>2 DEF RenewRow
<1>8. ASSUME NEW s \in Session, CommitBeat(s) PROVE TypeOK'
  <2>1. leases' \in [Key -> Row]
    BY <1>8, BeatRows DEF CommitBeat
  <2> QED BY <1>8, <2>1 DEF CommitBeat, Untouched
<1>9. ASSUME NEW s \in Session, RollBackBeat(s) PROVE TypeOK'
  BY <1>9 DEF RollBackBeat, Untouched
<1>10. ASSUME Tick PROVE TypeOK'
  BY <1>10 DEF Tick
<1>11. ASSUME UNCHANGED vars PROVE TypeOK'
  BY <1>11 DEF vars
<1> QED BY <1>1, <1>2, <1>3, <1>4, <1>5, <1>6, <1>7, <1>8, <1>9, <1>10, <1>11 DEF Next

-----------------------------------------------------------------------------
\* A row that neither the transaction nor a heartbeat locks is as it was.
LEMMA MineSame ==
  ASSUME leases' = leases, tx'.pruned = tx.pruned
  PROVE  Mine' = Mine
BY DEF Mine

\* Nothing is locked by a transaction that has ended, nor checked by it.
LEMMA TxOver ==
  ASSUME tx' = NoTx
  PROVE  LocksApart' /\ PrunedDead' /\ PrevCurrent' /\ IdleClean'
<1>1. tx'.pc = "idle" /\ tx'.pruned = {}
  BY NoTxFacts
<1> QED BY <1>1 DEF LocksApart, TxLocks, PrunedDead, PrevCurrent, IdleClean

\* The rows the transaction locks are not renewed meanwhile.
LEMMA LockedRows ==
  ASSUME TypeOK, LocksApart, NEW k \in Key, k \in TxLocks, NEW s \in Session
  PROVE  beat[s][k] = 0
BY DEF LocksApart, BeatLocks

\* Every step keeps the row locks, and what they protect.
LEMMA LockStep ==
  ASSUME TypeOK, TypeOK', LockInv, [Next]_vars
  PROVE  LockInv'
<1> USE DEF LockInv
<1>1. ASSUME NEW s \in Session, NEW r \in Sent, Begin(s, r)
      PROVE  LockInv'
  <2> DEFINE pruned == {k \in Key : IsHeld(leases[k]) /\ Prune(leases, now)[k] = NoLease}
  <2>1. tx'.pc = "prev" /\ tx'.pruned = pruned
    BY <1>1, NoTxFacts DEF Begin, NoTx
  <2>2. pruned \cap BeatLocks = {} /\ leases' = leases /\ beat' = beat /\ now' = now
    BY <1>1 DEF Begin
  <2>3. \A k \in pruned : ~IsLive(leases[k], now)
    <3>1. leases \in [Key -> Row] /\ now \in Nat
      BY DEF TypeOK
    <3>2. \A k \in Key : IsLive(leases[k], now) => Prune(leases, now)[k] = leases[k]
      BY <3>1, PruneRows
    <3> QED BY <3>2 DEF IsHeld, NoLease
  <2> HIDE DEF pruned
  <2> QED BY <2>1, <2>2, <2>3
          DEF LocksApart, BeatLocks, TxLocks, BeatsOwn, PrunedDead, PrevCurrent, IdleClean
<1>2. ASSUME ReadPrev PROVE LockInv'
  <2>1. /\ tx'.pc = "check" /\ tx'.pruned = tx.pruned /\ tx'.r = tx.r
        /\ tx'.prev = Mine[tx.r.key] /\ tx.r.key \notin BeatLocks
        /\ leases' = leases /\ beat' = beat /\ now' = now
    BY <1>2 DEF ReadPrev, TypeOK
  <2>2. Mine' = Mine
    BY <2>1, MineSame
  <2>3. TxLocks' = tx.pruned \cup {tx.r.key}
    BY <2>1 DEF TxLocks
  <2>4. LocksApart'
    BY <2>1, <2>3 DEF LocksApart, BeatLocks, TxLocks
  <2> QED BY <2>1, <2>2, <2>4 DEF BeatsOwn, PrunedDead, PrevCurrent, IdleClean
<1>3. ASSUME CheckLive PROVE LockInv'
  <2>1. CASE tx' = NoTx /\ leases' = Mine
    <3>1. ASSUME NEW s \in Session, NEW k \in Key, beat[s][k] # 0
          PROVE  IsMine(Mine[k], s)
      <4>1. k \notin tx.pruned
        BY <3>1, LockedRows DEF TxLocks
      <4> QED BY <3>1, <4>1, MineRows DEF BeatsOwn
    <3>2. BeatsOwn'
      BY <1>3, <2>1, <3>1 DEF CheckLive, BeatsOwn
    <3> QED BY <2>1, <3>2, TxOver
  <2>2. CASE tx'.pc = "grant" /\ tx'.pruned = tx.pruned /\ tx'.r = tx.r /\ tx'.prev = tx.prev
             /\ leases' = leases
    <3>1. tx.pc = "check" /\ beat' = beat /\ now' = now
      BY <1>3 DEF CheckLive
    <3>2. Mine' = Mine
      BY <2>2, MineSame
    <3>3. LocksApart'
      BY <2>2, <3>1 DEF LocksApart, BeatLocks, TxLocks
    <3> QED BY <2>2, <3>1, <3>2, <3>3 DEF BeatsOwn, PrunedDead, PrevCurrent, IdleClean
  <2>3. \/ tx' = NoTx /\ leases' = Mine
        \/ tx'.pc = "grant" /\ tx'.pruned = tx.pruned /\ tx'.r = tx.r /\ tx'.prev = tx.prev
             /\ leases' = leases
    BY <1>3 DEF CheckLive, TypeOK
  <2> QED BY <2>1, <2>2, <2>3
<1>4. ASSUME Grant PROVE LockInv'
  <2>1. ASSUME NEW s \in Session, NEW k \in Key, beat[s][k] # 0
        PROVE  IsMine(leases'[k], s)
    <3>1. k \notin TxLocks
      BY <2>1, LockedRows
    <3>2. k \notin tx.pruned /\ k # tx.r.key
      BY <1>4, <3>1 DEF TxLocks, Grant
    <3>3. leases'[k] = leases[k]
      BY <1>4, <3>2, GrantRows, MineRows
    <3> QED BY <2>1, <3>3 DEF BeatsOwn
  <2>2. BeatsOwn'
    BY <1>4, <2>1 DEF Grant, BeatsOwn
  <2> QED BY <1>4, <2>2, TxOver DEF Grant
<1>5. ASSUME RollBack PROVE LockInv'
  <2>1. BeatsOwn'
    BY <1>5 DEF RollBack, BeatsOwn
  <2> QED BY <1>5, <2>1, TxOver DEF RollBack
<1>6. ASSUME NEW s \in Session, NEW q \in Key, Release(s, q) PROVE LockInv'
  <2>1. tx' = NoTx /\ beat' = beat /\ q \notin BeatLocks
        /\ \A k \in Key : k # q => leases'[k] = leases[k]
    BY <1>6 DEF Release, IdleClean, TypeOK
  <2>2. BeatsOwn'
    BY <2>1 DEF BeatsOwn, BeatLocks
  <2> QED BY <2>1, <2>2, TxOver
<1>7. ASSUME NEW s \in Session, NEW q \in Key, RenewRow(s, q) PROVE LockInv'
  <2>1. /\ tx' = tx /\ leases' = leases /\ now' = now /\ q \notin TxLocks
        /\ IsMine(leases[q], s)
    BY <1>7 DEF RenewRow
  <2>2. \A u \in Session, k \in Key : beat'[u][k] = beat[u][k] \/ (u = s /\ k = q)
    BY <1>7 DEF RenewRow, TypeOK
  <2>3. BeatLocks' \subseteq BeatLocks \cup {q}
    BY <2>2 DEF BeatLocks
  <2>4. BeatsOwn'
    BY <2>1, <2>2 DEF BeatsOwn
  <2>5. TxLocks' = TxLocks /\ Mine' = Mine
    BY <2>1, MineSame DEF TxLocks
  <2> QED BY <2>1, <2>3, <2>4, <2>5 DEF LocksApart, PrunedDead, PrevCurrent, IdleClean
<1>8. ASSUME NEW s \in Session, CommitBeat(s) PROVE LockInv'
  <2>1. tx' = tx /\ now' = now /\ beat' = [beat EXCEPT ![s] = Untouched]
    BY <1>8 DEF CommitBeat
  <2>2. \A u \in Session, k \in Key : beat'[u][k] # 0 => beat[u][k] # 0
    BY <2>1 DEF TypeOK, Untouched
  <2>3. \A k \in Key : leases'[k].session = leases[k].session
    BY <1>8, BeatRows
  <2>4. TxLocks' = TxLocks /\ BeatLocks' \subseteq BeatLocks
    BY <2>1, <2>2 DEF TxLocks, BeatLocks
  <2>5. \A k \in Key : k \in TxLocks => leases'[k] = leases[k]
    BY <1>8, BeatRows, LockedRows
  <2>6. tx.pruned \subseteq Key /\ tx.pruned \subseteq TxLocks
    BY DEF TypeOK, TxLocks
  <2>7. BeatsOwn'
    BY <2>2, <2>3 DEF BeatsOwn, IsMine
  <2>8. PrunedDead'
    BY <2>1, <2>5, <2>6 DEF PrunedDead
  <2>9. PrevCurrent'
    <3>1. SUFFICES ASSUME tx.pc \in {"check", "grant"} PROVE tx.prev = Mine'[tx.r.key]
      BY <2>1 DEF PrevCurrent
    <3>2. tx.r.key \in Key /\ tx.r.key \in TxLocks
      BY <3>1 DEF TypeOK, TxLocks, Request
    <3>3. Mine'[tx.r.key] = Mine[tx.r.key]
      BY <2>1, <2>5, <3>2 DEF Mine
    <3> QED BY <3>1, <3>3 DEF PrevCurrent
  <2> QED BY <2>1, <2>4, <2>7, <2>8, <2>9 DEF LocksApart, IdleClean
<1>9. ASSUME NEW s \in Session, RollBackBeat(s) PROVE LockInv'
  <2>1. tx' = tx /\ now' = now /\ leases' = leases /\ beat' = [beat EXCEPT ![s] = Untouched]
    BY <1>9 DEF RollBackBeat
  <2>2. \A u \in Session, k \in Key : beat'[u][k] # 0 => beat[u][k] # 0 /\ beat'[u][k] = beat[u][k]
    BY <2>1 DEF TypeOK, Untouched
  <2>3. TxLocks' = TxLocks /\ BeatLocks' \subseteq BeatLocks /\ Mine' = Mine
    BY <2>1, <2>2, MineSame DEF TxLocks, BeatLocks
  <2> QED BY <2>1, <2>2, <2>3 DEF LocksApart, BeatsOwn, PrunedDead, PrevCurrent, IdleClean
<1>10. ASSUME Tick PROVE LockInv'
  <2>1. tx' = tx /\ leases' = leases /\ beat' = beat /\ now <= now' /\ now \in Nat /\ now' \in Nat
    BY <1>10 DEF Tick, TypeOK
  <2>2. \A k \in Key : leases[k].expires_at \in Nat
    BY RowFields DEF TypeOK
  <2>3. PrunedDead'
    BY <2>1, <2>2 DEF PrunedDead, IsLive, TypeOK
  <2>4. TxLocks' = TxLocks /\ BeatLocks' = BeatLocks /\ Mine' = Mine
    BY <2>1, MineSame DEF TxLocks, BeatLocks
  <2> QED BY <2>1, <2>3, <2>4 DEF LocksApart, BeatsOwn, PrevCurrent, IdleClean
<1>11. ASSUME UNCHANGED vars PROVE LockInv'
  <2>1. tx' = tx /\ leases' = leases /\ beat' = beat /\ now' = now
    BY <1>11 DEF vars
  <2>2. TxLocks' = TxLocks /\ BeatLocks' = BeatLocks /\ Mine' = Mine
    BY <2>1, MineSame DEF TxLocks, BeatLocks
  <2> QED BY <2>1, <2>2 DEF LocksApart, BeatsOwn, PrunedDead, PrevCurrent, IdleClean
<1> QED BY <1>1, <1>2, <1>3, <1>4, <1>5, <1>6, <1>7, <1>8, <1>9, <1>10, <1>11 DEF Next
\* The types and the row locks hold in every reachable state.
LEMMA WellLocked == Spec => [](TypeOK /\ LockInv)
<1>1. Init => TypeOK /\ LockInv
  <2> SUFFICES ASSUME Init PROVE TypeOK /\ LockInv
    OBVIOUS
  <2>1. TypeOK
    BY NoTxFacts DEF Init, TypeOK, Untouched, Row
  <2>2. LockInv
    BY NoTxFacts DEF Init, LockInv, LocksApart, TxLocks, BeatsOwn, PrunedDead,
                     PrevCurrent, IdleClean, Untouched
  <2> QED BY <2>1, <2>2
<1>2. TypeOK /\ LockInv /\ [Next]_vars => (TypeOK /\ LockInv)'
  BY TypeStep, LockStep DEF LockInv
<1> QED BY <1>1, <1>2, PTL DEF Spec

\* Every reachable state is well typed.
THEOREM TypeCorrect == Spec => []TypeOK
BY WellLocked, PTL

-----------------------------------------------------------------------------
(***************************************************************************)
(* What the conflict check found still holds when the grant is written:    *)
(* only a heartbeat can bring a lease to life in between, and it is on     *)
(* record; time only ends leases; and the row on the key is locked.        *)
(***************************************************************************)
TxScope == GrantScope(tx.prev, tx.by, tx.r)

Allowed(l) == tx.r.reclaim /\ UserOf[l.session] = UserOf[tx.by]

InTheWay(k) ==
  /\ IsLive(Mine[k], now)
  /\ ~IsMine(Mine[k], tx.by)
  /\ Mine[k].scope \cap TxScope # {}

OthersChecked ==
  \A k \in Key \ {tx.r.key} : InTheWay(k) => k \in revived \/ Allowed(Mine[k])

PrevChecked ==
  ~IsMine(tx.prev, tx.by) =>
    IF tx.r.key \in tx.live
    THEN UserOf[tx.prev.session] = UserOf[tx.by]
    ELSE tx.prev.expires_at <= now

CheckedInv == tx.pc = "grant" => OthersChecked /\ PrevChecked

\* The check establishes it.
LEMMA CheckEstablishes ==
  ASSUME TypeOK, LockInv, CheckLive
  PROVE  CheckedInv'
<1> DEFINE live == LiveAgainst(Mine, tx.r.key, TxScope, now)
<1>1. CASE tx' = NoTx
  BY <1>1, NoTxFacts DEF CheckedInv
<1>2. CASE tx' # NoTx
  <2>1. Conflicts(Mine, tx.by, tx.r, TxScope, now) = {} /\ leases' = leases
        /\ now' = now /\ revived' = revived /\ tx.pc = "check"
    BY <1>2 DEF CheckLive, TxScope
  <2>2. tx' = [tx EXCEPT !.pc = "grant", !.live = live]
    BY <1>2, <2>1 DEF CheckLive, TxScope
  <2> HIDE DEF live
  <2>3. tx'.live = live /\ tx'.pruned = tx.pruned /\ tx'.prev = tx.prev /\ tx'.by = tx.by
        /\ tx'.r = tx.r
    BY <2>2 DEF TypeOK
  <2>4. Mine' = Mine /\ TxScope' = TxScope
    BY <2>1, <2>3, MineSame DEF TxScope
  <2>5. \A k \in live : ~IsMine(Mine[k], tx.by) => Allowed(Mine[k])
    BY <2>1 DEF live, Conflicts, Allowed
  <2>6. OthersChecked'
    <3>1. \A k \in Key : InTheWay(k) => k \in live
      BY DEF InTheWay, live, LiveAgainst
    <3> QED BY <2>1, <2>3, <2>4, <2>5, <3>1 DEF OthersChecked, InTheWay, Allowed
  <2>7. PrevChecked'
    <3>1. tx.prev = Mine[tx.r.key] /\ tx.r.key \in Key /\ tx.prev.expires_at \in Nat /\ now \in Nat
      BY <2>1, RowFields DEF LockInv, PrevCurrent, TypeOK, Request
    <3>2. tx.r.key \notin live => ~IsLive(tx.prev, now)
      BY <3>1 DEF live, LiveAgainst
    <3>3. tx.r.key \notin live => tx.prev.expires_at <= now
      BY <3>1, <3>2 DEF IsLive
    <3> QED BY <2>1, <2>3, <2>5, <3>1, <3>3 DEF PrevChecked, Allowed
  <2> QED BY <2>6, <2>7 DEF CheckedInv
<1> QED BY <1>1, <1>2

\* Every step keeps it.
LEMMA CheckedStep ==
  ASSUME TypeOK, LockInv, CheckedInv, [Next]_vars
  PROVE  CheckedInv'
<1>1. ASSUME NEW s \in Session, NEW r \in Sent, Begin(s, r) PROVE CheckedInv'
  <2>1. tx'.pc = "prev"
    BY <1>1 DEF Begin, NoTx
  <2> QED BY <2>1 DEF CheckedInv
<1>2. ASSUME ReadPrev PROVE CheckedInv'
  <2>1. tx'.pc = "check"
    BY <1>2 DEF ReadPrev, TypeOK
  <2> QED BY <2>1 DEF CheckedInv
<1>3. ASSUME CheckLive PROVE CheckedInv'
  BY <1>3, CheckEstablishes
<1>4. ASSUME Grant \/ RollBack PROVE CheckedInv'
  BY <1>4, NoTxFacts DEF Grant, RollBack, CheckedInv
<1>5. ASSUME NEW s \in Session, NEW q \in Key, Release(s, q) PROVE CheckedInv'
  BY <1>5 DEF Release, CheckedInv
<1>6. ASSUME tx' = tx, leases' = leases, now \in Nat, now' \in Nat, now <= now',
             revived' = revived
      PROVE  CheckedInv'
  <2>1. Mine' = Mine /\ TxScope' = TxScope
    BY <1>6, MineSame DEF TxScope
  <2>2. \A k \in Key : Mine[k].expires_at \in Nat
    BY MineRows, RowFields
  <2>3. \A k \in Key : InTheWay(k)' => InTheWay(k)
    BY <1>6, <2>1, <2>2 DEF InTheWay, IsLive
  <2>4. OthersChecked => OthersChecked'
    BY <1>6, <2>1, <2>3 DEF OthersChecked, Allowed
  <2>5. tx.prev.expires_at \in Nat
    BY RowFields DEF TypeOK
  <2>6. PrevChecked => PrevChecked'
    BY <1>6, <2>5 DEF PrevChecked
  <2> QED BY <1>6, <2>4, <2>6 DEF CheckedInv
<1>7. ASSUME NEW s \in Session, CommitBeat(s) PROVE CheckedInv'
  <2>1. tx' = tx /\ now' = now /\ revived \subseteq revived'
    BY <1>7 DEF CommitBeat
  <2>2. \A k \in Key : /\ leases'[k].session = leases[k].session
                       /\ leases'[k].scope = leases[k].scope
                       /\ IsLive(leases'[k], now) => IsLive(leases[k], now) \/ k \in revived'
    BY <1>7, BeatRows DEF LockInv
  <2>3. TxScope' = TxScope
    BY <2>1 DEF TxScope
  <2>4. \A k \in Key : /\ Mine'[k].session = Mine[k].session
                       /\ Mine'[k].scope = Mine[k].scope
                       /\ IsLive(Mine'[k], now) => IsLive(Mine[k], now) \/ k \in revived'
    BY <2>1, <2>2 DEF Mine
  <2>5. OthersChecked => OthersChecked'
    BY <2>1, <2>3, <2>4 DEF OthersChecked, InTheWay, IsMine, Allowed
  <2>6. PrevChecked => PrevChecked'
    BY <2>1 DEF PrevChecked
  <2> QED BY <2>1, <2>5, <2>6 DEF CheckedInv
<1>8. ASSUME NEW s \in Session, NEW q \in Key, RenewRow(s, q) PROVE CheckedInv'
  BY <1>8, <1>6 DEF RenewRow, TypeOK
<1>9. ASSUME NEW s \in Session, RollBackBeat(s) PROVE CheckedInv'
  BY <1>9, <1>6 DEF RollBackBeat, TypeOK
<1>10. ASSUME Tick PROVE CheckedInv'
  <2>1. now \in Nat /\ now' \in Nat /\ now <= now'
    BY <1>10 DEF Tick, TypeOK
  <2> QED BY <1>10, <1>6, <2>1 DEF Tick
<1>11. ASSUME UNCHANGED vars PROVE CheckedInv'
  BY <1>11, <1>6 DEF vars, TypeOK
<1> QED BY <1>1, <1>2, <1>3, <1>4, <1>5, <1>7, <1>8, <1>9, <1>10, <1>11 DEF Next

\* What was checked is known in every reachable state.
LEMMA Checked == Spec => []CheckedInv
<1>1. Init => CheckedInv
  BY NoTxFacts DEF Init, CheckedInv
<1>2. TypeOK /\ LockInv /\ CheckedInv /\ [Next]_vars => CheckedInv'
  BY CheckedStep
<1> QED BY <1>1, <1>2, WellLocked, PTL DEF Spec

\* The row under the key when the grant is written: what was checked of it,
\* and what the grant makes of it.
LEMMA GrantedOver ==
  ASSUME TypeOK, LockInv, CheckedInv, Grant
  PROVE  LET from == leases'[tx.r.key].took_over_from
         IN /\ tx.prev = Mine[tx.r.key] /\ tx.prev \in Row
            /\ leases'[tx.r.key].session = tx.by
            /\ leases'[tx.r.key].scope = TxScope
            /\ IsMine(tx.prev, tx.by) =>
                 /\ from = tx.prev.took_over_from
                 /\ leases'[tx.r.key].acquired_at = tx.prev.acquired_at
            /\ ~IsMine(tx.prev, tx.by) /\ ~IsHeld(tx.prev) => from = NoTakeover
            /\ ~IsMine(tx.prev, tx.by) /\ IsHeld(tx.prev) =>
                 /\ from.session = tx.prev.session
                 /\ from.expired_at = tx.prev.expires_at
                 /\ leases'[tx.r.key].acquired_at = now
                 /\ from.reclaim <=> tx.r.key \in tx.live
            /\ ~IsMine(tx.prev, tx.by) /\ tx.r.key \in tx.live =>
                 UserOf[tx.prev.session] = UserOf[tx.by]
            /\ ~IsMine(tx.prev, tx.by) /\ tx.r.key \notin tx.live =>
                 tx.prev.expires_at <= now
<1> DEFINE row == GrantedLease(tx.prev, tx.by, TxScope,
                               GrantTtl(tx.prev, tx.by, tx.r), now, WasReclaimed)
<1>1. leases'[tx.r.key] = row
  BY GrantRows DEF TxScope
<1>2. PrevChecked /\ tx.prev = Mine[tx.r.key] /\ tx.prev \in Row
  BY DEF CheckedInv, LockInv, PrevCurrent, Grant, TypeOK
<1>3. row.session = tx.by /\ row.scope = TxScope
  BY DEF GrantedLease
<1>4. ASSUME IsMine(tx.prev, tx.by)
      PROVE  row.took_over_from = tx.prev.took_over_from
             /\ row.acquired_at = tx.prev.acquired_at
  BY <1>4 DEF GrantedLease
<1>5. ASSUME ~IsMine(tx.prev, tx.by), ~IsHeld(tx.prev)
      PROVE  row.took_over_from = NoTakeover
  BY <1>5 DEF GrantedLease
<1>6. ASSUME ~IsMine(tx.prev, tx.by), IsHeld(tx.prev)
      PROVE  /\ row.acquired_at = now
             /\ row.took_over_from = [session |-> tx.prev.session,
                                      expired_at |-> tx.prev.expires_at,
                                      reclaim |-> WasReclaimed]
  BY <1>6 DEF GrantedLease
<1>7. ASSUME ~IsMine(tx.prev, tx.by), IsHeld(tx.prev)
      PROVE  row.took_over_from.reclaim <=> tx.r.key \in tx.live
  <2>1. row.took_over_from.reclaim = WasReclaimed
    BY <1>6, <1>7
  <2>2. WasReclaimed <=> tx.r.key \in tx.live
    BY <1>7 DEF WasReclaimed
  <2> QED BY <2>1, <2>2, Zenon
<1>8. ASSUME ~IsMine(tx.prev, tx.by), IsHeld(tx.prev)
      PROVE  /\ row.took_over_from.session = tx.prev.session
             /\ row.took_over_from.expired_at = tx.prev.expires_at
             /\ row.acquired_at = now
  BY <1>6, <1>8
<1> HIDE DEF row
<1> QED BY <1>1, <1>2, <1>3, <1>4, <1>5, <1>7, <1>8 DEF PrevChecked
-----------------------------------------------------------------------------
(***************************************************************************)
(* Exclusion.  A step leaves a row as it was, drops it, renews it or       *)
(* grants it; only the last can make a clash that is not on record, and    *)
(* the check ruled that out.                                               *)
(***************************************************************************)

\* The clash of two rows is on record.
OnRecord(j, k) ==
  \/ {j, k} \cap revived # {}
  \/ /\ {j, k} \cap reclaimed # {}
     /\ UserOf[leases[j].session] = UserOf[leases[k].session]

\* Where every live row is one that was there, with its record, every clash is
\* an old one.
LEMMA OldClashes ==
  ASSUME TypeOK, ExclusiveUnlessRevived, now' \in Nat, now <= now',
         \A k \in Key : IsLive(leases'[k], now') =>
           /\ leases'[k] = leases[k]
           /\ k \in revived => k \in revived'
           /\ k \in reclaimed => k \in reclaimed'
  PROVE  ExclusiveUnlessRevived'
<1>1. SUFFICES ASSUME NEW j \in Key, NEW k \in Key, Clash(j, k)'
               PROVE  OnRecord(j, k)'
  BY DEF ExclusiveUnlessRevived, OnRecord
<1>2. /\ leases'[j] = leases[j] /\ leases'[k] = leases[k]
  BY <1>1 DEF Clash
<1>3. /\ j \in revived => j \in revived'
      /\ k \in revived => k \in revived'
      /\ j \in reclaimed => j \in reclaimed'
      /\ k \in reclaimed => k \in reclaimed'
  BY <1>1 DEF Clash
<1>4. leases[j].expires_at \in Nat /\ leases[k].expires_at \in Nat /\ now \in Nat
  BY RowFields DEF TypeOK
<1>5. Clash(j, k)
  BY <1>1, <1>2, <1>4 DEF Clash, IsLive, IsMine
<1>6. OnRecord(j, k)
  BY <1>5 DEF ExclusiveUnlessRevived, OnRecord
<1> QED BY <1>2, <1>3, <1>6 DEF OnRecord

\* The rows as the transaction sees them, once they are committed.
LEMMA MineCommitted ==
  ASSUME TypeOK, NEW k \in Key, IsLive(Mine[k], now)
  PROVE  k \notin tx.pruned /\ Mine[k] = leases[k]
<1>1. k \in tx.pruned => Mine[k] = NoLease
  BY MineRows
<1>2. now \in Nat
  BY DEF TypeOK
<1>3. ~IsLive(NoLease, now)
  BY <1>2 DEF IsLive, NoLease
<1> QED BY <1>1, <1>3, MineRows

\* A grant keeps the exclusion.
LEMMA GrantKeepsExclusion ==
  ASSUME TypeOK, LockInv, CheckedInv, ExclusiveUnlessRevived, Grant
  PROVE  ExclusiveUnlessRevived'
<1> DEFINE key == tx.r.key
<1>1. /\ now' = now /\ key \in Key
      /\ revived' = revived \ (tx.pruned \cup {key})
      /\ reclaimed' = (reclaimed \ (tx.pruned \cup {key}))
                        \cup (IF tx.r.reclaim THEN {key} ELSE {})
  BY GrantRows DEF Grant
<1>2. leases'[key].session = tx.by /\ leases'[key].scope = TxScope
  BY GrantedOver
<1>3. ASSUME NEW k \in Key, k # key, IsLive(leases'[k], now)
      PROVE  /\ leases'[k] = leases[k] /\ leases'[k] = Mine[k]
             /\ k \in revived => k \in revived'
             /\ k \in reclaimed => k \in reclaimed'
  <2>1. leases'[k] = Mine[k]
    BY <1>3, GrantRows
  <2>2. k \notin tx.pruned /\ Mine[k] = leases[k]
    BY <1>3, <2>1, MineCommitted
  <2> QED BY <1>1, <1>3, <2>1, <2>2
<1>4. ASSUME NEW k \in Key, k # key, IsLive(leases'[k], now),
             leases'[k].session # tx.by, leases'[k].scope \cap TxScope # {}
      PROVE  \/ k \in revived'
             \/ key \in reclaimed' /\ UserOf[leases'[k].session] = UserOf[tx.by]
  <2>1. InTheWay(k)
    BY <1>3, <1>4 DEF InTheWay, IsMine
  <2>2. k \in revived \/ Allowed(Mine[k])
    BY <1>4, <2>1 DEF CheckedInv, OthersChecked, Grant
  <2> QED BY <1>1, <1>3, <1>4, <2>2 DEF Allowed
<1> HIDE DEF key
<1>5. SUFFICES ASSUME NEW j \in Key, NEW k \in Key, Clash(j, k)'
               PROVE  OnRecord(j, k)'
  BY DEF ExclusiveUnlessRevived, OnRecord
<1>6. /\ j # k
      /\ IsLive(leases'[j], now) /\ IsLive(leases'[k], now)
      /\ leases'[j].session # leases'[k].session
      /\ leases'[j].scope \cap leases'[k].scope # {}
  BY <1>1, <1>5 DEF Clash, IsMine
<1>7. CASE j # key /\ k # key
  <2>1. leases'[j] = leases[j] /\ leases'[k] = leases[k]
    BY <1>3, <1>6, <1>7
  <2>2. Clash(j, k)
    BY <1>6, <2>1 DEF Clash, IsMine
  <2>3. OnRecord(j, k)
    BY <2>2 DEF ExclusiveUnlessRevived, OnRecord
  <2> QED BY <1>3, <1>6, <1>7, <2>1, <2>3 DEF OnRecord
<1>8. CASE j = key
  BY <1>2, <1>4, <1>6, <1>8 DEF OnRecord
<1>9. CASE k = key
  BY <1>2, <1>4, <1>6, <1>9 DEF OnRecord
<1> QED BY <1>7, <1>8, <1>9

\* The end of a heartbeat keeps it: what it brings back to life is on record.
LEMMA BeatKeepsExclusion ==
  ASSUME TypeOK, LockInv, ExclusiveUnlessRevived, NEW s \in Session, CommitBeat(s)
  PROVE  ExclusiveUnlessRevived'
<1>1. now' = now /\ reclaimed' = reclaimed /\ revived \subseteq revived'
  BY DEF CommitBeat
<1>2. \A k \in Key : /\ leases'[k].session = leases[k].session
                     /\ leases'[k].scope = leases[k].scope
                     /\ IsLive(leases'[k], now) => IsLive(leases[k], now) \/ k \in revived'
  BY BeatRows DEF LockInv
<1>3. SUFFICES ASSUME NEW j \in Key, NEW k \in Key, Clash(j, k)', {j, k} \cap revived' = {}
               PROVE  OnRecord(j, k)'
  BY DEF ExclusiveUnlessRevived, OnRecord
<1>4. Clash(j, k)
  BY <1>1, <1>2, <1>3 DEF Clash, IsMine
<1>5. OnRecord(j, k)
  BY <1>4 DEF ExclusiveUnlessRevived, OnRecord
<1> QED BY <1>1, <1>2, <1>3, <1>5 DEF OnRecord

\* Overlapping work is never live for two sessions on the service, statement by
\* statement, unless a heartbeat committed after the lease had expired or a
\* session reclaimed from another of its user.
THEOREM Exclusion == Spec => []ExclusiveUnlessRevived
<1>1. Init => ExclusiveUnlessRevived
  BY DEF Init, ExclusiveUnlessRevived, Clash, IsLive, NoLease
<1>2. TypeOK /\ LockInv /\ CheckedInv /\ ExclusiveUnlessRevived /\ [Next]_vars
        => ExclusiveUnlessRevived'
  <2> SUFFICES ASSUME TypeOK, LockInv, CheckedInv, ExclusiveUnlessRevived, [Next]_vars
               PROVE  ExclusiveUnlessRevived'
    OBVIOUS
  <2>1. now \in Nat
    BY DEF TypeOK
  <2>2. ASSUME CheckLive PROVE ExclusiveUnlessRevived'
    <3>1. now' = now
      BY <2>2 DEF CheckLive
    <3>2. CASE leases' = Mine /\ revived' = revived \ tx.pruned
               /\ reclaimed' = reclaimed \ tx.pruned
      BY <2>1, <3>1, <3>2, MineCommitted, OldClashes
    <3>3. CASE leases' = leases /\ revived' = revived /\ reclaimed' = reclaimed
      BY <2>1, <3>1, <3>3, OldClashes
    <3> QED BY <2>2, <3>2, <3>3 DEF CheckLive
  <2>3. ASSUME Grant PROVE ExclusiveUnlessRevived'
    BY <2>3, GrantKeepsExclusion
  <2>4. ASSUME NEW s \in Session, NEW q \in Key, Release(s, q) PROVE ExclusiveUnlessRevived'
    <3>1. now' = now /\ revived' = revived \ {q} /\ reclaimed' = reclaimed \ {q}
      BY <2>4 DEF Release
    <3>2. \A k \in Key : IsLive(leases'[k], now) => k # q /\ leases'[k] = leases[k]
      BY <2>1, <2>4 DEF Release, TypeOK, IsLive, NoLease
    <3> QED BY <2>1, <3>1, <3>2, OldClashes
  <2>5. ASSUME NEW s \in Session, CommitBeat(s) PROVE ExclusiveUnlessRevived'
    BY <2>5, BeatKeepsExclusion
  <2>6. ASSUME Tick PROVE ExclusiveUnlessRevived'
    <3>1. now' \in Nat /\ now <= now' /\ leases' = leases /\ revived' = revived
          /\ reclaimed' = reclaimed
      BY <2>1, <2>6 DEF Tick
    <3> QED BY <3>1, OldClashes
  <2>7. ASSUME leases' = leases, now' = now, revived' = revived, reclaimed' = reclaimed
        PROVE  ExclusiveUnlessRevived'
    BY <2>1, <2>7, OldClashes
  <2> QED BY <2>2, <2>3, <2>4, <2>5, <2>6, <2>7
          DEF Next, Begin, ReadPrev, RollBack, RenewRow, RollBackBeat, vars
<1> QED BY <1>1, <1>2, WellLocked, Checked, PTL DEF Spec

-----------------------------------------------------------------------------
\* The takeover record of a lease is true, although the row on the key is read
\* at one time, the live leases at a second and the grant written at a third.
THEOREM TakeoverRecord == Spec => []TakeoverRecordHonest
<1>1. Init => TakeoverRecordHonest
  BY DEF Init, TakeoverRecordHonest, NoLease, NoTakeover
<1>2. TypeOK /\ LockInv /\ CheckedInv /\ TakeoverRecordHonest /\ [Next]_vars
        => TakeoverRecordHonest'
  <2> SUFFICES ASSUME TypeOK, LockInv, CheckedInv, TakeoverRecordHonest, [Next]_vars
               PROVE  TakeoverRecordHonest'
    OBVIOUS
  <2> DEFINE Honest(l) == l.took_over_from.session # Nobody =>
                            IF l.took_over_from.reclaim
                            THEN UserOf[l.took_over_from.session] = UserOf[l.session]
                            ELSE l.took_over_from.expired_at <= l.acquired_at
  <2>1. \A k \in Key : Honest(leases[k])
    BY DEF TakeoverRecordHonest
  <2>2. Honest(NoLease)
    BY DEF NoLease, NoTakeover
  <2>3. \A k \in Key : Honest(Mine[k])
    BY <2>1, <2>2, MineRows
  <2>4. SUFFICES \A k \in Key : Honest(leases'[k])
    BY DEF TakeoverRecordHonest
  <2>5. ASSUME Grant PROVE \A k \in Key : Honest(leases'[k])
    <3>1. \A k \in Key \ {tx.r.key} : Honest(leases'[k])
      BY <2>3, <2>5, GrantRows
    <3>2. Honest(tx.prev)
      BY <2>3, <2>5, GrantRows, GrantedOver
    <3>3. Honest(leases'[tx.r.key])
      <4>1. CASE IsMine(tx.prev, tx.by)
        BY <2>5, <3>2, <4>1, GrantedOver DEF IsMine
      <4>2. CASE ~IsMine(tx.prev, tx.by) /\ ~IsHeld(tx.prev)
        BY <2>5, <4>2, GrantedOver DEF NoTakeover
      <4>3. CASE ~IsMine(tx.prev, tx.by) /\ IsHeld(tx.prev) /\ tx.r.key \in tx.live
        BY <2>5, <4>3, GrantedOver
      <4>4. CASE ~IsMine(tx.prev, tx.by) /\ IsHeld(tx.prev) /\ tx.r.key \notin tx.live
        BY <2>5, <4>4, GrantedOver
      <4> QED BY <4>1, <4>2, <4>3, <4>4
    <3> QED BY <3>1, <3>3
  <2>6. ASSUME CheckLive PROVE \A k \in Key : Honest(leases'[k])
    <3>1. leases' = leases \/ leases' = Mine
      BY <2>6 DEF CheckLive
    <3> QED BY <2>1, <2>3, <3>1
  <2>7. ASSUME NEW s \in Session, CommitBeat(s) PROVE \A k \in Key : Honest(leases'[k])
    <3>1. \A k \in Key : /\ leases'[k].took_over_from = leases[k].took_over_from
                         /\ leases'[k].session = leases[k].session
                         /\ leases'[k].acquired_at = leases[k].acquired_at
      BY <2>7, BeatRows DEF LockInv
    <3> QED BY <2>1, <3>1
  <2>8. ASSUME NEW s \in Session, NEW q \in Key, Release(s, q)
        PROVE  \A k \in Key : Honest(leases'[k])
    <3>1. \A k \in Key : leases'[k] \in {leases[k], NoLease}
      BY <2>8 DEF Release, TypeOK
    <3> QED BY <2>1, <2>2, <3>1
  <2>9. ASSUME leases' = leases PROVE \A k \in Key : Honest(leases'[k])
    BY <2>1, <2>9
  <2> QED BY <2>5, <2>6, <2>7, <2>8, <2>9
          DEF Next, Begin, ReadPrev, RollBack, RenewRow, RollBackBeat, Tick, vars
<1> QED BY <1>1, <1>2, WellLocked, Checked, PTL DEF Spec

\* A live lease leaves its holder only to another session of its user, on the
\* record, or through the holder's own release: what is deleted has expired,
\* and a renewal is not lost to the acquire it races.
THEOREM TakeoverNotSilent == Spec => NoSilentTakeover
<1> DEFINE Open(k) == IsLive(leases[k], now) /\ leases'[k].session # leases[k].session
           Recorded(k) == IF IsHeld(leases'[k])
                          THEN /\ UserOf[leases'[k].session] = UserOf[leases[k].session]
                               /\ leases'[k].took_over_from.session = leases[k].session
                               /\ leases'[k].took_over_from.reclaim
                          ELSE Release(leases[k].session, k)
           Loud == \A k \in Key : Open(k) => Recorded(k)
<1>1. TypeOK /\ LockInv /\ CheckedInv /\ [Next]_vars => [Loud]_vars
  <2> SUFFICES ASSUME TypeOK, LockInv, CheckedInv, [Next]_vars, NEW k \in Key, Open(k)
               PROVE  Recorded(k)
    OBVIOUS
  <2>1. Mine[k] = leases[k]
    <3>1. k \notin tx.pruned
      BY DEF LockInv, PrunedDead
    <3> QED BY <3>1, MineRows
  <2>2. IsHeld(leases[k]) /\ leases[k].expires_at \in Nat /\ now \in Nat
    <3>1. leases[k].expires_at \in Nat /\ now \in Nat /\ (~IsHeld(leases[k]) => leases[k] = NoLease)
      BY RowFields DEF TypeOK
    <3> QED BY <3>1 DEF IsLive, NoLease
  <2>3. ASSUME Grant PROVE Recorded(k)
    <3>1. k = tx.r.key
      BY <2>1, <2>3, GrantRows
    <3>2. tx.prev = leases[k] /\ leases'[k].session = tx.by /\ tx.by \in Session
      BY <2>1, <2>3, <3>1, GrantRows, GrantedOver
    <3>3. IsHeld(leases'[k]) /\ ~IsMine(tx.prev, tx.by)
      BY <3>2, LeaseAssumption DEF IsHeld, IsMine
    <3>4. tx.r.key \in tx.live
      BY <2>2, <2>3, <3>2, <3>3, GrantedOver DEF IsLive
    <3>5. /\ UserOf[tx.prev.session] = UserOf[tx.by]
          /\ leases'[k].took_over_from.session = tx.prev.session
          /\ leases'[k].took_over_from.reclaim
      BY <2>2, <2>3, <3>1, <3>2, <3>3, <3>4, GrantedOver
    <3> QED BY <3>2, <3>3, <3>5
  <2>4. ASSUME CheckLive PROVE Recorded(k)
    BY <2>1, <2>4 DEF CheckLive
  <2>5. ASSUME NEW s \in Session, CommitBeat(s) PROVE Recorded(k)
    <3>1. leases'[k].session = leases[k].session
      BY <2>5, BeatRows DEF LockInv
    <3> QED BY <3>1
  <2>6. ASSUME NEW s \in Session, NEW q \in Key, Release(s, q) PROVE Recorded(k)
    <3>1. k = q /\ leases[k].session = s
      BY <2>6 DEF Release, TypeOK, IsMine
    <3>2. ~IsHeld(leases'[k])
      BY <2>6, <3>1 DEF Release, TypeOK, IsHeld, NoLease
    <3> QED BY <2>6, <3>1, <3>2
  <2>7. leases' = leases => Recorded(k)
    OBVIOUS
  <2> QED BY <2>3, <2>4, <2>5, <2>6, <2>7
          DEF Next, Begin, ReadPrev, RollBack, RenewRow, RollBackBeat, Tick, vars
<1> QED BY <1>1, WellLocked, Checked, PTL DEF Spec, NoSilentTakeover
=============================================================================
