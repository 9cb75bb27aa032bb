----------------------- MODULE LocalCoordinationProofs -----------------------
(***************************************************************************)
(* Theorems about LocalCoordination, for every set of sessions, keys and   *)
(* scope entries, and about the lock its operations run under, FileLock,   *)
(* for any number of processes: while no process crashes between creating  *)
(* the break guard and giving it back, the lock excludes, breaking         *)
(* excludes, and no rewrite is lost.                                       *)
(***************************************************************************)
EXTENDS LocalCoordination, FileLock, FiniteSetTheorems, TLAPS

-----------------------------------------------------------------------------
(* The rows of a lease table *)

\* The fields of a row, present or absent.
LEMMA RowFields ==
  ASSUME NEW l \in Row
  PROVE  /\ l.session \in Session \cup {Nobody} /\ l.scope \in Scopes /\ l.ttl \in Nat
         /\ l.acquired_at \in Nat /\ l.expires_at \in Nat /\ l.took_over_from \in Takeover
         /\ IsHeld(l) <=> l \in Lease
         /\ ~IsHeld(l) => l = NoLease
<1>1. CASE l \in Lease
  BY <1>1, LeaseAssumption DEF Lease, IsHeld
<1>2. CASE l = NoLease
  <2>1. NoLease \notin Lease /\ ~IsHeld(NoLease)
    BY LeaseAssumption DEF Lease, NoLease, IsHeld
  <2> QED BY <1>2, <2>1 DEF NoLease, NoTakeover, Takeover, Scopes
<1> QED BY <1>1, <1>2 DEF Row

\* Pruning keeps the table well typed and every surviving row as it was.
LEMMA PruneRows ==
  ASSUME NEW table \in [Key -> Row], NEW t \in Nat
  PROVE  /\ Prune(table, t) \in [Key -> Row]
         /\ \A k \in Key : Prune(table, t)[k] \in {table[k], NoLease}
         /\ \A k \in Key : IsLive(table[k], t) => Prune(table, t)[k] = table[k]
<1>1. NoLease \in Row
  BY DEF Row
<1>2. \A k \in Key : IsLive(table[k], t) => ~(table[k].expires_at < t - EXPIRED_KEEP_SECONDS)
  <2>1. \A k \in Key : table[k].expires_at \in Nat
    BY RowFields
  <2> QED BY <2>1, LeaseAssumption DEF IsLive
<1> QED BY <1>1, <1>2 DEF Prune

\* The row a grant stores is a lease of the grantee covering its key, live for
\* its ttl.
LEMMA GrantedRow ==
  ASSUME NEW prev \in Row, NEW s \in Session, NEW r \in Request,
         NEW t \in Nat, NEW taken \in BOOLEAN
  PROVE  /\ GrantScope(prev, s, r) \in Scopes
         /\ GrantTtl(prev, s, r) \in Nat
         /\ GrantedLease(prev, s, GrantScope(prev, s, r), GrantTtl(prev, s, r), t, taken)
              \in Lease
<1>1. r.key \in Key /\ r.scope \in Scopes \cup {Omitted} /\ r.ttl \in Nat \cup {Omitted}
  BY LeaseAssumption DEF Request
<1>2. prev.scope \in Scopes /\ prev.ttl \in Nat /\ prev.acquired_at \in Nat
      /\ prev.session \in Session \cup {Nobody} /\ prev.expires_at \in Nat
      /\ prev.took_over_from \in Takeover
  BY RowFields
<1>3. GrantScope(prev, s, r) \in Scopes
  BY <1>1, <1>2 DEF GrantScope, EffectiveScope, Scopes
<1>4. GrantTtl(prev, s, r) \in Nat
  BY <1>1, <1>2, LeaseAssumption DEF GrantTtl
<1>5. [session |-> prev.session, expired_at |-> prev.expires_at, reclaim |-> taken] \in Takeover
  BY <1>2 DEF Takeover
<1>6. NoTakeover \in Takeover
  BY DEF NoTakeover, Takeover
<1> QED BY <1>2, <1>3, <1>4, <1>5, <1>6 DEF GrantedLease, Lease

\* A renewed row is a lease of the same holder and scope that ends ttl from now.
LEMMA RenewedRow ==
  ASSUME NEW l \in Lease, NEW t \in Nat
  PROVE  /\ Renewed(l, t) \in Lease
         /\ Renewed(l, t) = [session |-> l.session, scope |-> l.scope, ttl |-> l.ttl,
                             acquired_at |-> l.acquired_at, expires_at |-> t + l.ttl,
                             took_over_from |-> l.took_over_from]
<1>1. l.ttl \in Nat /\ t + l.ttl \in Nat
  BY DEF Lease
<1>2. Renewed(l, t) = [session |-> l.session, scope |-> l.scope, ttl |-> l.ttl,
                       acquired_at |-> l.acquired_at, expires_at |-> t + l.ttl,
                       took_over_from |-> l.took_over_from]
  BY DEF Renewed, Lease
<1> QED BY <1>1, <1>2 DEF Lease

-----------------------------------------------------------------------------
\* Every reachable state is well typed.
THEOREM TypeCorrect == Spec => []TypeOK
<1>1. Init => TypeOK
  BY DEF Init, TypeOK, Row
<1>2. TypeOK /\ [Next]_vars => TypeOK'
  <2> SUFFICES ASSUME TypeOK, [Next]_vars PROVE TypeOK'
    OBVIOUS
  <2> USE DEF TypeOK
  <2>1. ASSUME NEW s \in Session, NEW r \in Request, LeaseAcquire(s, r)
        PROVE  TypeOK'
    <3> DEFINE kept  == Prune(leases, now)
               prev  == kept[r.key]
               scope == GrantScope(prev, s, r)
               taken == ~IsMine(prev, s) /\ r.key \in LiveAgainst(kept, r.key, scope, now)
               row   == GrantedLease(prev, s, scope, GrantTtl(prev, s, r), now, taken)
    <3>1. kept \in [Key -> Row]
      BY PruneRows
    <3>2. r.key \in Key
      BY DEF Request
    <3>3. row \in Row
      <4>1. taken \in BOOLEAN
        OBVIOUS
      <4> QED BY <3>1, <3>2, <4>1, GrantedRow DEF Row
    <3>4. leases' = [kept EXCEPT ![r.key] = row]
      BY <2>1 DEF LeaseAcquire
    <3>5. leases' \in [Key -> Row]
      BY <3>1, <3>2, <3>3, <3>4
    <3> QED BY <2>1, <3>2, <3>5 DEF LeaseAcquire
  <2>2. ASSUME NEW s \in Session, NEW keys \in SUBSET Key, LeaseHeartbeat(s, keys)
        PROVE  TypeOK'
    <3>1. \A k \in Key : IsMine(leases[k], s) => Renewed(leases[k], now) \in Row
      BY RowFields, RenewedRow, LeaseAssumption DEF IsMine, IsHeld, Row
    <3> QED BY <2>2, <3>1 DEF LeaseHeartbeat
  <2>3. ASSUME NEW s \in Session, NEW k \in Key, LeaseRelease(s, k)
        PROVE  TypeOK'
    BY <2>3 DEF LeaseRelease, Row
  <2>4. ASSUME NEW n \in Name, NEW floor \in Floor, Bump(n, floor)
        PROVE  TypeOK'
    <3>1. NextValue(counters[n], floor) \in Nat
      BY LocalAssumption DEF NextValue
    <3> QED BY <2>4, <3>1 DEF Bump
  <2>5. ASSUME Tick PROVE TypeOK'
    BY <2>5 DEF Tick
  <2>6. ASSUME UNCHANGED vars PROVE TypeOK'
    BY <2>6 DEF vars
  <2> QED BY <2>1, <2>2, <2>3, <2>4, <2>5, <2>6 DEF Next
<1> QED BY <1>1, <1>2, PTL DEF Spec

-----------------------------------------------------------------------------
(***************************************************************************)
(* Exclusion.  ExclusiveUnlessRevived is inductive over well typed states: *)
(* a grant checks its row against every live row, the other rows keep      *)
(* their holder and scope, and time only ends leases.                      *)
(***************************************************************************)

\* A clash after a step between two rows the step left alone or dropped was a
\* clash before it.
LEMMA OldClash ==
  ASSUME TypeOK, NEW j \in Key, NEW k \in Key, Clash(j, k)',
         leases'[j] = leases[j], leases'[k] = leases[k],
         now' \in Nat, now <= now'
  PROVE  Clash(j, k)
<1>1. leases[j].expires_at \in Nat /\ leases[k].expires_at \in Nat /\ now \in Nat
  BY RowFields DEF TypeOK
<1> QED BY <1>1 DEF Clash, IsLive, IsMine

\* An acquire keeps the exclusion: the new row was checked against every live
\* row, and no other row gained anything.
LEMMA AcquireKeepsExclusion ==
  ASSUME TypeOK, ExclusiveUnlessRevived, TypeOK',
         NEW s \in Session, NEW r \in Request, LeaseAcquire(s, r)
  PROVE  ExclusiveUnlessRevived'
<1> DEFINE kept  == Prune(leases, now)
           prev  == kept[r.key]
           scope == GrantScope(prev, s, r)
           taken == ~IsMine(prev, s) /\ r.key \in LiveAgainst(kept, r.key, scope, now)
           row   == GrantedLease(prev, s, scope, GrantTtl(prev, s, r), now, taken)
<1>1. /\ kept \in [Key -> Row]
      /\ \A k \in Key : kept[k] \in {leases[k], NoLease}
  BY PruneRows DEF TypeOK
<1>2. r.key \in Key
  BY DEF Request
<1>3. leases' = [kept EXCEPT ![r.key] = row]
  BY DEF LeaseAcquire
<1>4. now' = now /\ now \in Nat
  BY DEF LeaseAcquire, TypeOK
<1>5. \A k \in Key : k # r.key /\ IsLive(leases'[k], now) =>
        leases'[k] = leases[k] /\ leases'[k] = kept[k]
  BY <1>1, <1>2, <1>3, <1>4 DEF IsLive, NoLease
<1>6. leases'[r.key] = row /\ row.session = s /\ row.scope = scope
  BY <1>1, <1>2, <1>3 DEF GrantedLease
<1>7. ASSUME NEW k \in Key, k # r.key, IsLive(leases'[k], now),
             ~IsMine(leases'[k], s), leases'[k].scope \cap scope # {}
      PROVE  r.reclaim /\ UserOf[leases'[k].session] = UserOf[s]
  <2>1. k \in LiveAgainst(kept, r.key, scope, now)
    BY <1>5, <1>7 DEF LiveAgainst
  <2>2. k \notin Conflicts(kept, s, r, scope, now)
    BY DEF LeaseAcquire
  <2> QED BY <2>1, <2>2, <1>5, <1>7 DEF Conflicts
<1>8. SUFFICES ASSUME NEW j \in Key, NEW k \in Key, Clash(j, k)'
               PROVE  \/ {j, k} \cap revived' # {}
                      \/ /\ {j, k} \cap reclaimed' # {}
                         /\ UserOf[leases'[j].session] = UserOf[leases'[k].session]
  BY DEF ExclusiveUnlessRevived
<1>9. /\ j # k
      /\ IsLive(leases'[j], now) /\ IsLive(leases'[k], now)
      /\ leases'[j].session # leases'[k].session
      /\ leases'[j].scope \cap leases'[k].scope # {}
  BY <1>4, <1>8 DEF Clash, IsMine
<1>10. CASE j # r.key /\ k # r.key
  <2>1. Clash(j, k)
    BY <1>4, <1>5, <1>8, <1>9, <1>10, OldClash
  <2>2. UserOf[leases'[j].session] = UserOf[leases[j].session]
        /\ UserOf[leases'[k].session] = UserOf[leases[k].session]
    BY <1>5, <1>9, <1>10
  <2> QED BY <2>1, <2>2, <1>10 DEF ExclusiveUnlessRevived, LeaseAcquire
<1>11. CASE j = r.key
  <2>1. r.reclaim /\ UserOf[leases'[k].session] = UserOf[s]
    BY <1>6, <1>7, <1>9, <1>11 DEF IsMine
  <2> QED BY <2>1, <1>6, <1>11 DEF LeaseAcquire
<1>12. CASE k = r.key
  <2>1. r.reclaim /\ UserOf[leases'[j].session] = UserOf[s]
    BY <1>6, <1>7, <1>9, <1>12 DEF IsMine
  <2> QED BY <2>1, <1>6, <1>12 DEF LeaseAcquire
<1> QED BY <1>10, <1>11, <1>12

\* A heartbeat keeps it: it changes no scope or holder, and a lease it brings
\* back to life is recorded in revived.
LEMMA HeartbeatKeepsExclusion ==
  ASSUME TypeOK, ExclusiveUnlessRevived,
         NEW s \in Session, NEW keys \in SUBSET Key, LeaseHeartbeat(s, keys)
  PROVE  ExclusiveUnlessRevived'
<1> DEFINE mine == {k \in keys : IsMine(leases[k], s)}
<1>1. \A k \in mine : leases[k] \in Lease
  BY RowFields, LeaseAssumption DEF TypeOK, IsMine, IsHeld
<1>2. now' = now /\ now \in Nat /\ reclaimed' = reclaimed
      /\ revived' = revived \cup {k \in mine : ~IsLive(leases[k], now)}
  BY DEF LeaseHeartbeat, TypeOK
<1>3. \A k \in Key : leases'[k] = IF k \in mine THEN Renewed(leases[k], now) ELSE leases[k]
  BY DEF LeaseHeartbeat
<1>4. \A k \in Key : leases'[k].session = leases[k].session /\ leases'[k].scope = leases[k].scope
  BY <1>1, <1>2, <1>3, RenewedRow
<1>5. \A k \in Key : IsLive(leases'[k], now) => IsLive(leases[k], now) \/ k \in revived'
  BY <1>2, <1>3
<1>6. SUFFICES ASSUME NEW j \in Key, NEW k \in Key, Clash(j, k)', {j, k} \cap revived' = {}
               PROVE  /\ {j, k} \cap reclaimed' # {}
                      /\ UserOf[leases'[j].session] = UserOf[leases'[k].session]
  BY DEF ExclusiveUnlessRevived
<1>7. Clash(j, k)
  BY <1>2, <1>4, <1>5, <1>6 DEF Clash, IsMine
<1> QED BY <1>2, <1>4, <1>6, <1>7 DEF ExclusiveUnlessRevived

\* A release only drops a row.
LEMMA ReleaseKeepsExclusion ==
  ASSUME TypeOK, ExclusiveUnlessRevived,
         NEW s \in Session, NEW q \in Key, LeaseRelease(s, q)
  PROVE  ExclusiveUnlessRevived'
<1>1. now' = now /\ now \in Nat /\ revived' = revived \ {q} /\ reclaimed' = reclaimed \ {q}
  BY DEF LeaseRelease, TypeOK
<1>2. \A k \in Key : IsLive(leases'[k], now) => k # q /\ leases'[k] = leases[k]
  BY <1>1 DEF LeaseRelease, TypeOK, IsLive, NoLease
<1>3. SUFFICES ASSUME NEW j \in Key, NEW k \in Key, Clash(j, k)'
               PROVE  \/ {j, k} \cap revived' # {}
                      \/ /\ {j, k} \cap reclaimed' # {}
                         /\ UserOf[leases'[j].session] = UserOf[leases'[k].session]
  BY DEF ExclusiveUnlessRevived
<1>4. leases'[j] = leases[j] /\ leases'[k] = leases[k] /\ j # q /\ k # q
  BY <1>1, <1>2, <1>3 DEF Clash
<1>5. Clash(j, k)
  BY <1>1, <1>3, <1>4, OldClash
<1> QED BY <1>1, <1>4, <1>5 DEF ExclusiveUnlessRevived

\* Overlapping work is never live for two sessions unless a heartbeat revived
\* an expired lease or a session reclaimed from another of its user.
THEOREM Exclusion == Spec => []ExclusiveUnlessRevived
<1>1. Init => ExclusiveUnlessRevived
  BY DEF Init, ExclusiveUnlessRevived, Clash, IsLive, NoLease
<1>2. TypeOK /\ TypeOK' /\ ExclusiveUnlessRevived /\ [Next]_vars => ExclusiveUnlessRevived'
  <2> SUFFICES ASSUME TypeOK, TypeOK', ExclusiveUnlessRevived, [Next]_vars
               PROVE  ExclusiveUnlessRevived'
    OBVIOUS
  <2>1. ASSUME NEW s \in Session, NEW r \in Request, LeaseAcquire(s, r)
        PROVE  ExclusiveUnlessRevived'
    BY <2>1, AcquireKeepsExclusion
  <2>2. ASSUME NEW s \in Session, NEW keys \in SUBSET Key, LeaseHeartbeat(s, keys)
        PROVE  ExclusiveUnlessRevived'
    BY <2>2, HeartbeatKeepsExclusion
  <2>3. ASSUME NEW s \in Session, NEW k \in Key, LeaseRelease(s, k)
        PROVE  ExclusiveUnlessRevived'
    BY <2>3, ReleaseKeepsExclusion
  <2>4. ASSUME NEW n \in Name, NEW floor \in Floor, Bump(n, floor)
        PROVE  ExclusiveUnlessRevived'
    BY <2>4 DEF Bump, ExclusiveUnlessRevived, Clash, IsMine
  <2>5. ASSUME Tick PROVE ExclusiveUnlessRevived'
    <3>1. now <= now' /\ now' \in Nat /\ leases' = leases
      BY <2>5 DEF Tick, TypeOK
    <3>2. \A j, k \in Key : Clash(j, k)' => Clash(j, k)
      BY <3>1, OldClash
    <3> QED BY <2>5, <3>2 DEF Tick, ExclusiveUnlessRevived
  <2>6. ASSUME UNCHANGED vars PROVE ExclusiveUnlessRevived'
    BY <2>6 DEF vars, ExclusiveUnlessRevived, Clash, IsMine
  <2> QED BY <2>1, <2>2, <2>3, <2>4, <2>5, <2>6 DEF Next
<1> QED BY <1>1, <1>2, TypeCorrect, PTL DEF Spec

-----------------------------------------------------------------------------
\* What the counters have handed out never exceeds their stored value.
IssuedBelow ==
  \A n \in Name : \A i \in DOMAIN issued[n] : issued[n][i] <= counters[n]

\* A counter never hands out the same value twice: each one is above all
\* those before it, whatever floors are passed.
THEOREM CountersUnique == Spec => []CountersStrictlyIncrease
<1> DEFINE IInv == IssuedBelow /\ CountersStrictlyIncrease
<1>1. Init => IInv
  BY DEF Init, IssuedBelow, CountersStrictlyIncrease
<1>2. TypeOK /\ IInv /\ [Next]_vars => IInv'
  <2> SUFFICES ASSUME TypeOK, IInv, [Next]_vars PROVE IInv'
    OBVIOUS
  <2>1. ASSUME NEW m \in Name, NEW floor \in Floor, Bump(m, floor)
        PROVE  IInv'
    <3> DEFINE value == NextValue(counters[m], floor)
    <3>1. counters[m] \in Nat /\ floor \in Nat /\ value \in Nat /\ counters[m] < value
      BY LocalAssumption DEF TypeOK, NextValue
    <3>2. /\ counters' = [counters EXCEPT ![m] = value]
          /\ issued' = [issued EXCEPT ![m] = Append(@, value)]
      BY <2>1 DEF Bump
    <3>3. ASSUME NEW n \in Name, n # m
          PROVE  issued'[n] = issued[n] /\ counters'[n] = counters[n]
      BY <3>2, <3>3 DEF TypeOK
    <3>4. issued[m] \in Seq(Nat) /\ issued'[m] = Append(issued[m], value) /\ counters'[m] = value
      BY <3>2 DEF TypeOK
    <3>5. /\ DOMAIN issued'[m] = 1..(Len(issued[m]) + 1) /\ DOMAIN issued[m] = 1..Len(issued[m])
          /\ issued'[m][Len(issued[m]) + 1] = value
          /\ \A i \in 1..Len(issued[m]) : issued'[m][i] = issued[m][i] /\ issued[m][i] \in Nat
      BY <3>4
    <3>6. \A i \in DOMAIN issued[m] : issued[m][i] <= counters[m]
      BY DEF IssuedBelow
    <3>7. \A i \in DOMAIN issued'[m] : issued'[m][i] <= value
      BY <3>1, <3>5, <3>6, Len(issued[m]) \in Nat
    <3>8. \A i, j \in DOMAIN issued'[m] : i < j => issued'[m][i] < issued'[m][j]
      <4> SUFFICES ASSUME NEW i \in DOMAIN issued'[m], NEW j \in DOMAIN issued'[m], i < j
                   PROVE  issued'[m][i] < issued'[m][j]
        OBVIOUS
      <4>1. Len(issued[m]) \in Nat
        BY <3>4
      <4>2. i \in 1..Len(issued[m])
        BY <4>1, <3>5
      <4>3. CASE j = Len(issued[m]) + 1
        BY <4>2, <4>3, <3>1, <3>5, <3>6
      <4>4. CASE j \in 1..Len(issued[m])
        BY <4>2, <4>4, <3>5 DEF CountersStrictlyIncrease
      <4> QED BY <4>1, <4>3, <4>4, <3>5
    <3>9. IssuedBelow'
      BY <3>3, <3>4, <3>7 DEF IssuedBelow
    <3> QED BY <3>3, <3>8, <3>9 DEF CountersStrictlyIncrease
  <2>2. ASSUME counters' = counters, issued' = issued
        PROVE  IInv'
    BY <2>2 DEF IssuedBelow, CountersStrictlyIncrease
  <2> QED BY <2>1, <2>2 DEF Next, vars, LeaseAcquire, LeaseHeartbeat, LeaseRelease, Tick
<1>3. IInv => CountersStrictlyIncrease
  OBVIOUS
<1> QED BY <1>1, <1>2, <1>3, TypeCorrect, PTL DEF Spec

-----------------------------------------------------------------------------
\* A heartbeat moves nothing but the end of the leases it renews.
LEMMA HeartbeatRow ==
  ASSUME TypeOK, NEW s \in Session, NEW keys \in SUBSET Key, LeaseHeartbeat(s, keys),
         NEW k \in Key
  PROVE  /\ leases'[k].session = leases[k].session
         /\ leases'[k].acquired_at = leases[k].acquired_at
         /\ leases'[k].took_over_from = leases[k].took_over_from
<1>1. IsMine(leases[k], s) => leases[k] \in Lease
  BY RowFields, LeaseAssumption DEF TypeOK, IsMine, IsHeld
<1> QED BY <1>1, RenewedRow DEF LeaseHeartbeat, TypeOK

\* What an acquire does to the row under its own key: the row it replaces is
\* the old one or was pruned, and a live one of another session is taken only
\* with reclaim, from the same user, and so recorded.
LEMMA AcquiredRow ==
  ASSUME TypeOK, NEW s \in Session, NEW r \in Request, LeaseAcquire(s, r)
  PROVE  LET prev == Prune(leases, now)[r.key]
             from == leases'[r.key].took_over_from
         IN /\ r.key \in Key
            /\ prev \in {leases[r.key], NoLease}
            /\ IsLive(leases[r.key], now) => prev = leases[r.key]
            /\ leases'[r.key].session = s
            /\ IsMine(prev, s) => /\ from = prev.took_over_from
                                 /\ leases'[r.key].acquired_at = prev.acquired_at
            /\ ~IsMine(prev, s) /\ ~IsHeld(prev) => from = NoTakeover
            /\ ~IsMine(prev, s) /\ IsHeld(prev) =>
                 /\ from.session = prev.session
                 /\ from.expired_at = prev.expires_at
                 /\ leases'[r.key].acquired_at = now
                 /\ from.reclaim <=> IsLive(prev, now)
                 /\ IsLive(prev, now) => UserOf[prev.session] = UserOf[s]
            /\ \A k \in Key \ {r.key} : leases'[k] = Prune(leases, now)[k]
<1> DEFINE kept  == Prune(leases, now)
           prev  == kept[r.key]
           scope == GrantScope(prev, s, r)
           live  == LiveAgainst(kept, r.key, scope, now)
           taken == ~IsMine(prev, s) /\ r.key \in live
           row   == GrantedLease(prev, s, scope, GrantTtl(prev, s, r), now, taken)
<1>1. /\ kept \in [Key -> Row]
      /\ \A k \in Key : kept[k] \in {leases[k], NoLease}
      /\ \A k \in Key : IsLive(leases[k], now) => kept[k] = leases[k]
  BY PruneRows DEF TypeOK
<1>2. r.key \in Key
  BY DEF Request
<1>3. leases' = [kept EXCEPT ![r.key] = row] /\ Conflicts(kept, s, r, scope, now) = {}
  BY DEF LeaseAcquire
<1>4. leases'[r.key] = row /\ \A k \in Key \ {r.key} : leases'[k] = kept[k]
  BY <1>1, <1>2, <1>3
<1>5. r.key \in live <=> IsLive(prev, now)
  BY <1>2 DEF LiveAgainst
<1>6. ~IsMine(prev, s) /\ IsLive(prev, now) => UserOf[prev.session] = UserOf[s]
  BY <1>3, <1>5 DEF Conflicts
<1>7. ~IsMine(prev, s) => (taken <=> IsLive(prev, now))
  BY <1>5
<1>8. row.session = s
  BY DEF GrantedLease
<1>9. ASSUME IsMine(prev, s)
      PROVE  row.took_over_from = prev.took_over_from /\ row.acquired_at = prev.acquired_at
  BY <1>9 DEF GrantedLease
<1>10. ASSUME ~IsMine(prev, s), ~IsHeld(prev)
       PROVE  row.took_over_from = NoTakeover
  BY <1>10 DEF GrantedLease
<1>11. ASSUME ~IsMine(prev, s), IsHeld(prev)
       PROVE  /\ row.acquired_at = now
              /\ row.took_over_from = [session |-> prev.session, expired_at |-> prev.expires_at,
                                       reclaim |-> taken]
  BY <1>11 DEF GrantedLease
<1>12. ASSUME ~IsMine(prev, s), IsHeld(prev)
       PROVE  /\ row.took_over_from.session = prev.session
              /\ row.took_over_from.expired_at = prev.expires_at
              /\ row.took_over_from.reclaim <=> IsLive(prev, now)
  <2>1. row.took_over_from.reclaim = taken
    BY <1>11, <1>12
  <2>2. row.took_over_from.reclaim <=> IsLive(prev, now)
    BY <2>1, <1>7, <1>12, Zenon
  <2> QED BY <1>11, <1>12, <2>2
<1>13. /\ prev \in {leases[r.key], NoLease}
       /\ IsLive(leases[r.key], now) => prev = leases[r.key]
  BY <1>1, <1>2
<1> HIDE DEF row, taken, live, scope, prev, kept
<1>14. /\ IsMine(prev, s) => /\ leases'[r.key].took_over_from = prev.took_over_from
                            /\ leases'[r.key].acquired_at = prev.acquired_at
       /\ ~IsMine(prev, s) /\ ~IsHeld(prev) => leases'[r.key].took_over_from = NoTakeover
  BY <1>4, <1>9, <1>10
<1>15. ~IsMine(prev, s) /\ IsHeld(prev) =>
         /\ leases'[r.key].took_over_from.session = prev.session
         /\ leases'[r.key].took_over_from.expired_at = prev.expires_at
         /\ leases'[r.key].acquired_at = now
         /\ leases'[r.key].took_over_from.reclaim <=> IsLive(prev, now)
         /\ IsLive(prev, now) => UserOf[prev.session] = UserOf[s]
  BY <1>4, <1>6, <1>11, <1>12
<1> QED BY <1>2, <1>4, <1>8, <1>13, <1>14, <1>15 DEF prev, kept

\* The takeover record of a lease is true: a reclaim was between sessions of
\* one user, and any other takeover was of a lease that had expired.
THEOREM TakeoverRecord == Spec => []TakeoverRecordHonest
<1>1. Init => TakeoverRecordHonest
  BY DEF Init, TakeoverRecordHonest, NoLease, NoTakeover
<1>2. TypeOK /\ TakeoverRecordHonest /\ [Next]_vars => TakeoverRecordHonest'
  <2> SUFFICES ASSUME TypeOK, TakeoverRecordHonest, [Next]_vars
               PROVE  TakeoverRecordHonest'
    OBVIOUS
  <2> DEFINE Honest(l) == l.took_over_from.session # Nobody =>
                            IF l.took_over_from.reclaim
                            THEN UserOf[l.took_over_from.session] = UserOf[l.session]
                            ELSE l.took_over_from.expired_at <= l.acquired_at
  <2>1. \A k \in Key : Honest(leases[k])
    BY DEF TakeoverRecordHonest
  <2>2. Honest(NoLease)
    BY DEF NoLease, NoTakeover
  <2>3. SUFFICES \A k \in Key : Honest(leases'[k])
    BY DEF TakeoverRecordHonest
  <2>4. ASSUME NEW s \in Session, NEW r \in Request, LeaseAcquire(s, r)
        PROVE  \A k \in Key : Honest(leases'[k])
    <3> DEFINE prev == Prune(leases, now)[r.key]
    <3>1. \A k \in Key : Prune(leases, now)[k] \in {leases[k], NoLease}
      BY PruneRows DEF TypeOK
    <3>2. \A k \in Key : Honest(Prune(leases, now)[k])
      BY <2>1, <2>2, <3>1
    <3>3. \A k \in Key \ {r.key} : Honest(leases'[k])
      BY <2>4, <3>2, AcquiredRow
    <3>4. prev.expires_at \in Nat /\ now \in Nat
      BY <2>4, AcquiredRow, RowFields DEF TypeOK, Row
    <3>5. Honest(leases'[r.key])
      <4>1. CASE IsMine(prev, s)
        BY <2>4, <3>2, <4>1, AcquiredRow DEF IsMine
      <4>2. CASE ~IsMine(prev, s) /\ ~IsHeld(prev)
        BY <2>4, <4>2, AcquiredRow DEF NoTakeover
      <4>3. CASE ~IsMine(prev, s) /\ IsHeld(prev) /\ IsLive(prev, now)
        BY <2>4, <4>3, AcquiredRow
      <4>4. CASE ~IsMine(prev, s) /\ IsHeld(prev) /\ ~IsLive(prev, now)
        BY <2>4, <3>4, <4>4, AcquiredRow DEF IsLive
      <4> QED BY <4>1, <4>2, <4>3, <4>4
    <3> QED BY <3>3, <3>5
  <2>5. ASSUME NEW s \in Session, NEW keys \in SUBSET Key, LeaseHeartbeat(s, keys)
        PROVE  \A k \in Key : Honest(leases'[k])
    <3>1. \A k \in Key : /\ leases'[k].took_over_from = leases[k].took_over_from
                         /\ leases'[k].session = leases[k].session
                         /\ leases'[k].acquired_at = leases[k].acquired_at
      BY <2>5, HeartbeatRow
    <3> QED BY <2>1, <3>1
  <2>6. ASSUME NEW s \in Session, NEW q \in Key, LeaseRelease(s, q)
        PROVE  \A k \in Key : Honest(leases'[k])
    <3>1. \A k \in Key : leases'[k] \in {leases[k], NoLease}
      BY <2>6 DEF LeaseRelease, TypeOK
    <3> QED BY <2>1, <2>2, <3>1
  <2>7. ASSUME leases' = leases
        PROVE  \A k \in Key : Honest(leases'[k])
    BY <2>1, <2>7
  <2> QED BY <2>4, <2>5, <2>6, <2>7 DEF Next, Bump, Tick, vars
<1> QED BY <1>1, <1>2, TypeCorrect, PTL DEF Spec

\* A live lease leaves its holder only to another session of its user, on the
\* record, or through the holder's own release.
THEOREM TakeoverNotSilent == Spec => NoSilentTakeover
<1> DEFINE Taken(k) == IsLive(leases[k], now) /\ leases'[k].session # leases[k].session
           Recorded(k) == IF IsHeld(leases'[k])
                          THEN /\ UserOf[leases'[k].session] = UserOf[leases[k].session]
                               /\ leases'[k].took_over_from.session = leases[k].session
                               /\ leases'[k].took_over_from.reclaim
                          ELSE LeaseRelease(leases[k].session, k)
           Loud == \A k \in Key : Taken(k) => Recorded(k)
<1>1. TypeOK /\ [Next]_vars => [Loud]_vars
  <2> SUFFICES ASSUME TypeOK, [Next]_vars, NEW k \in Key, Taken(k)
               PROVE  Recorded(k)
    OBVIOUS
  <2>1. ASSUME NEW s \in Session, NEW r \in Request, LeaseAcquire(s, r)
        PROVE  Recorded(k)
    <3>1. k = r.key
      <4>1. Prune(leases, now)[k] = leases[k]
        BY PruneRows DEF TypeOK
      <4> QED BY <2>1, <4>1, AcquiredRow
    <3>2. Prune(leases, now)[r.key] = leases[k] /\ leases'[k].session = s
      BY <2>1, <3>1, AcquiredRow
    <3>3. IsHeld(leases'[k])
      BY <3>2, LeaseAssumption DEF IsHeld
    <3>4. ~IsMine(leases[k], s)
      BY <3>2 DEF IsMine
    <3>5. CASE IsHeld(leases[k])
      BY <2>1, <3>1, <3>2, <3>3, <3>4, <3>5, AcquiredRow
    <3>6. CASE ~IsHeld(leases[k])
      BY <3>6, RowFields DEF TypeOK, IsLive, NoLease
    <3> QED BY <3>5, <3>6
  <2>2. ASSUME NEW s \in Session, NEW keys \in SUBSET Key, LeaseHeartbeat(s, keys)
        PROVE  Recorded(k)
    <3>1. leases'[k].session = leases[k].session
      BY <2>2, HeartbeatRow
    <3> QED BY <3>1
  <2>3. ASSUME NEW s \in Session, NEW q \in Key, LeaseRelease(s, q)
        PROVE  Recorded(k)
    <3>1. k = q /\ leases[k].session = s
      BY <2>3 DEF LeaseRelease, TypeOK, IsMine
    <3>2. ~IsHeld(leases'[k])
      BY <2>3, <3>1 DEF LeaseRelease, TypeOK, IsHeld, NoLease
    <3> QED BY <2>3, <3>1, <3>2
  <2>4. leases' = leases => Recorded(k)
    OBVIOUS
  <2> QED BY <2>1, <2>2, <2>3, <2>4 DEF Next, Bump, Tick, vars
<1> QED BY <1>1, TypeCorrect, PTL DEF Spec, NoSilentTakeover

-----------------------------------------------------------------------------
(* The file lock *)

\* A process in the guarded section, or about to release, owns the lock file.
HoldersOwn == \A p \in Proc : pc[p] \in Holding => lock # NoFile /\ lock.by = p

\* So does a breaker own the guard, which names it once it is written, and no
\* guard outlives its breaker.
GuardersOwn ==
  \A p \in Proc : pc[p] \in Guarding =>
    guard # NoFile /\ guard.by = p /\ (pc[p] # "writeG" => guard.written)
GuardAlive  == guard # NoFile => pc[guard.by] \in Guarding

\* Hence nobody ever finds a guard to remove.
GuardKept == \A p \in Proc : pc[p] \notin {"checkG", "rmG", "sweep"}

\* What a breaker is about to remove is still a dead process's lock.
RemovesDead == \A p \in Proc : pc[p] = "rmStale" => lock # NoFile /\ Dead(lock.by)

LockInv == LockTypeOK /\ HoldersOwn /\ GuardersOwn /\ GuardAlive /\ GuardKept /\ RemovesDead

\* What the process in the guarded section read is what is there.
Fresh == \A p \in Proc : pc[p] = "store" => seen[p] = data

\* Only processes past their rewrite are counted, and all of them are.
Counted ==
  /\ IsFiniteSet(stored)
  /\ data = Cardinality(stored)
  /\ \A p \in stored : pc[p] \in {"mine", "drop", "done", "sweep", "crashed"}

-----------------------------------------------------------------------------
\* What the calls write is a file.
LEMMA CreatedFile ==
  ASSUME NEW p \in Proc
  PROVE  Created(p) \in File /\ Created(p).by = p
BY DEF Created, File
LEMMA NamedFile ==
  ASSUME NEW f \in File \cup {NoFile}, NEW p \in Proc
  PROVE  /\ Named(f, p) \in File \cup {NoFile}
         /\ f # NoFile => Named(f, p) # NoFile /\ Named(f, p).by = f.by
         /\ f # NoFile /\ f.by = p => Named(f, p).written
         /\ f = NoFile => Named(f, p) = NoFile
<1>1. CASE f = NoFile
      BY <1>1 DEF Named
<1>2. CASE f \in File
  <2>1. /\ [f EXCEPT !.written = TRUE] \in File
        /\ [f EXCEPT !.written = TRUE].by = f.by
        /\ [f EXCEPT !.written = TRUE].written
        BY <1>2 DEF File
  <2> QED BY <1>2, <2>1, FileLockAssumption DEF Named
<1> QED BY <1>1, <1>2
LEMMA OldFile ==
  ASSUME NEW f \in File
  PROVE  /\ [f EXCEPT !.old = TRUE] \in File
         /\ [f EXCEPT !.old = TRUE].by = f.by
         /\ [f EXCEPT !.old = TRUE].written = f.written
BY DEF File

\* The initial state is typed and every step keeps it so.
LEMMA LockTypeStep == LockTypeOK /\ [LockNext]_lockVars => LockTypeOK'
<1> SUFFICES ASSUME LockTypeOK, [LockNext]_lockVars PROVE LockTypeOK'
    OBVIOUS
<1> USE FileLockAssumption, CreatedFile, NamedFile, OldFile DEF LockTypeOK, Judging
<1>1. CASE UNCHANGED lockVars
      BY <1>1 DEF lockVars
<1>2. ASSUME NEW p \in Proc, Step(p) PROVE LockTypeOK'
  <2>1. CASE Open(p)
    <3>1. lock' \in File \cup {NoFile}
          BY <2>1 DEF Open
    <3>2. pc' \in [Proc -> PC] /\ \A q \in Proc : pc'[q] \in Judging => pc[q] \in Judging
          BY <2>1 DEF Open, Go, PC
    <3>3. UNCHANGED <<guard, judged, data, seen, stored>>
          BY <2>1 DEF Open
    <3> QED BY <3>1, <3>2, <3>3
  <2>2. CASE Again(p)
    <3>1. lock' \in File \cup {NoFile}
          BY <2>2 DEF Again
    <3>2. pc' \in [Proc -> PC] /\ \A q \in Proc : pc'[q] \in Judging => pc[q] \in Judging
          BY <2>2 DEF Again, Go, PC
    <3>3. UNCHANGED <<guard, judged, data, seen, stored>>
          BY <2>2 DEF Again
    <3> QED BY <3>1, <3>2, <3>3
  <2>3. CASE Write(p)
        BY <2>3 DEF Write, Go, PC
  <2>4. CASE Read(p)
        BY <2>4 DEF Read, Go, PC, Stale
  <2>5. CASE Wait(p)
        BY <2>5 DEF Wait, Go, PC
  <2>6. CASE OpenGuard(p)
    <3>1. guard' \in File \cup {NoFile} /\ UNCHANGED <<lock, judged, data, seen, stored>>
          BY <2>6, CreatedFile DEF OpenGuard
    <3>2. pc' \in [Proc -> PC] /\ \A q \in Proc : pc'[q] \in Judging => pc[q] \in Judging
          BY <2>6 DEF OpenGuard, Go, PC
    <3> QED BY <3>1, <3>2
  <2>7. CASE WriteGuard(p)
    <3>1. guard' \in File \cup {NoFile} /\ UNCHANGED <<lock, judged, data, seen, stored>>
          BY <2>7, NamedFile DEF WriteGuard
    <3>2. pc' \in [Proc -> PC] /\ \A q \in Proc : pc'[q] \in Judging => pc[q] \in Judging
          BY <2>7 DEF WriteGuard, Go, PC
    <3> QED BY <3>1, <3>2
  <2>8. CASE Recheck(p)
        BY <2>8 DEF Recheck, Go, PC
  <2>9. CASE RemoveStale(p)
        BY <2>9 DEF RemoveStale, Go, PC
  <2>10. CASE GuardIsMine(p)
        BY <2>10 DEF GuardIsMine, Go, PC
  <2>11. CASE DropGuard(p)
        BY <2>11 DEF DropGuard, Go, PC
  <2>12. CASE ReadGuard(p)
        BY <2>12 DEF ReadGuard, Go, PC, Stale
  <2>13. CASE CheckGuard(p)
        BY <2>13 DEF CheckGuard, Go, PC
  <2>14. CASE RemoveGuard(p)
        BY <2>14 DEF RemoveGuard, Go, PC
  <2>15. CASE Load(p)
        BY <2>15 DEF Load, Go, PC
  <2>16. CASE Store(p)
        BY <2>16 DEF Store, Go, PC
  <2>17. CASE LockIsMine(p)
        BY <2>17 DEF LockIsMine, Go, PC
  <2>18. CASE Drop(p)
        BY <2>18 DEF Drop, Go, PC
  <2> QED BY <1>2, <2>1, <2>2, <2>3, <2>4, <2>5, <2>6, <2>7, <2>8, <2>9, <2>10, <2>11, <2>12, <2>13, <2>14, <2>15, <2>16, <2>17, <2>18 DEF Step
<1>3. ASSUME NEW p \in Proc, Timeout(p) PROVE LockTypeOK'
      BY <1>3 DEF Timeout, Go, PC
<1>4. ASSUME NEW p \in Proc, SweepStat(p) PROVE LockTypeOK'
      BY <1>4 DEF SweepStat, Go, PC
<1>5. ASSUME NEW p \in Proc, SweepRemove(p) PROVE LockTypeOK'
      BY <1>5 DEF SweepRemove, Go, PC
<1>6. ASSUME NEW p \in Proc, Crash(p) PROVE LockTypeOK'
      BY <1>6 DEF Crash, PC
<1>7. CASE AgeLock
      BY <1>7 DEF AgeLock
<1>8. CASE AgeGuard
      BY <1>8 DEF AgeGuard
<1> QED BY <1>1, <1>2, <1>3, <1>4, <1>5, <1>6, <1>7, <1>8 DEF LockNext

\* FileLock: no process is ever at a call, or a file in a state, that fs-lock.ts does not have.
THEOREM LockTypeCorrect == LockSpec => []LockTypeOK
<1>1. LockInit => LockTypeOK
      BY DEF LockInit, LockTypeOK, PC, Judging
<1> QED BY <1>1, LockTypeStep, PTL DEF LockSpec

\* The break guard excludes breakers, so the lock excludes holders: every step
\* keeps LockInv while nobody crashes inside a break.
LEMMA LockStep ==
  ASSUME CrashAt \cap Guarding = {}
  PROVE  LockInv /\ [LockNext]_lockVars => LockInv'
<1> SUFFICES ASSUME LockInv, [LockNext]_lockVars PROVE LockInv'
    OBVIOUS
<1>1. LockTypeOK'
      BY LockTypeStep DEF LockInv
<1>2. /\ pc \in [Proc -> PC]
      /\ lock \in File \cup {NoFile} /\ guard \in File \cup {NoFile}
      /\ lock # NoFile => lock.by \in Proc
      /\ guard # NoFile => guard.by \in Proc
      BY DEF LockInv, LockTypeOK, File
<1>3. HoldersOwn /\ GuardersOwn /\ GuardAlive /\ GuardKept /\ RemovesDead
      BY DEF LockInv
<1> DEFINE Rest == HoldersOwn /\ GuardersOwn /\ GuardAlive /\ GuardKept /\ RemovesDead
<1> SUFFICES Rest'
    BY <1>1 DEF LockInv
<1> USE <1>2, <1>3, FileLockAssumption
<1> USE DEF HoldersOwn, GuardersOwn, GuardAlive, GuardKept, RemovesDead, Dead, Holding, Guarding
<1>4. CASE UNCHANGED lockVars
      BY <1>4 DEF lockVars
<1>5. ASSUME NEW p \in Proc, Step(p) PROVE Rest'
  <2>1. CASE Open(p)
        BY <2>1, CreatedFile DEF Open, Go
  <2>2. CASE Again(p)
        BY <2>2, CreatedFile DEF Again, Go
  <2>3. CASE Write(p)
        BY <2>3, NamedFile DEF Write, Go
  <2>4. CASE Read(p)
        BY <2>4 DEF Read, Go, Stale
  <2>5. CASE Wait(p)
        BY <2>5 DEF Wait, Go
  <2>6. CASE OpenGuard(p)
        BY <2>6, CreatedFile DEF OpenGuard, Go
  <2>7. CASE WriteGuard(p)
        BY <2>7, NamedFile DEF WriteGuard, Go
  <2>8. CASE Recheck(p)
        BY <2>8 DEF Recheck, Go, Stale, SameState
  <2>9. CASE RemoveStale(p)
        BY <2>9 DEF RemoveStale, Go
  <2>10. CASE GuardIsMine(p)
        BY <2>10 DEF GuardIsMine, Go, IsOwn
  <2>11. CASE DropGuard(p)
        BY <2>11 DEF DropGuard, Go
  <2>12. CASE ReadGuard(p)
        BY <2>12 DEF ReadGuard, Go, Stale, Dead
  <2>13. CASE CheckGuard(p)
        BY <2>13 DEF CheckGuard, Go
  <2>14. CASE RemoveGuard(p)
        BY <2>14 DEF RemoveGuard, Go
  <2>15. CASE Load(p)
        BY <2>15 DEF Load, Go
  <2>16. CASE Store(p)
        BY <2>16 DEF Store, Go
  <2>17. CASE LockIsMine(p)
        BY <2>17 DEF LockIsMine, Go
  <2>18. CASE Drop(p)
        BY <2>18 DEF Drop, Go
  <2> HIDE DEF Rest
  <2> QED BY <1>5, <2>1, <2>2, <2>3, <2>4, <2>5, <2>6, <2>7, <2>8, <2>9, <2>10, <2>11, <2>12, <2>13, <2>14, <2>15, <2>16, <2>17, <2>18 DEF Step
<1>6. ASSUME NEW p \in Proc, Timeout(p) PROVE Rest'
      BY <1>6 DEF Timeout, Go
<1>7. ASSUME NEW p \in Proc, SweepStat(p) PROVE Rest'
      BY <1>7 DEF SweepStat, Go, Stale
<1>8. ASSUME NEW p \in Proc, SweepRemove(p) PROVE Rest'
      BY <1>8 DEF SweepRemove, Go
<1>9. ASSUME NEW p \in Proc, Crash(p) PROVE Rest'
      BY <1>9 DEF Crash
<1>10. CASE AgeLock
      BY <1>10, OldFile DEF AgeLock
<1>11. CASE AgeGuard
      BY <1>11, OldFile DEF AgeGuard
<1> HIDE DEF Rest
<1> QED BY <1>4, <1>5, <1>6, <1>7, <1>8, <1>9, <1>10, <1>11 DEF LockNext

LEMMA LockAlways ==
  ASSUME CrashAt \cap Guarding = {}
  PROVE  LockSpec => []LockInv
<1>1. LockInit => LockInv
      BY DEF LockInit, LockInv, LockTypeOK, PC, Judging, HoldersOwn, GuardersOwn, GuardAlive, GuardKept,
             RemovesDead, Holding, Guarding
<1>2. LockInv /\ [LockNext]_lockVars => LockInv'
      BY LockStep
<1> QED BY <1>1, <1>2, PTL DEF LockSpec

\* Two processes are never inside the guarded section together.
THEOREM LockExclusion ==
  ASSUME CrashAt \cap Guarding = {}
  PROVE  LockSpec => []MutualExclusion
<1>1. LockInv => MutualExclusion
      BY DEF LockInv, HoldersOwn, Holding, MutualExclusion
<1>2. LockSpec => []LockInv
      BY LockAlways
<1> QED BY <1>1, <1>2, PTL

\* Two processes are never both about to remove a lock they judged stale.
THEOREM BreakersExclude ==
  ASSUME CrashAt \cap Guarding = {}
  PROVE  LockSpec => []OneBreaker
<1>1. LockInv => OneBreaker
      BY DEF LockInv, GuardersOwn, Guarding, OneBreaker
<1>2. LockSpec => []LockInv
      BY LockAlways
<1> QED BY <1>1, <1>2, PTL

\* One rewrite at a time, each of what the last one left: the guarded counter
\* counts every process that stored.
LEMMA CountStep == LockInv /\ Fresh /\ Counted /\ [LockNext]_lockVars => (Fresh /\ Counted)'
<1> SUFFICES ASSUME LockInv, Fresh, Counted, [LockNext]_lockVars PROVE Fresh' /\ Counted'
    OBVIOUS
<1>1. /\ pc \in [Proc -> PC] /\ stored \subseteq Proc
      /\ seen \in [Proc -> Nat] /\ data \in Nat
      BY DEF LockInv, LockTypeOK
<1>2. ASSUME UNCHANGED <<data, seen, stored>>,
             \A q \in Proc : pc'[q] = "store" => pc[q] = "store",
             \A q \in stored : pc'[q] \in {"mine", "drop", "done", "sweep", "crashed"}
      PROVE  Fresh' /\ Counted'
      BY <1>2 DEF Fresh, Counted
<1>3. ASSUME UNCHANGED lockVars PROVE Fresh' /\ Counted'
      BY <1>3 DEF lockVars, Fresh, Counted
<1>4. ASSUME NEW p \in Proc, Step(p) PROVE Fresh' /\ Counted'
  <2>1. CASE Open(p)
        BY <2>1, <1>1, <1>2 DEF Open, Go, Counted
  <2>2. CASE Again(p)
        BY <2>2, <1>1, <1>2 DEF Again, Go, Counted
  <2>3. CASE Write(p)
        BY <2>3, <1>1, <1>2 DEF Write, Go, Counted
  <2>4. CASE Read(p)
        BY <2>4, <1>1, <1>2 DEF Read, Go, Counted
  <2>5. CASE Wait(p)
        BY <2>5, <1>1, <1>2 DEF Wait, Go, Counted
  <2>6. CASE OpenGuard(p)
        BY <2>6, <1>1, <1>2 DEF OpenGuard, Go, Counted
  <2>7. CASE WriteGuard(p)
        BY <2>7, <1>1, <1>2 DEF WriteGuard, Go, Counted
  <2>8. CASE Recheck(p)
        BY <2>8, <1>1, <1>2 DEF Recheck, Go, Counted
  <2>9. CASE RemoveStale(p)
        BY <2>9, <1>1, <1>2 DEF RemoveStale, Go, Counted
  <2>10. CASE GuardIsMine(p)
        BY <2>10, <1>1, <1>2 DEF GuardIsMine, Go, Counted
  <2>11. CASE DropGuard(p)
        BY <2>11, <1>1, <1>2 DEF DropGuard, Go, Counted
  <2>12. CASE ReadGuard(p)
        BY <2>12, <1>1, <1>2 DEF ReadGuard, Go, Counted
  <2>13. CASE CheckGuard(p)
        BY <2>13, <1>1, <1>2 DEF CheckGuard, Go, Counted
  <2>14. CASE RemoveGuard(p)
        BY <2>14, <1>1, <1>2 DEF RemoveGuard, Go, Counted
  <2>15. CASE Load(p)
        BY <2>15, <1>1 DEF Load, Go, Fresh, Counted
  <2>16. CASE Store(p)
    <3>1. seen[p] = data /\ p \notin stored /\ data' = data + 1 /\ stored' = stored \cup {p}
          BY <2>16, <1>1 DEF Store, Go, Fresh, Counted
    <3>2. IsFiniteSet(stored') /\ Cardinality(stored') = data'
          BY <3>1, FS_AddElement DEF Counted
    <3>3. \A q \in stored' : pc'[q] \in {"mine", "drop", "done", "sweep", "crashed"}
          BY <2>16, <3>1, <1>1 DEF Store, Go, Counted
    <3>4. \A q \in Proc : pc'[q] # "store"
      <4>1. \A q \in Proc : pc[q] = "store" => q = p
            BY <2>16 DEF Store, Go, LockInv, HoldersOwn, Holding
      <4> QED BY <2>16, <4>1, <1>1 DEF Store, Go
    <3> QED BY <3>2, <3>3, <3>4 DEF Fresh, Counted
  <2>17. CASE LockIsMine(p)
        BY <2>17, <1>1, <1>2 DEF LockIsMine, Go, Counted
  <2>18. CASE Drop(p)
        BY <2>18, <1>1, <1>2 DEF Drop, Go, Counted
  <2> QED BY <1>4, <2>1, <2>2, <2>3, <2>4, <2>5, <2>6, <2>7, <2>8, <2>9, <2>10, <2>11, <2>12, <2>13, <2>14, <2>15, <2>16, <2>17, <2>18 DEF Step
<1>5. ASSUME NEW p \in Proc, Timeout(p) PROVE Fresh' /\ Counted'
      BY <1>5, <1>1, <1>2 DEF Timeout, Go, Counted
<1>6. ASSUME NEW p \in Proc, SweepStat(p) PROVE Fresh' /\ Counted'
      BY <1>6, <1>1, <1>2 DEF SweepStat, Go, Counted
<1>7. ASSUME NEW p \in Proc, SweepRemove(p) PROVE Fresh' /\ Counted'
      BY <1>7, <1>1, <1>2 DEF SweepRemove, Go, Counted
<1>8. ASSUME NEW p \in Proc, Crash(p) PROVE Fresh' /\ Counted'
      BY <1>8, <1>1, <1>2 DEF Crash, Go, Counted
<1>9. ASSUME AgeLock PROVE Fresh' /\ Counted'
      BY <1>9, <1>2 DEF AgeLock, Counted
<1>10. ASSUME AgeGuard PROVE Fresh' /\ Counted'
      BY <1>10, <1>2 DEF AgeGuard, Counted
<1> QED BY <1>3, <1>4, <1>5, <1>6, <1>7, <1>8, <1>9, <1>10 DEF LockNext

\* No rewrite of the guarded file is lost.
THEOREM UpdatesKept ==
  ASSUME CrashAt \cap Guarding = {}
  PROVE  LockSpec => []NoLostUpdate
<1>1. LockInit => Fresh /\ Counted
      BY FS_EmptySet DEF LockInit, Fresh, Counted
<1>2. LockSpec => []LockInv
      BY LockAlways
<1>3. Fresh /\ Counted => NoLostUpdate
      BY DEF Counted, NoLostUpdate
<1> QED BY <1>1, <1>2, <1>3, CountStep, PTL DEF LockSpec
=============================================================================
