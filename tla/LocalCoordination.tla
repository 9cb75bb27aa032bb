-------------------------- MODULE LocalCoordination --------------------------
(***************************************************************************)
(* packages/core/src/sync/local-coordination.ts: leases and counters of    *)
(* one collection, kept in one JSON file on this machine.  Every operation *)
(* reads the file, changes it and rewrites it under the file's lock (the   *)
(* lock itself is module FileLock), so each is one step here.              *)
(***************************************************************************)
EXTENDS LeaseRules, Sequences

CONSTANTS Name,                  \* counter names
          Floor,                 \* the floors a caller may pass
          MaxTime, MaxCounter    \* bounds of the model

ASSUME LocalAssumption ==
  /\ Floor \subseteq Nat
  /\ MaxTime \in Nat
  /\ MaxCounter \in Nat

VARIABLES
  leases,     \* the file's leases by key
  counters,   \* the file's counters by name; 0 is a counter not yet there
  now,        \* the machine's clock
  revived,    \* history: leases renewed by a heartbeat after they had expired
  reclaimed,  \* history: leases granted with reclaim
  issued      \* history: the values each counter handed out, in order

vars == <<leases, counters, now, revived, reclaimed, issued>>

TypeOK ==
  /\ leases \in [Key -> Row]
  /\ counters \in [Name -> Nat]
  /\ now \in Nat
  /\ revived \subseteq Key
  /\ reclaimed \subseteq Key
  /\ issued \in [Name -> Seq(Nat)]

Init ==
  /\ leases = [k \in Key |-> NoLease]
  /\ counters = [n \in Name |-> 0]
  /\ now = 0
  /\ revived = {}
  /\ reclaimed = {}
  /\ issued = [n \in Name |-> <<>>]

-----------------------------------------------------------------------------
\* leaseAcquire, granted.  A refusal writes nothing (its pruning is not saved).
LeaseAcquire(s, r) ==
  LET kept  == Prune(leases, now)
      prev  == kept[r.key]
      scope == GrantScope(prev, s, r)
      live  == LiveAgainst(kept, r.key, scope, now)
  IN /\ Conflicts(kept, s, r, scope, now) = {}
     /\ leases' = [kept EXCEPT ![r.key] =
                     GrantedLease(prev, s, scope, GrantTtl(prev, s, r), now,
                                  ~IsMine(prev, s) /\ r.key \in live)]
     /\ revived' = revived \ {r.key}
     /\ reclaimed' = IF r.reclaim THEN reclaimed \cup {r.key}
                                  ELSE reclaimed \ {r.key}
     /\ UNCHANGED <<counters, now, issued>>

\* leaseHeartbeat of some keys, or of all (keys = Key): every row of this
\* session is renewed, the expired ones too, with no check of what else has
\* been granted since.
LeaseHeartbeat(s, keys) ==
  LET mine == {k \in keys : IsMine(leases[k], s)}
  IN /\ mine # {}
     /\ leases' = [k \in Key |-> IF k \in mine THEN Renewed(leases[k], now)
                                              ELSE leases[k]]
     /\ revived' = revived \cup {k \in mine : ~IsLive(leases[k], now)}
     /\ UNCHANGED <<counters, now, reclaimed, issued>>

\* leaseRelease, released: only the holder's own row goes.
LeaseRelease(s, k) ==
  /\ IsMine(leases[k], s)
  /\ leases' = [leases EXCEPT ![k] = NoLease]
  /\ revived' = revived \ {k}
  /\ reclaimed' = reclaimed \ {k}
  /\ UNCHANGED <<counters, now, issued>>

\* Mutant of NextValue: a floor that is sent replaces the counter.
NextValueFloorWins(value, floor) == (IF floor > 0 THEN floor ELSE value) + 1

\* Math.max(counter, floor) + 1
NextValue(value, floor) == (IF value >= floor THEN value ELSE floor) + 1

\* counterNext and nextTaskId.
Bump(n, floor) ==
  LET value == NextValue(counters[n], floor)
  IN /\ value <= MaxCounter
     /\ counters' = [counters EXCEPT ![n] = value]
     /\ issued' = [issued EXCEPT ![n] = Append(@, value)]
     /\ UNCHANGED <<leases, now, revived, reclaimed>>

Tick ==
  /\ now < MaxTime
  /\ now' = now + 1
  /\ UNCHANGED <<leases, counters, revived, reclaimed, issued>>

Next ==
  \/ \E s \in Session, r \in Request : LeaseAcquire(s, r)
  \/ \E s \in Session, keys \in SUBSET Key : LeaseHeartbeat(s, keys)
  \/ \E s \in Session, k \in Key : LeaseRelease(s, k)
  \/ \E n \in Name, floor \in Floor : Bump(n, floor)
  \/ Tick

Spec == Init /\ [][Next]_vars
-----------------------------------------------------------------------------
\* Two live leases cover the same work and are held by different sessions.
Clash(j, k) ==
  /\ j # k
  /\ IsLive(leases[j], now) /\ IsLive(leases[k], now)
  /\ ~IsMine(leases[j], leases[k].session)
  /\ leases[j].scope \cap leases[k].scope # {}

\* Overlapping work is held by two sessions at once only where the code means
\* to allow it or a heartbeat revived an expired lease: sessions of different
\* users never both hold it otherwise, and sessions of one user only after
\* one of them reclaimed (leaseAcquire's conflict check against every other
\* operation, with time passing).
ExclusiveUnlessRevived ==
  \A j, k \in Key :
    Clash(j, k) =>
      \/ {j, k} \cap revived # {}
      \/ /\ {j, k} \cap reclaimed # {}
         /\ UserOf[leases[j].session] = UserOf[leases[k].session]

\* took_over_from tells the truth: without the reclaim mark the lost lease had
\* already expired when this one was acquired, with it the two holders are
\* sessions of one user.
TakeoverRecordHonest ==
  \A k \in Key :
    LET from == leases[k].took_over_from
    IN from.session # Nobody =>
         IF from.reclaim
         THEN UserOf[from.session] = UserOf[leases[k].session]
         ELSE from.expired_at <= leases[k].acquired_at

\* A live lease changes hands only to another session of its user, which the
\* new row says; it disappears only through its holder's own release, never
\* through the pruning done by someone else's acquire.
NoSilentTakeover ==
  [][\A k \in Key :
       IsLive(leases[k], now) /\ leases'[k].session # leases[k].session =>
         IF IsHeld(leases'[k])
         THEN /\ UserOf[leases'[k].session] = UserOf[leases[k].session]
              /\ leases'[k].took_over_from.session = leases[k].session
              /\ leases'[k].took_over_from.reclaim
         ELSE LeaseRelease(leases[k].session, k)]_vars

\* No counter hands out a value twice, whatever floors the callers pass: each
\* value is above every value before it.
CountersStrictlyIncrease ==
  \A n \in Name : \A i, j \in DOMAIN issued[n] :
    i < j => issued[n][i] < issued[n][j]
=============================================================================
