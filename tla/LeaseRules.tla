----------------------------- MODULE LeaseRules -----------------------------
(***************************************************************************)
(* The rules by which a lease is granted, shared by the two coordination   *)
(* backends: the files on one machine (local-coordination.ts) and the sync *)
(* service (service/src/coord.ts), which document the same rules.  A lease *)
(* table holds at most one lease per key; a lease covers its own key and   *)
(* the other entries of its scope until it expires.                        *)
(*                                                                         *)
(* Abstracted: the key, scope and session strings are members of small     *)
(* sets (the code checks them against regular expressions first), the      *)
(* title and device name are left out, times are whole seconds, and a      *)
(* scope entry `key:K` is the key K itself.  heartbeat_at is not stored:   *)
(* it is expires_at minus the ttl in every row the code writes.            *)
(***************************************************************************)
EXTENDS Integers

CONSTANTS Session, User, UserOf,     \* who may hold; the user each session runs as
          Key, Area,                 \* lease keys; other scope entries
          SentScope,                 \* the scopes a caller may send
          Ttl,                       \* the ttl_seconds a caller may send
          LEASE_TTL_DEFAULT,         \* used when none is sent
          EXPIRED_KEEP_SECONDS,      \* how long an expired lease stays listed
          Nobody,                    \* holder of an absent lease
          Omitted                    \* an optional argument that was not sent

Scopes == SUBSET (Key \cup Area)

ASSUME LeaseAssumption ==
  /\ UserOf \in [Session -> User]
  /\ Nobody \notin Session
  /\ SentScope \subseteq Scopes
  /\ Ttl \subseteq Nat \ {0}
  /\ LEASE_TTL_DEFAULT \in Ttl
  /\ EXPIRED_KEEP_SECONDS \in Nat

\* took_over_from: the holder that lost the lease, when its lease ended, and
\* whether it was reclaimed live by another session of the same user.
Takeover == [session : Session \cup {Nobody}, expired_at : Nat, reclaim : BOOLEAN]
NoTakeover == [session |-> Nobody, expired_at |-> 0, reclaim |-> FALSE]

Lease == [session : Session, scope : Scopes, ttl : Nat,
          acquired_at : Nat, expires_at : Nat, took_over_from : Takeover]
NoLease == [session |-> Nobody, scope |-> {}, ttl |-> 0, acquired_at |-> 0,
            expires_at |-> 0, took_over_from |-> NoTakeover]
Row == Lease \cup {NoLease}

Request == [key : Key, scope : SentScope \cup {Omitted}, ttl : Ttl \cup {Omitted},
            reclaim : BOOLEAN]

EffectiveScope(key, scope) == {key} \cup scope

IsHeld(l)    == l.session # Nobody
IsMine(l, s) == l.session = s
IsLive(l, t) == l.expires_at > t

\* Mutants of Prune: a pruned row that keeps a stray field; pruning a live
\* lease that is old instead of one that is long expired.
PruneLeavesMark(table, t) ==
  [k \in Key |-> IF table[k].expires_at < t - EXPIRED_KEEP_SECONDS
                 THEN [NoLease EXCEPT !.scope = {k}] ELSE table[k]]
PruneAllOld(table, t) ==
  [k \in Key |-> IF table[k].acquired_at < t - EXPIRED_KEEP_SECONDS
                 THEN NoLease ELSE table[k]]

\* The table without the leases that expired longer ago than they are kept.
Prune(table, t) ==
  [k \in Key |-> IF table[k].expires_at < t - EXPIRED_KEEP_SECONDS
                 THEN NoLease ELSE table[k]]

\* The scope and ttl a grant of r to s would store: what was sent, else a
\* renewal keeps its own, else just the key and the default.
GrantScope(prev, s, r) ==
  IF r.scope # Omitted THEN EffectiveScope(r.key, r.scope)
  ELSE IF IsMine(prev, s) THEN EffectiveScope(r.key, prev.scope)
  ELSE EffectiveScope(r.key, {})

GrantTtl(prev, s, r) ==
  IF r.ttl # Omitted THEN r.ttl
  ELSE IF IsMine(prev, s) THEN prev.ttl ELSE LEASE_TTL_DEFAULT

\* Mutant of LiveAgainst: only the key is compared, not the scopes.
LiveOnKeyOnly(table, key, scope, t) == {k \in Key : IsLive(table[k], t) /\ k = key}

\* The keys whose live lease is on r's key or overlaps the scope.
LiveAgainst(table, key, scope, t) ==
  {k \in Key : /\ IsLive(table[k], t)
               /\ k = key \/ table[k].scope \cap scope # {}}

\* Mutant of Conflicts: reclaim takes over anyone's lease.
ConflictsAnyReclaim(table, s, r, scope, t) ==
  {k \in LiveAgainst(table, r.key, scope, t) : ~IsMine(table[k], s) /\ ~r.reclaim}

\* Those of them that stand in s's way: with reclaim, the leases of the same
\* user's other sessions do not.
Conflicts(table, s, r, scope, t) ==
  {k \in LiveAgainst(table, r.key, scope, t) :
     /\ ~IsMine(table[k], s)
     /\ ~(r.reclaim /\ UserOf[table[k].session] = UserOf[s])}

\* The lease stored by a grant at time t over the row prev.
GrantedLease(prev, s, scope, ttl, t, reclaimed) ==
  [session |-> s, scope |-> scope, ttl |-> ttl,
   acquired_at |-> IF IsMine(prev, s) THEN prev.acquired_at ELSE t,
   expires_at |-> t + ttl,
   took_over_from |->
     IF IsMine(prev, s) THEN prev.took_over_from
     ELSE IF IsHeld(prev)
          THEN [session |-> prev.session, expired_at |-> prev.expires_at,
                reclaim |-> reclaimed]
          ELSE NoTakeover]

\* A heartbeat at time t moves the end of a lease, whether or not it expired.
Renewed(l, t) == [l EXCEPT !.expires_at = t + l.ttl]
=============================================================================
