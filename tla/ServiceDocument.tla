-------------------------- MODULE ServiceDocument --------------------------
(***************************************************************************)
(* packages/service/src/store.ts, for one document id: the shared row, its *)
(* soft-deleted copy, the deletions feed and the list of purged ids.  Each *)
(* operation is one transaction and is taken here as one step.             *)
(*                                                                         *)
(* A revision stands for content and metadata.  Of the deletions feed a    *)
(* client sees the entries after its pull point, so the last entry of each *)
(* kind is kept, for the one collection modelled; a row in another one is  *)
(* away.  Left out: item checks that no revision here fails (secret, size, *)
(* embedding, task namespace), retracts, and the retention of the trash.   *)
(***************************************************************************)
EXTENDS Integers, Sequences

CONSTANTS Machine,      \* the devices that push and pull
          User,
          UserOf,       \* [Machine -> User]
          NoRow,        \* no such row
          NoDevice      \* a last device that is none of them: a restore, or another machine

ASSUME ServiceDocumentAssumption ==
  /\ UserOf \in [Machine -> User]
  /\ NoDevice \notin Machine

VARIABLES
  row,        \* documents: the live row, or NoRow
  trash,      \* deleted_documents: each user's deleted copies, newest first
  deletedAt,  \* deletions feed: when the last delete was recorded, 0 for never
  purgedAt,   \* deletions feed: when a purge was recorded, 0 for never
  closedAt    \* purged_ids: when the id was closed for good, 0 for never

serviceVars == <<row, trash, deletedAt, purgedAt, closedAt>>

Row == [rev : Nat, upd : Nat, by : Machine \cup {NoDevice}, owner : User,
        at : Nat, away : BOOLEAN]

ServiceTypeOK ==
  /\ row \in Row \cup {NoRow}
  /\ trash \in [User -> Seq(Row)]
  /\ deletedAt \in Nat /\ purgedAt \in Nat /\ closedAt \in Nat

ServiceInit ==
  /\ row = NoRow /\ trash = [u \in User |-> <<>>]
  /\ deletedAt = 0 /\ purgedAt = 0 /\ closedAt = 0

-----------------------------------------------------------------------------
IsPurged == closedAt # 0

\* The row machine m's upsert of revision c leaves: an insert is attributed to
\* the caller, an update keeps the owner, the last write wins whatever its
\* updated_at, and an identical row is left as it is.
Upserted(m, c, now) ==
  IF row # NoRow /\ row.rev = c.rev /\ ~row.away THEN row
  ELSE [rev |-> c.rev, upd |-> c.upd, by |-> m,
        owner |-> IF row = NoRow THEN UserOf[m] ELSE row.owner,
        at |-> now, away |-> FALSE]

\* Mutant: the purged_ids check is lost.
UpsertEvenPurged(m, c, now) ==
  /\ row' = Upserted(m, c, now)
  /\ UNCHANGED <<trash, deletedAt, purgedAt, closedAt>>

\* upsertOne; a purged id is refused.
Upsert(m, c, now) ==
  /\ row' = IF IsPurged THEN row ELSE Upserted(m, c, now)
  /\ UNCHANGED <<trash, deletedAt, purgedAt, closedAt>>

\* deleteMany: only the owner's row goes, into the trash, and onto the feed of
\* the collection it was in.
Delete(u, now) ==
  IF row # NoRow /\ row.owner = u
  THEN /\ row' = NoRow
       /\ trash' = [trash EXCEPT ![u] = <<row>> \o @]
       /\ deletedAt' = IF row.away THEN deletedAt ELSE now
       /\ UNCHANGED <<purgedAt, closedAt>>
  ELSE UNCHANGED serviceVars

\* purgeMany: the caller's row and deleted copies go and the id is closed, with
\* an entry on the feed of every collection they were in; somebody else's live
\* document of that id stays, and so does the id.
Purge(u, now) ==
  LET taken == row # NoRow /\ row.owner # u
      gone  == {trash[u][i] : i \in DOMAIN trash[u]} \cup ({row} \ {NoRow})
      purged == ~taken /\ gone # {}
  IN  /\ trash' = [trash EXCEPT ![u] = <<>>]
      /\ row' = IF taken THEN row ELSE NoRow
      /\ closedAt' = IF purged /\ ~IsPurged THEN now ELSE closedAt
      /\ purgedAt' = IF purged /\ \E r \in gone : ~r.away THEN now ELSE purgedAt
      /\ UNCHANGED deletedAt

\* restoreMany: the caller's newest deleted copy is live again, as an update of
\* now by no device, with no entry on the feed.
Restore(u, now) ==
  /\ trash[u] # <<>>
  /\ ~IsPurged
  /\ row = NoRow
  /\ row' = [Head(trash[u]) EXCEPT !.upd = now, !.by = NoDevice, !.at = now]
  /\ trash' = [trash EXCEPT ![u] = Tail(@)]
  /\ UNCHANGED <<deletedAt, purgedAt, closedAt>>

\* An upsert, by a machine that follows it, that moves the row into another
\* collection.
MoveAway(now) ==
  /\ row # NoRow /\ ~row.away
  /\ row' = [row EXCEPT !.away = TRUE, !.by = NoDevice, !.at = now]
  /\ UNCHANGED <<trash, deletedAt, purgedAt, closedAt>>
=============================================================================
