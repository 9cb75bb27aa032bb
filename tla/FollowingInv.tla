---------------------------- MODULE FollowingInv ----------------------------
(***************************************************************************)
(* What holds of Following in every state, told so that every step keeps   *)
(* it, and, part by part, what a step keeps: FollowingProofs proves that   *)
(* every step does.                                                        *)
(***************************************************************************)
EXTENDS Following

\* What each operation may be about to do.
OnItsWay(op, pc) ==
  /\ op = "none" => pc = "idle"
  /\ op = "create" => pc \in {"uncreate", "rejoin", "resubscribe", "backfill"}
  /\ op = "subscribe" => \/ pc \in {"unredirect", "unleave", "make"}
                           \/ pc \in {"subFetch", "subApply", "subCycle"}
                           \/ pc \in Pushing \cup Pulling
  /\ op = "remove" => pc \in {"removePush", "removeSettle", "unfollow", "leave", "drop"}
  /\ op = "removeAll" => pc \in {"queueAll", "unfollow", "drop"}
  /\ op = "merge" => \/ pc \in {"mergeCopy", "mergeVerify", "mergeMove", "mergeCheck"}
                       \/ pc \in {"mergeRemove", "unfollow", "drop", "redirect"}
  /\ op = "write" => pc = "add"
  /\ op = "cycle" => pc \in Pushing \cup Pulling
  /\ op = "visit" => pc \in {"visitFetch", "visitApply", "visitDone", "visitFollow"}

\* Steps that need no collection of their own, and those of a pull that works
\* on one after the other.
Nameless == {"idle", "deletes", "list", "send", "autoRead", "autoAdd", "pull", "recover",
             "recoverAdd", "choose", "each"}
EachOf == {"each", "moveDrop", "fetch", "apply", "clear"}

TaskOK(t) ==
  /\ t \in Task /\ OnItsWay(t.op, t.pc)
  /\ t.pc \notin Nameless => t.name \in Name
  /\ t.op = "merge" => t.into \in Name /\ t.into # t.name

StoreOK ==
  /\ rows \in [Doc -> Row \cup {NoRow}] /\ clock \in Nat
  /\ here \subseteq Name /\ copy \in [Name -> Revs]
  /\ dirty \subseteq Name \X Doc /\ rejected \subseteq dirty
  /\ \A n \in Name, d \in Doc :
       /\ copy[n][d] > 0 => n \in here
       /\ <<n, d>> \in dirty => copy[n][d] > 0
       /\ <<n, d>> \in rejected => d \in Refused
  /\ pullPoint \in 0..clock
FollowOK ==
  /\ subscribed \subseteq Name /\ left \subseteq Name /\ pending \subseteq Name
  /\ redirect \in [Name -> Name \cup {Nowhere}]
  /\ queue \subseteq Mine /\ tombs \subseteq Doc /\ tombs \cap Mine = {}
  /\ used \in Counts
HistoryOK ==
  /\ latest \in Revs /\ wiped \in BOOLEAN
  /\ excused \subseteq Doc /\ astray \subseteq Doc
  /\ owed \subseteq Name /\ dropped \subseteq Name
TasksOK ==
  /\ at \in [Proc -> Task]
  /\ \A p \in Proc : TaskOK(at[p]) /\ at[p].start <= clock

TypeInv == StoreOK /\ FollowOK /\ HistoryOK /\ TasksOK

\* Every set of names has one that is not redirected into it.
Acyclic == \A S \in SUBSET Name : S # {} => \E n \in S : redirect[n] \notin S

-----------------------------------------------------------------------------
(* What was left stays away.                                               *)

\* The names a process may make or follow.
Heading(t) ==
  {n \in Name :
     \/ t.op = "merge" /\ n = t.into
     \/ t.op \in {"create", "write", "visit"} /\ n \in {t.name} \cup t.whole
     \/ t.pc \in {"unredirect", "unleave", "make", "subFetch", "subApply"} /\ n = t.name
     \/ t.pc \in {"autoAdd", "recoverAdd"} /\ n \in t.all
     \/ t.pc \in EachOf /\ n \in t.todo
     \/ t.pc \in EachOf \ {"each"} /\ n = t.name}

\* What a process was to keep away from is still unfollowed, and it is not
\* about to make or follow it.
AwayOK(t) == t.away \subseteq Unfollowed /\ t.away \cap Heading(t) = {}
KeptAway == \A p \in Proc : AwayOK(at[p])

-----------------------------------------------------------------------------
(* No document is lost.                                                    *)

\* Revision r of d, or a later one, is on the service.
Backed(d, r) == d \in excused \/ (rows[d] # NoRow /\ rows[d].rev >= r)

\* Nothing is newer than a document's newest revision, and what is not dirty
\* is on the service.
StoreBacked ==
  /\ queue \subseteq excused
  /\ \A d \in Doc : rows[d] # NoRow => rows[d].rev <= latest[d]
  /\ \A n \in Name, d \in Doc :
       /\ copy[n][d] <= latest[d]
       /\ copy[n][d] > 0 /\ <<n, d>> \notin dirty => Backed(d, copy[n][d])

\* Where a task is about to record what it sent, or to apply what it fetched.
Settling == {"settle", "removeSettle"}
Answered == Settling \cup {"apply", "subApply", "visitApply"}

Within(t) == \A d \in Doc : t.docs[d] <= latest[d] /\ t.sent[d] <= latest[d]

\* What was sent or fetched is on the service.
SentBacked(t) ==
  t.pc \in Answered =>
    \A d \in Doc : t.sent[d] > 0 /\ (t.pc \in Settling => d \notin Refused) => Backed(d, t.sent[d])

\* So is what a removal without force is about to drop, but for what it pushes.
RemoveBacked(t) ==
  t.op = "remove" /\ ~t.sure =>
    \A d \in Doc : t.docs[d] > 0 /\ (t.pc \in {"removePush", "removeSettle"} => d \notin t.ids)
                     => Backed(d, t.docs[d])

\* One for everybody was confirmed, document by document.
RemoveAllExcused(t) ==
  t.op = "removeAll" /\ t.pc # "queueAll" => \A d \in Doc : t.docs[d] > 0 => d \in excused

\* What a merge has copied and not dropped yet.
Moving(t, d) ==
  /\ t.docs[d] > 0
  /\ \/ t.pc = "mergeVerify"
     \/ t.pc = "mergeMove" /\ d \in t.ids

\* It is in the target, or on the service.
MergeBacked(t) ==
  /\ t.pc = "mergeMove" => \A d \in t.ids : t.docs[d] > 0
  /\ \A d \in Doc : Moving(t, d) => Backed(d, t.docs[d]) \/ copy[t.into][d] >= t.docs[d]

TaskBacked(t) ==
  Within(t) /\ SentBacked(t) /\ RemoveBacked(t) /\ RemoveAllExcused(t) /\ MergeBacked(t)

LossInv == StoreBacked /\ (\A p \in Proc : TaskBacked(at[p])) /\ NothingLost

\* The same once the step is done.
BackedNext(d, r) == d \in excused' \/ (rows'[d] # NoRow /\ rows'[d].rev >= r)

\* What a step keeps: what is on the service stays there, and revisions grow.
Steady ==
  \A d \in Doc :
    /\ latest'[d] >= latest[d]
    /\ d \in excused => d \in excused'
    /\ \A r \in Nat : Backed(d, r) => BackedNext(d, r)

\* A copy stays, or is on the service, or goes elsewhere, unless a merge that
\* has not dropped its source relies on it.
CopiesKept ==
  \A m \in Name, d \in Doc :
    \/ copy'[m][d] >= copy[m][d]
    \/ BackedNext(d, copy[m][d])
    \/ d \notin MovingInto(m) /\ \E n \in Name : copy'[n][d] >= copy[m][d]

\* A new revision is in a copy or on the service.
NewestKept ==
  \A d \in Doc :
    \/ latest'[d] = latest[d]
    \/ rows'[d] # NoRow /\ rows'[d].rev = latest'[d]
    \/ \E n \in Name : copy'[n][d] = latest'[d]

\* u does the work t does.
SameWork(t, u) ==
  /\ u.pc = t.pc /\ u.op = t.op /\ u.sure = t.sure /\ u.name = t.name /\ u.into = t.into
  /\ u.docs = t.docs /\ u.sent = t.sent /\ u.ids = t.ids

-----------------------------------------------------------------------------
(* History that was left comes back.                                       *)

\* A teammate's document of n, stored by t, that is to be here.
Due(d, n, t) ==
  /\ d \notin tombs \cup astray
  /\ rows[d] # NoRow /\ rows[d].in = n /\ ~rows[d].echo /\ rows[d].at <= t

\* n has them, but for S, which are on their way into it.
Covered(n, t, S) == \A d \in Doc : Due(d, n, t) => copy[n][d] > 0 \/ d \in S

Fetched(k) == {d \in Doc : k.sent[d] > 0}

\* A pull that is done with n has seen it up to its start.
Seen(k, n, S) ==
  k.pc \in EachOf =>
    \/ n \in k.todo
    \/ k.name = n /\ k.pc \in {"moveDrop", "fetch"}
    \/ Covered(n, k.start, IF k.name = n /\ k.pc = "apply" THEN S \cup Fetched(k) ELSE S)

\* n has its history up to the pull point, and what a pull has seen of it.
Whole(n, S) == Covered(n, pullPoint, S) /\ \A p \in Proc : Seen(at[p], n, S)

\* k is about to clear n's mark, its history fetched.
Clearing(k, n) ==
  n \in k.marked /\ k.name = n /\ k.pc \in {"apply", "clear", "visitApply", "visitDone"}
Bringing(k) == IF k.pc \in {"apply", "visitApply"} THEN Fetched(k) ELSE {}

OneCycle == \A p, q \in Cycling : p = q

\* What a pull, or a visit, is pulling from where.
PullOK(k) ==
  /\ k.pc \in Pulling \ {"pull"} => k.from = pullPoint /\ pullPoint <= k.start
  /\ k.op = "visit" => k.marked \subseteq k.whole \cap {k.name}
  /\ k.pc \in EachOf => k.marked \subseteq k.whole
  /\ k.pc = "clear" => k.name \in k.marked
  /\ k.pc = "moveDrop" => \A d \in k.ids : ~Due(d, k.name, k.start)

Stamped == \A d \in Doc : rows[d] # NoRow => rows[d].at > 0 /\ rows[d].rev > 0

Followed == owed \subseteq here \ Unfollowed

\* What is owed is marked, or whole; so it is when its mark goes.
Marked == \A n \in owed :
  /\ n \notin pending => Whole(n, {})
  /\ \A q \in Proc : Clearing(at[q], n) => Whole(n, Bringing(at[q]))

HistInv == OneCycle /\ Stamped /\ Followed /\ (\A p \in Proc : PullOK(at[p])) /\ Marked

\* What a step keeps: nothing stored by now falls due, and what is due is not
\* dropped.
DueKept == \A d \in Doc, n \in Name, t \in Nat : t <= clock /\ Due(d, n, t)' => Due(d, n, t)
\* The feed positions something is due up to: the pull point, and where the
\* pull under way began.
Moment(t) == t = pullPoint \/ \E p \in Proc : at[p].pc \in EachOf /\ at[p].start = t
CopyKept ==
  \A n \in owed', d \in Doc, t \in Nat :
    Moment(t) /\ Due(d, n, t)' /\ copy[n][d] > 0 => copy'[n][d] > 0

\* m pulls what k pulls.
SamePull(k, m) ==
  /\ SameWork(k, m) /\ m.todo = k.todo /\ m.all = k.all /\ m.whole = k.whole /\ m.marked = k.marked
  /\ m.start = k.start /\ m.from = k.from
Alone(p) == \A q \in Proc : q # p => SamePull(at[q], at'[q])

-----------------------------------------------------------------------------
(* History that was wiped comes back.                                      *)

\* A document of this user's that the service still has as the wiped store
\* left it, in a collection nobody dropped since.
Old(d) ==
  /\ wiped /\ d \in Mine \ excused
  /\ rows[d] # NoRow /\ rows[d].at = 1 /\ rows[d].in \notin dropped

Held(d) == \E m \in Name : copy[m][d] > 0

\* A clean copy is where the row is, and so is what was sent or fetched.
CleanHome == \A n \in Name, d \in Doc :
  Old(d) /\ copy[n][d] > 0 /\ <<n, d>> \notin dirty => rows[d].in = n
SentHome(t) ==
  t.pc \in Answered =>
    \A d \in Doc : Old(d) /\ t.sent[d] > 0 /\ (t.pc \in Settling => d \notin Refused) => rows[d].in = t.name

\* What a removal without force is about to drop is in its collection.
RemoveHome(t) ==
  t.op = "remove" /\ ~t.sure =>
    \A d \in Doc : Old(d) /\ t.docs[d] > 0 /\ (t.pc \in {"removePush", "removeSettle"} => d \notin t.ids)
                     => rows[d].in = t.name
Dropping(t) == t.pc \in {"leave", "drop", "redirect"} => t.name \in dropped

\* What a merge moves is in the target.
MergeHome(t) == \A d \in Doc : Old(d) /\ Moving(t, d) => copy[t.into][d] > 0

\* What a pull moves out is not at home, and what it has not brought is to come.
MoveHome(t) == t.pc = "moveDrop" => \A d \in t.ids : Old(d) => rows[d].in # t.name
Coming(t, d) ==
  /\ t.pc = "recoverAdd" => rows[d].in \in t.all
  /\ t.pc = "choose" => rows[d].in \in subscribed
  /\ t.pc \in EachOf =>
       \/ Held(d) \/ rows[d].in \in t.todo
       \/ t.name = rows[d].in /\ (t.pc \in {"moveDrop", "fetch"} \/ (t.pc = "apply" /\ t.sent[d] > 0))
Restores(t) ==
  /\ t.pc \in Pulling \ {"pull"} => t.start > 0
  /\ t.from = 0 => \A d \in Doc : Old(d) => Coming(t, d)

HomeOK(t) ==
  SentHome(t) /\ RemoveHome(t) /\ Dropping(t) /\ MergeHome(t) /\ MoveHome(t) /\ Restores(t)

WipeInv ==
  /\ clock > 0 /\ Unfollowed \subseteq dropped /\ CleanHome
  /\ pullPoint > 0 => \A d \in Doc : Old(d) => Held(d)
  /\ \A p \in Proc : HomeOK(at[p])

\* What a step keeps: what is old was old, and where it is; clean copies come
\* from home; nothing old that was here goes; what is followed or dropped is.
OldKept == \A d \in Doc : Old(d)' => Old(d) /\ rows'[d] = rows[d]
CleanKept == \A n \in Name, d \in Doc :
  Old(d)' /\ copy'[n][d] > 0 /\ <<n, d>> \notin dirty'
    => (copy[n][d] > 0 /\ <<n, d>> \notin dirty) \/ rows[d].in = n
HeldKept == \A d \in Doc : Old(d)' /\ Held(d) => Held(d)'
IntoKept(k) == \A d \in Doc : Old(d)' /\ Moving(k, d) /\ copy[k.into][d] > 0 => copy'[k.into][d] > 0
FollowKept ==
  /\ Unfollowed' \subseteq dropped' /\ dropped \subseteq dropped'
  /\ \A d \in Doc : Old(d)' /\ rows[d].in \in subscribed => rows[d].in \in subscribed'
CopiesStay == \A n \in Name, d \in Doc : Old(d)' /\ copy[n][d] > 0 => copy'[n][d] > 0
=============================================================================
