--------------------------- MODULE FollowingProofs ---------------------------
(***************************************************************************)
(* Proofs about Following for any number of collections, documents and     *)
(* processes: redirects end, what was left stays away, no document is      *)
(* lost, and history that was left or wiped comes back.                    *)
(***************************************************************************)
EXTENDS FollowingInv, FiniteSetTheorems, WellFoundedInduction, TLAPS

-----------------------------------------------------------------------------
\* Documents and revisions.
LEMMA Revisions ==
  /\ NoDocs \in Revs
  /\ \A r \in Revs : \A d \in Doc : r[d] \in Nat
  /\ Idle \in Task /\ OnItsWay(Idle.op, Idle.pc) /\ Idle.start = 0 /\ Idle.pc = "idle" /\ Idle.op = "none"
BY DEF NoDocs, Revs, Idle, Task, PC, Op, OnItsWay

\* A process's own step changes nobody else's work.
LEMMA Works ==
  ASSUME at \in [Proc -> Task], NEW p \in Proc, NEW r \in Task, Work(p, r)
  PROVE  /\ at' \in [Proc -> Task] /\ at'[p] = r
         /\ \A q \in Proc : q # p => at'[q] = at[q]
BY DEF Work

\* A name followed again is no longer kept away by anyone.
LEMMA Wants ==
  ASSUME at \in [Proc -> Task], NEW p \in Proc, NEW r \in Task, NEW n, Wanted(p, n, r)
  PROVE  /\ at' \in [Proc -> Task] /\ at'[p] = [r EXCEPT !.away = @ \ {n}]
         /\ \A q \in Proc : q # p => at'[q] = [at[q] EXCEPT !.away = @ \ {n}]
<1>1. \A t \in Task : [t EXCEPT !.away = @ \ {n}] \in Task
  BY DEF Task
<1> QED BY <1>1 DEF Wanted

\* Forgetting what was kept away leaves all else of a task.
LEMMA AwayOnly ==
  ASSUME NEW t \in Task, NEW n
  PROVE  LET u == [t EXCEPT !.away = @ \ {n}]
         IN  /\ u \in Task /\ u.away = t.away \ {n}
             /\ u.pc = t.pc /\ u.op = t.op /\ u.sure = t.sure /\ u.name = t.name /\ u.into = t.into
             /\ u.docs = t.docs /\ u.sent = t.sent /\ u.ids = t.ids /\ u.todo = t.todo
             /\ u.whole = t.whole /\ u.all = t.all /\ u.marked = t.marked
             /\ u.start = t.start /\ u.from = t.from
BY DEF Task

\* A step that moves on is typed when it is a step of its operation.
LEMMA ThenOK ==
  ASSUME NEW t, TaskOK(t), NEW pc \in PC, OnItsWay(t.op, pc),
         pc \notin Nameless => t.name \in Name
  PROVE  /\ TaskOK([t EXCEPT !.pc = pc])
         /\ [t EXCEPT !.pc = pc].start = t.start
BY DEF TaskOK, Task

LEMMA TasksMove ==
  ASSUME TasksOK, NEW p \in Proc, NEW r, TaskOK(r), Work(p, r), clock \in Nat, clock' \in Nat,
         clock' >= clock, r.start <= clock'
  PROVE  TasksOK'
<1>1. r \in Task /\ at \in [Proc -> Task]
  BY DEF TaskOK, TasksOK
<1>2. \A t \in Task : t.start \in Nat
  BY DEF Task
<1> QED BY <1>1, <1>2, Works DEF TasksOK, TaskOK

LEMMA TasksWant ==
  ASSUME TasksOK, NEW p \in Proc, NEW r, TaskOK(r), NEW n, Wanted(p, n, r), UNCHANGED clock,
         r.start <= clock
  PROVE  TasksOK'
<1> DEFINE w(t) == [t EXCEPT !.away = @ \ {n}]
<1>1. r \in Task /\ at \in [Proc -> Task]
  BY DEF TaskOK, TasksOK
<1>2. \A t : TaskOK(t) => TaskOK(w(t))
  BY AwayOnly DEF TaskOK, OnItsWay
<1>3. \A t \in Task : w(t).start = t.start
  BY AwayOnly
<1>4. /\ at' \in [Proc -> Task] /\ at'[p] = w(r)
      /\ \A q \in Proc : q # p => at'[q] = w(at[q])
  BY <1>1, Wants
<1> HIDE DEF w
<1> QED BY <1>1, <1>2, <1>3, <1>4 DEF TasksOK, TaskOK

\* The step an operation takes next is one of its own.
LEMMA Stepping ==
  ASSUME NEW t, TaskOK(t)
  PROVE  /\ t.pc = "uncreate" => OnItsWay(t.op, "rejoin") /\ t.name \in Name
         /\ t.pc = "rejoin" => OnItsWay(t.op, "resubscribe") /\ t.name \in Name
         /\ t.pc = "resubscribe" => OnItsWay(t.op, "backfill") /\ t.name \in Name
         /\ t.pc = "unredirect" => OnItsWay(t.op, "unleave") /\ t.name \in Name
         /\ t.pc = "unleave" => OnItsWay(t.op, "make") /\ t.name \in Name
         /\ t.pc = "make" => OnItsWay(t.op, "subFetch") /\ OnItsWay(t.op, "subCycle") /\ t.name \in Name
         /\ t.pc = "subFetch" => OnItsWay(t.op, "subApply") /\ OnItsWay(t.op, "subCycle") /\ t.name \in Name
         /\ t.pc = "subApply" => OnItsWay(t.op, "subCycle") /\ t.name \in Name
         /\ t.pc = "subCycle" => OnItsWay(t.op, "deletes") /\ t.name \in Name
         /\ t.pc = "queueAll" => OnItsWay(t.op, "unfollow") /\ t.name \in Name
         /\ t.pc = "removePush" => OnItsWay(t.op, "removeSettle") /\ OnItsWay(t.op, "unfollow") /\ t.name \in Name
         /\ t.pc = "removeSettle" => OnItsWay(t.op, "unfollow") /\ t.name \in Name
         /\ t.pc = "unfollow" => /\ t.name \in Name
                                 /\ IF t.op = "remove" THEN OnItsWay(t.op, "leave") ELSE OnItsWay(t.op, "drop")
         /\ t.pc = "leave" => OnItsWay(t.op, "drop") /\ t.name \in Name
         /\ t.pc = "drop" => t.name \in Name /\ (t.op = "merge" => OnItsWay(t.op, "redirect"))
         /\ t.pc = "mergeCopy" => OnItsWay(t.op, "mergeVerify")
         /\ t.pc = "mergeVerify" => OnItsWay(t.op, "mergeMove")
         /\ t.pc = "mergeMove" => OnItsWay(t.op, "mergeCheck")
         /\ t.pc = "mergeCheck" => OnItsWay(t.op, "mergeRemove")
         /\ t.pc = "mergeRemove" => OnItsWay(t.op, "unfollow")
         /\ t.pc = "visitFetch" => OnItsWay(t.op, "visitApply") /\ t.name \in Name
         /\ t.pc = "visitApply" => OnItsWay(t.op, "visitDone") /\ OnItsWay(t.op, "visitFollow") /\ t.name \in Name
         /\ t.pc = "visitDone" => OnItsWay(t.op, "visitFollow") /\ t.name \in Name
BY DEF TaskOK, OnItsWay, Task, Op, Pushing, Pulling, Nameless

\* A merge has two collections.
LEMMA Merges ==
  ASSUME NEW t, TaskOK(t)
  PROVE  t.pc \in {"mergeCopy", "mergeVerify", "mergeMove", "mergeCheck", "mergeRemove", "redirect"} =>
           t.op = "merge" /\ t.name \in Name /\ t.into \in Name /\ t.into # t.name
BY DEF TaskOK, OnItsWay, Task, Op, Pushing, Pulling, Nameless

\* Within a push and a pull, any step may follow.
LEMMA CyclesOn ==
  ASSUME NEW t, TaskOK(t), t.pc \in Pushing \cup Pulling
  PROVE  /\ t.op \in {"subscribe", "cycle"}
         /\ \A pc \in Pushing \cup Pulling : OnItsWay(t.op, pc) /\ pc \in PC
BY DEF TaskOK, OnItsWay, Task, Op, PC, Pushing, Pulling

LEMMA Spending ==
  ASSUME FollowOK, NEW what \in {"calls", "writes", "cycles", "visits", "adds", "faults"}, NEW bound,
         Spend(what, bound)
  PROVE  used' \in Counts
BY DEF Spend, FollowOK, Counts

\* What a step from a given place may rely on.
LEMMA AtPlace ==
  ASSUME TypeInv, NEW p \in Proc
  PROVE  /\ TaskOK(at[p]) /\ at[p] \in Task /\ at[p].start <= clock /\ at[p].start \in Nat
         /\ at[p].docs \in Revs /\ at[p].sent \in Revs /\ at[p].ids \subseteq Doc
         /\ at[p].pc \notin Nameless => at[p].name \in Name
BY DEF TypeInv, TasksOK, TaskOK, Task

LEMMA Away == TypeInv => Unfollowed \subseteq Name
BY DEF TypeInv, FollowOK, Unfollowed

\* A step of one process keeps the tasks typed.
LEMMA TaskTyped ==
  ASSUME TypeInv, NEW p \in Proc, NEW r, TaskOK(r), Work(p, r), r.start <= clock,
         clock' \in Nat, clock' >= clock
  PROVE  TasksOK'
<1>1. r.start \in Nat /\ clock \in Nat
  BY DEF TaskOK, Task, TypeInv, StoreOK
<1>2. r.start <= clock'
  BY <1>1
<1> QED BY <1>1, <1>2, TasksMove DEF TypeInv

\* A step that leaves the store and most of the history alone.
LEMMA QuietTyped ==
  ASSUME TypeInv, NEW p \in Proc, NEW r, TaskOK(r), Work(p, r), r.start <= clock,
         FollowOK', UNCHANGED <<rows, clock, storeVars, pullPoint, latest, excused, astray, wiped>>,
         owed' \subseteq Name, dropped' \subseteq Name
  PROVE  TypeInv'
<1>1. clock \in Nat /\ clock' = clock
  BY DEF TypeInv, StoreOK
<1>2. TasksOK'
  BY <1>1, TaskTyped
<1>3. StoreOK' /\ HistoryOK'
  BY DEF TypeInv, StoreOK, HistoryOK, storeVars
<1> QED BY <1>2, <1>3 DEF TypeInv

\* A step that changes nothing but its own work, and what the bounds count.
LEMMA MovesTyped ==
  ASSUME TypeInv, NEW p \in Proc, NEW r, TaskOK(r), Work(p, r), r.start <= clock,
         used' \in Counts,
         UNCHANGED <<svc, storeVars, followVars, deleteVars, pullPoint, history>>
  PROVE  TypeInv'
<1>1. FollowOK' /\ owed' \subseteq Name /\ dropped' \subseteq Name
  BY DEF TypeInv, FollowOK, HistoryOK, followVars, deleteVars, history, others
<1> QED BY <1>1, QuietTyped DEF svc, storeVars, history, others

\* A process begins.
LEMMA Begins ==
  ASSUME TypeInv, NEW p \in Proc, NEW r, TaskOK(r), r.start = 0, NEW ns, Begin(p, r, ns)
  PROVE  \E t : /\ TaskOK(t) /\ Work(p, t) /\ t.start <= clock
                /\ t = [r EXCEPT !.away = Unfollowed \ ns]
<1> DEFINE t == [r EXCEPT !.away = Unfollowed \ ns]
<1>1. /\ t \in Task /\ t.start = 0
      /\ t.pc = r.pc /\ t.op = r.op /\ t.name = r.name /\ t.into = r.into
  BY Away DEF TaskOK, Task
<1>2. TaskOK(t)
  BY <1>1 DEF TaskOK, OnItsWay
<1>3. 0 <= clock
  BY DEF TypeInv, StoreOK
<1> QED BY <1>1, <1>2, <1>3 DEF Begin

LEMMA BeginTyped ==
  ASSUME TypeInv, NEW p \in Proc, NEW r, TaskOK(r), r.start = 0, NEW ns, Begin(p, r, ns),
         NEW what \in {"calls", "writes", "cycles", "visits", "adds", "faults"}, NEW bound,
         Spend(what, bound), UNCHANGED <<svc, storeVars, left, redirect, pending, deleteVars, pullPoint>>,
         subscribed' \subseteq Name
  PROVE  TypeInv'
<1>1. PICK t : TaskOK(t) /\ Work(p, t) /\ t.start <= clock
  BY Begins
<1>2. used' \in Counts
  BY Spending DEF TypeInv
<1>3. FollowOK' /\ owed' \subseteq Name /\ dropped' \subseteq Name
  BY <1>2 DEF TypeInv, FollowOK, HistoryOK, deleteVars, history, others, Begin
<1> QED BY <1>1, <1>3, QuietTyped DEF svc, history, others, Begin

LEMMA SubscribesTyped ==
  ASSUME TypeInv, NEW p \in Proc, NEW pc, NEW ns \in SUBSET Name, NEW next, TaskOK(next),
         next.start <= clock, Subscribes(p, pc, ns, next)
  PROVE  TypeInv'
<1>1. FollowOK' /\ owed' \subseteq Name /\ dropped' \subseteq Name
  BY DEF TypeInv, FollowOK, HistoryOK, deleteVars, history, others, Subscribes
<1> QED BY <1>1, QuietTyped DEF svc, history, others, Subscribes

LEMMA ClearBackfillTyped ==
  ASSUME TypeInv, NEW p \in Proc, NEW pc, NEW ns, NEW next, TaskOK(next),
         next.start <= clock, ClearBackfill(p, pc, ns, next)
  PROVE  TypeInv'
<1>1. FollowOK' /\ owed' \subseteq Name /\ dropped' \subseteq Name
  BY DEF TypeInv, FollowOK, HistoryOK, deleteVars, history, others, ClearBackfill
<1> QED BY <1>1, QuietTyped DEF svc, history, others, ClearBackfill

LEMMA WantedTyped ==
  ASSUME TypeInv, NEW p \in Proc, NEW r, TaskOK(r), r.start <= clock, NEW n, Wanted(p, n, r),
         FollowOK', UNCHANGED <<svc, storeVars, pullPoint, latest, excused, astray, wiped>>,
         owed' \subseteq Name, dropped' \subseteq Name
  PROVE  TypeInv'
<1>1. TasksOK'
  BY TasksWant DEF svc, TypeInv
<1>2. StoreOK' /\ HistoryOK'
  BY DEF TypeInv, StoreOK, HistoryOK, storeVars, svc
<1> QED BY <1>1, <1>2 DEF TypeInv

LEMMA ClearRedirectTyped ==
  ASSUME TypeInv, NEW p \in Proc, NEW pc, NEW next, TaskOK([at[p] EXCEPT !.pc = next]),
         [at[p] EXCEPT !.pc = next].start <= clock, ClearRedirect(p, pc, next)
  PROVE  TypeInv'
<1>1. FollowOK' /\ owed' \subseteq Name /\ dropped' \subseteq Name
  BY DEF TypeInv, FollowOK, HistoryOK, deleteVars, history, others, ClearRedirect
<1> QED BY <1>1, WantedTyped DEF history, others, ClearRedirect

\* A request that fails ends the work or takes it on.
LEMMA FailsTyped ==
  ASSUME TypeInv, NEW p \in Proc, NEW pcs, NEW next, TaskOK(next), next.start <= clock,
         Fails(p, pcs, next)
  PROVE  TypeInv'
<1>1. used' \in Counts
  BY Spending DEF TypeInv, Fails, Lost
<1> QED BY <1>1, MovesTyped DEF Fails

LEMMA IdleOK == TaskOK(Idle)
BY Revisions DEF TaskOK, Nameless

LEMMA Clocked == TypeInv => clock \in Nat /\ 0 <= clock /\ used \in Counts
BY DEF TypeInv, StoreOK, FollowOK

LEMMA CreatingTyped ==
  ASSUME TypeInv, NEW p \in Proc, Creating(p)
  PROVE  TypeInv'
<1>1. ASSUME NEW n \in Name, Create(p, n) PROVE TypeInv'
  <2> DEFINE r == [Idle EXCEPT !.pc = "uncreate", !.op = "create", !.name = n]
  <2>1. TaskOK(r) /\ r.start = 0
    BY Revisions DEF TaskOK, OnItsWay, Task, PC, Op, Idle
  <2>2. Begin(p, r, {n}) /\ Spend("calls", MaxCalls)
    BY <1>1 DEF Create
  <2>3. PICK t : TaskOK(t) /\ Work(p, t) /\ t.start <= clock
    BY <2>1, <2>2, Begins
  <2>4. TasksOK'
    BY <1>1, <2>3, TaskTyped, Clocked DEF Create, svc
  <2>5. StoreOK' /\ HistoryOK'
    BY <1>1 DEF Create, Begin, svc, history, others, StoreOK, HistoryOK, TypeInv
  <2>6. FollowOK'
    BY <1>1, Spending DEF Create, followVars, deleteVars, FollowOK, TypeInv
  <2> QED BY <2>4, <2>5, <2>6 DEF TypeInv
<1>2. CASE ClearRedirect(p, "uncreate", "rejoin")
  <2>1. TaskOK([at[p] EXCEPT !.pc = "rejoin"]) /\ [at[p] EXCEPT !.pc = "rejoin"].start = at[p].start
    BY <1>2, AtPlace, Stepping, ThenOK DEF ClearRedirect, At, PC
  <2> QED BY <1>2, <2>1, AtPlace, ClearRedirectTyped
<1>3. CASE Rejoin(p)
  <2> DEFINE r == IF at[p].name \in left THEN [at[p] EXCEPT !.pc = "resubscribe"] ELSE Idle
  <2>1. at[p].pc = "rejoin" /\ Wanted(p, at[p].name, r)
    BY <1>3 DEF Rejoin, At
  <2>2. TaskOK(r) /\ r.start <= clock
    BY <2>1, AtPlace, Stepping, ThenOK, Clocked, IdleOK, Revisions DEF PC
  <2>3. FollowOK' /\ owed' \subseteq Name /\ dropped' \subseteq Name
    BY <1>3 DEF TypeInv, FollowOK, HistoryOK, deleteVars, history, others, Rejoin
  <2> QED BY <1>3, <2>1, <2>2, <2>3, WantedTyped DEF Rejoin, history, others
<1>4. CASE Subscribes(p, "resubscribe", {at[p].name}, [at[p] EXCEPT !.pc = "backfill"])
  <2>1. at[p].pc = "resubscribe"
    BY <1>4 DEF Subscribes, At
  <2>2. TaskOK([at[p] EXCEPT !.pc = "backfill"]) /\ [at[p] EXCEPT !.pc = "backfill"].start = at[p].start
    BY <2>1, AtPlace, Stepping, ThenOK DEF PC
  <2>3. {at[p].name} \in SUBSET Name
    BY <2>1, AtPlace DEF Nameless
  <2> QED BY <1>4, <2>2, <2>3, AtPlace, SubscribesTyped
<1>5. CASE MarkBackfill(p)
  <2>1. at[p].pc = "backfill" /\ Work(p, Idle) /\ at[p].name \in Name
    BY <1>5, AtPlace DEF MarkBackfill, At, Nameless
  <2>2. FollowOK' /\ owed' \subseteq Name /\ dropped' \subseteq Name
    BY <1>5, <2>1 DEF TypeInv, FollowOK, HistoryOK, deleteVars, history, others, MarkBackfill
  <2> QED BY <1>5, <2>1, <2>2, IdleOK, Clocked, Revisions, QuietTyped DEF MarkBackfill, svc
<1> QED BY <1>1, <1>2, <1>3, <1>4, <1>5 DEF Creating

LEMMA SubscribeTyped ==
  ASSUME TypeInv, NEW p \in Proc, NEW n \in Name, Subscribe(p, n)
  PROVE  TypeInv'
<1> DEFINE r == [Idle EXCEPT !.pc = "unredirect", !.op = "subscribe", !.name = n, !.whole = {n}]
<1>1. TaskOK(r) /\ r.start = 0
  BY Revisions DEF TaskOK, OnItsWay, Task, PC, Op, Idle
<1>2. Begin(p, r, {n}) /\ Spend("calls", MaxCalls) /\ subscribed' \subseteq Name
  BY DEF Subscribe, TypeInv, FollowOK
<1> QED BY <1>1, <1>2, BeginTyped DEF Subscribe

LEMMA UnsubscribeTyped ==
  ASSUME TypeInv, NEW p \in Proc, NEW n \in Name, Unsubscribe(p, n)
  PROVE  TypeInv'
<1>1. FollowOK'
  BY Spending DEF TypeInv, FollowOK, deleteVars, Unsubscribe
<1>2. StoreOK' /\ HistoryOK' /\ TasksOK'
  BY DEF TypeInv, StoreOK, HistoryOK, TasksOK, storeVars, svc, Unsubscribe
<1> QED BY <1>1, <1>2 DEF TypeInv

-----------------------------------------------------------------------------
\* What the operators on the store and the service return.
LEMMA FeedTyped ==
  ASSUME TypeInv, NEW n, NEW since, NEW own
  PROVE  Feed(n, since, own) \in Revs
BY DEF TypeInv, StoreOK, Feed, Revs, Row

LEMMA UnsentTyped ==
  ASSUME TypeInv, NEW n \in Name, NEW ids
  PROVE  Unsent(n, ids) \in Revs
<1>1. \A d \in Doc : copy[n][d] \in Nat
  BY DEF TypeInv, StoreOK, Revs
<1> QED BY <1>1 DEF Unsent, Revs

LEMMA UpsertTyped ==
  ASSUME TypeInv, NEW n \in Name, NEW revs \in Revs, Upsert(n, revs)
  PROVE  rows' \in [Doc -> Row \cup {NoRow}] /\ clock' \in Nat /\ clock' >= clock /\ excused' \subseteq Doc
<1>1. clock \in Nat /\ rows \in [Doc -> Row \cup {NoRow}] /\ excused \subseteq Doc
  BY DEF TypeInv, StoreOK, HistoryOK
<1>2. \A d \in Doc : [in |-> n, rev |-> revs[d], at |-> clock + 1, echo |-> TRUE] \in Row
  BY <1>1 DEF Revs, Row
<1>3. rows' \in [Doc -> Row \cup {NoRow}]
  BY <1>1, <1>2 DEF Upsert, Upserted
<1> QED BY <1>1, <1>3 DEF Upsert

\* A request changes the service alone, and may change what is lost.
LEMMA ServiceTyped ==
  ASSUME TypeInv, NEW p \in Proc, NEW r, TaskOK(r), Work(p, r), r.start <= clock,
         rows' \in [Doc -> Row \cup {NoRow}], clock' \in Nat, clock' >= clock, excused' \subseteq Doc,
         used' \in Counts,
         UNCHANGED <<storeVars, followVars, deleteVars, pullPoint, others>>
  PROVE  TypeInv'
<1>1. TasksOK'
  BY TaskTyped
<1>2. pullPoint' \in 0..clock'
  BY DEF TypeInv, StoreOK
<1>3. StoreOK'
  BY <1>2 DEF TypeInv, StoreOK, storeVars
<1>4. FollowOK' /\ HistoryOK'
  BY DEF TypeInv, FollowOK, HistoryOK, followVars, deleteVars, others
<1> QED BY <1>1, <1>3, <1>4 DEF TypeInv

\* A step that changes the store alone, and the history.
LEMMA LocalTyped ==
  ASSUME TypeInv, NEW p \in Proc, NEW r, TaskOK(r), Work(p, r), r.start <= clock,
         here' \subseteq Name, copy' \in [Name -> Revs],
         dirty' \subseteq Name \X Doc, rejected' \subseteq dirty',
         \A n \in Name, d \in Doc :
           /\ copy'[n][d] > 0 => n \in here'
           /\ <<n, d>> \in dirty' => copy'[n][d] > 0
           /\ <<n, d>> \in rejected' => d \in Refused,
         used' \in Counts,
         latest' \in Revs, excused' \subseteq Doc, astray' \subseteq Doc, owed' \subseteq Name,
         UNCHANGED <<svc, followVars, deleteVars, pullPoint, dropped, wiped>>
  PROVE  TypeInv'
<1>1. TasksOK'
  BY TaskTyped, Clocked DEF svc
<1>2. StoreOK'
  BY DEF TypeInv, StoreOK, svc
<1>3. FollowOK' /\ HistoryOK'
  BY DEF TypeInv, FollowOK, HistoryOK, followVars, deleteVars
<1> QED BY <1>1, <1>2, <1>3 DEF TypeInv

LEMMA FetchTyped ==
  ASSUME TypeInv, NEW p \in Proc, NEW pc, NEW next \in PC, NEW own, Fetch(p, pc, next, own),
         OnItsWay(at[p].op, next), next \notin Nameless => at[p].name \in Name
  PROVE  TypeInv'
<1> DEFINE s == Feed(at[p].name, Since(p), own)
           r == [at[p] EXCEPT !.pc = next, !.sent = s]
<1>1. s \in Revs
  BY FeedTyped
<1> HIDE DEF s
<1>2. TaskOK(r) /\ r.start = at[p].start
  BY <1>1, AtPlace DEF TaskOK, Task
<1>3. Work(p, r)
  BY DEF Fetch, s
<1> QED BY <1>2, <1>3, AtPlace, Clocked, MovesTyped DEF Fetch

\* Applying a page.
LEMMA TakenTyped ==
  ASSUME TypeInv, NEW n, NEW sent
  PROVE  Taken(n, sent) \subseteq Doc /\ PassedOver(n, sent) \subseteq Doc /\ MovedOn(n, sent) \subseteq Doc
BY DEF Taken, PassedOver, MovedOn

LEMMA PageTyped ==
  ASSUME TypeInv, NEW p \in Proc, NEW pc, NEW next, TaskOK(next), next.start <= clock,
         pc \notin Nameless, ApplyPage(p, pc, next),
         used' \in Counts
  PROVE  TypeInv'
<1> DEFINE n == at[p].name
           sent == at[p].sent
<1>1. n \in Name /\ sent \in Revs
  BY AtPlace DEF ApplyPage, At
<1>2. here \subseteq Name /\ copy \in [Name -> Revs]
  BY DEF TypeInv, StoreOK
<1>3. /\ here' = IF sent = NoDocs THEN here ELSE here \cup {n}
      /\ copy' = [m \in Name |-> [d \in Doc |->
                       IF d \notin Taken(n, sent) THEN copy[m][d]
                       ELSE IF m = n THEN sent[d]
                       ELSE IF copy[n][d] = 0 THEN 0 ELSE copy[m][d]]]
      /\ dirty' = dirty /\ rejected' = rejected
  BY DEF ApplyPage
<1>4. copy' \in [Name -> Revs] /\ here' \subseteq Name
  BY <1>1, <1>2, <1>3 DEF Revs
<1>5. \A d \in Doc : d \in Taken(n, sent) => sent[d] > 0 /\ sent # NoDocs
  BY <1>1 DEF Taken, NoDocs
<1>6. \A m \in Name, d \in Doc : d \in Taken(n, sent) /\ copy[n][d] = 0 => <<m, d>> \notin dirty
  BY <1>1, <1>2 DEF Taken, Revs
<1>7. \A m \in Name, d \in Doc :
           /\ copy'[m][d] > 0 => m \in here'
           /\ <<m, d>> \in dirty' => copy'[m][d] > 0
           /\ <<m, d>> \in rejected' => d \in Refused
  <2> TAKE m \in Name, d \in Doc
  <2>1. /\ copy[m][d] > 0 => m \in here
        /\ <<m, d>> \in dirty => copy[m][d] > 0
        /\ <<m, d>> \in rejected => d \in Refused
    BY DEF TypeInv, StoreOK
  <2>2. copy'[m][d] = IF d \notin Taken(n, sent) THEN copy[m][d]
                       ELSE IF m = n THEN sent[d]
                       ELSE IF copy[n][d] = 0 THEN 0 ELSE copy[m][d]
    BY <1>3
  <2> HIDE DEF n, sent
  <2> QED BY <1>3, <1>5, <1>6, <2>1, <2>2
<1>8. Work(p, [next EXCEPT !.sent = NoDocs])
  BY DEF ApplyPage
<1>9. TaskOK([next EXCEPT !.sent = NoDocs]) /\ [next EXCEPT !.sent = NoDocs].start = next.start
  BY Revisions DEF TaskOK, Task
<1>10. astray' \subseteq Doc /\ latest' \in Revs /\ excused' \subseteq Doc /\ owed' \subseteq Name
  BY TakenTyped DEF ApplyPage, TypeInv, HistoryOK
<1>11. dirty' \subseteq Name \X Doc /\ rejected' \subseteq dirty'
  BY <1>3 DEF TypeInv, StoreOK
<1> HIDE DEF n, sent
<1> QED BY <1>4, <1>7, <1>8, <1>9, <1>10, <1>11, LocalTyped DEF ApplyPage

\* Going on with a clean slate.
LEMMA FreshOK ==
  ASSUME TypeInv, NEW p \in Proc, NEW pc \in PC, OnItsWay(at[p].op, pc), pc \in Nameless,
         at[p].op # "merge"
  PROVE  /\ TaskOK(Fresh(p, pc)) /\ Fresh(p, pc).start = 0 /\ Fresh(p, pc).pc = pc
         /\ Fresh(p, pc).op = at[p].op /\ Fresh(p, pc).away = at[p].away
<1>1. at[p].op \in Op /\ at[p].away \subseteq Name
  BY AtPlace DEF Task
<1> QED BY <1>1, Revisions DEF Fresh, TaskOK, Task, Idle

LEMMA Placed == /\ "removeSettle" \in PC
BY DEF PC

LEMMA SubscribingTyped ==
  ASSUME TypeInv, NEW p \in Proc, Subscribing(p)
  PROVE  TypeInv'
<1>1. CASE ClearRedirect(p, "unredirect", "unleave")
  <2>1. TaskOK([at[p] EXCEPT !.pc = "unleave"]) /\ [at[p] EXCEPT !.pc = "unleave"].start = at[p].start
    BY <1>1, AtPlace, Stepping, ThenOK DEF ClearRedirect, At, PC
  <2> QED BY <1>1, <2>1, AtPlace, ClearRedirectTyped
<1>2. CASE ClearLeft(p)
  <2>1. TaskOK([at[p] EXCEPT !.pc = "make"]) /\ [at[p] EXCEPT !.pc = "make"].start = at[p].start
    BY <1>2, AtPlace, Stepping, ThenOK DEF ClearLeft, At, PC
  <2>2. FollowOK' /\ owed' \subseteq Name /\ dropped' \subseteq Name
    BY <1>2 DEF TypeInv, FollowOK, HistoryOK, deleteVars, history, others, ClearLeft
  <2> QED BY <1>2, <2>1, <2>2, AtPlace, WantedTyped DEF ClearLeft, history, others
<1>3. CASE Make(p)
  <2> DEFINE r == [at[p] EXCEPT !.pc = IF p \in Plugin THEN "subCycle" ELSE "subFetch"]
  <2>1. TaskOK(r) /\ r.start = at[p].start /\ at[p].name \in Name
    <3>1. at[p].pc = "make"
      BY <1>3 DEF Make, At
    <3>2. CASE p \in Plugin
      <4>1. TaskOK([at[p] EXCEPT !.pc = "subCycle"]) /\ [at[p] EXCEPT !.pc = "subCycle"].start = at[p].start
        BY <3>1, AtPlace, Stepping, ThenOK DEF PC
      <4> QED BY <3>1, <3>2, <4>1, AtPlace, Stepping
    <3>3. CASE p \notin Plugin
      <4>1. TaskOK([at[p] EXCEPT !.pc = "subFetch"]) /\ [at[p] EXCEPT !.pc = "subFetch"].start = at[p].start
        BY <3>1, AtPlace, Stepping, ThenOK DEF PC
      <4> QED BY <3>1, <3>3, <4>1, AtPlace, Stepping
    <3> QED BY <3>2, <3>3
  <2>2. Work(p, r) /\ here' = here \cup {at[p].name} /\ UNCHANGED <<copy, dirty, rejected, used, history>>
    BY <1>3 DEF Make, Then
  <2>3. /\ here' \subseteq Name /\ copy' \in [Name -> Revs]
        /\ dirty' \subseteq Name \X Doc /\ rejected' \subseteq dirty'
    BY <2>1, <2>2 DEF TypeInv, StoreOK
  <2>4. \A n \in Name, d \in Doc :
           /\ copy'[n][d] > 0 => n \in here'
           /\ <<n, d>> \in dirty' => copy'[n][d] > 0
           /\ <<n, d>> \in rejected' => d \in Refused
    BY <2>2 DEF TypeInv, StoreOK
  <2>5. latest' \in Revs /\ excused' \subseteq Doc /\ astray' \subseteq Doc /\ owed' \subseteq Name
    BY <2>2 DEF TypeInv, HistoryOK, history, others
  <2> HIDE DEF r
  <2> QED BY <1>3, <2>1, <2>2, <2>3, <2>4, <2>5, AtPlace, Clocked, LocalTyped DEF Make, history, others
<1>4. CASE SubscribePull(p)
  <2>1. CASE Fetch(p, "subFetch", "subApply", FALSE)
    BY <2>1, AtPlace, Stepping, FetchTyped DEF Fetch, At, PC
  <2>2. CASE Fails(p, {"subFetch"}, [at[p] EXCEPT !.pc = "subCycle"])
    <3>1. TaskOK([at[p] EXCEPT !.pc = "subCycle"]) /\ [at[p] EXCEPT !.pc = "subCycle"].start = at[p].start
      BY <2>2, AtPlace, Stepping, ThenOK DEF Fails, PC
    <3> QED BY <2>2, <3>1, AtPlace, FailsTyped
  <2>3. CASE Apply(p, "subApply", [at[p] EXCEPT !.pc = "subCycle"])
    <3>1. TaskOK([at[p] EXCEPT !.pc = "subCycle"]) /\ [at[p] EXCEPT !.pc = "subCycle"].start = at[p].start
      BY <2>3, AtPlace, Stepping, ThenOK DEF Apply, ApplyPage, At, PC
    <3> QED BY <2>3, <3>1, AtPlace, Clocked, PageTyped DEF Apply, Nameless
  <2> QED BY <1>4, <2>1, <2>2, <2>3 DEF SubscribePull
<1>5. CASE SubscribeCycle(p)
  <2> DEFINE r == IF Cycling = {} THEN Fresh(p, "deletes") ELSE Idle
  <2>1. at[p].pc = "subCycle" /\ Work(p, r)
    BY <1>5 DEF SubscribeCycle, At
  <2>2. OnItsWay(at[p].op, "deletes")
    BY <2>1, AtPlace, Stepping
  <2>3. at[p].op # "merge"
    BY <2>1, AtPlace DEF TaskOK, OnItsWay
  <2>4. TaskOK(r) /\ r.start = 0
    <3>1. TaskOK(Fresh(p, "deletes")) /\ Fresh(p, "deletes").start = 0
      BY <2>2, <2>3, FreshOK, AtPlace DEF PC, Nameless
    <3> QED BY <3>1, IdleOK, Revisions
  <2> QED BY <1>5, <2>1, <2>4, Clocked, MovesTyped DEF SubscribeCycle
<1> QED BY <1>1, <1>2, <1>3, <1>4, <1>5, SubscribeTyped, UnsubscribeTyped DEF Subscribing

LEMMA RemoveTyped ==
  ASSUME TypeInv, NEW p \in Proc, NEW n \in Name, NEW all \in BOOLEAN, NEW sure \in BOOLEAN,
         Remove(p, n, all, sure)
  PROVE  TypeInv'
<1> DEFINE pc == IF all THEN "queueAll" ELSE IF Pushable(n) = {} THEN "unfollow" ELSE "removePush"
           op == IF all THEN "removeAll" ELSE "remove"
           r == [Idle EXCEPT !.pc = pc, !.op = op, !.sure = sure,
                             !.name = n, !.docs = copy[n], !.ids = Pushable(n)]
<1>1. copy[n] \in Revs /\ Pushable(n) \subseteq Doc
  BY DEF TypeInv, StoreOK, Pushable, Dirty
<1>2. pc \in PC /\ op \in Op /\ op # "merge" /\ OnItsWay(op, pc) /\ pc \notin Nameless
  BY DEF PC, Op, OnItsWay, Nameless
<1>3. TaskOK(r) /\ r.start = 0
  <2> HIDE DEF pc, op
  <2> QED BY <1>1, <1>2, Revisions DEF Task, TaskOK, Idle
<1>4. Begin(p, r, {}) /\ Spend("calls", MaxCalls)
  BY DEF Remove
<1>5. subscribed' \subseteq Name
  BY DEF Remove, followVars, TypeInv, FollowOK
<1> HIDE DEF r
<1> QED BY <1>3, <1>4, <1>5, BeginTyped DEF Remove, followVars

\* What a push learned is typed.
LEMMA SettleTyped ==
  ASSUME TypeInv, NEW n \in Name, NEW sent, Settle(n, sent)
  PROVE  /\ dirty' \subseteq Name \X Doc /\ rejected' \subseteq dirty'
         /\ \A m \in Name, d \in Doc :
              /\ <<m, d>> \in dirty' => copy[m][d] > 0
              /\ <<m, d>> \in rejected' => d \in Refused
<1>1. dirty' = dirty \ Copies(n, Accepted(Settled(n, sent)))
      /\ rejected' = rejected \cup Copies(n, Settled(n, sent) \cap Refused)
  BY DEF Settle
<1>2. \A m \in Name, d \in Doc :
        /\ <<m, d>> \in dirty => copy[m][d] > 0
        /\ <<m, d>> \in rejected => d \in Refused
  BY DEF TypeInv, StoreOK
<1>3. dirty \subseteq Name \X Doc /\ rejected \subseteq dirty
  BY DEF TypeInv, StoreOK
<1>4. \A x \in Copies(n, Settled(n, sent) \cap Refused) :
        x \in dirty /\ \E d \in Refused : x = <<n, d>>
  BY DEF Copies, Settled
<1>5. \A x \in Copies(n, Accepted(Settled(n, sent))) : \E d : d \notin Refused /\ x = <<n, d>>
  BY DEF Copies, Accepted
<1>6. rejected' \subseteq dirty'
  <2> SUFFICES ASSUME NEW x \in rejected' PROVE x \in dirty /\ x \notin Copies(n, Accepted(Settled(n, sent)))
    BY <1>1
  <2>1. PICK m \in Name, d \in Doc : x = <<m, d>> /\ x \in dirty
    BY <1>1, <1>3, <1>4 DEF Copies
  <2>2. d \in Refused
    BY <1>1, <1>2, <1>4, <2>1
  <2> QED BY <1>5, <2>1, <2>2
<1> QED BY <1>1, <1>2, <1>3, <1>4, <1>6

LEMMA RemovingTyped ==
  ASSUME TypeInv, NEW p \in Proc, Removing(p)
  PROVE  TypeInv'
<1>1. CASE QueueAll(p)
  <2> DEFINE ds == {d \in Doc : at[p].docs[d] > 0}
             r == [at[p] EXCEPT !.pc = "unfollow"]
  <2>1. TaskOK(r) /\ r.start = at[p].start
    BY <1>1, AtPlace, Stepping, ThenOK DEF QueueAll, At, PC
  <2>2. /\ Work(p, r)
        /\ queue' = queue \cup OwnOf(ds) /\ tombs' = tombs \cup (ds \ Mine) /\ excused' = excused \cup ds
    BY <1>1 DEF QueueAll, Then
  <2>3. FollowOK' /\ excused' \subseteq Doc
    BY <1>1, <2>2 DEF TypeInv, FollowOK, HistoryOK, followVars, OwnOf, QueueAll
  <2>4. StoreOK' /\ HistoryOK'
    BY <1>1, <2>3 DEF TypeInv, StoreOK, HistoryOK, svc, storeVars, others, QueueAll
  <2>5. TasksOK'
    <3> HIDE DEF r
    <3>1. clock' = clock
      BY <1>1 DEF QueueAll, svc
    <3> QED BY <3>1, <2>1, <2>2, AtPlace, Clocked, TaskTyped
  <2> QED BY <2>3, <2>4, <2>5 DEF TypeInv
<1>2. CASE RemovePush(p)
  <2> DEFINE sent == Unsent(at[p].name, at[p].ids)
             r == [at[p] EXCEPT !.pc = "removeSettle", !.sent = sent]
  <2>1. at[p].name \in Name /\ OnItsWay(at[p].op, "removeSettle")
    BY <1>2, AtPlace, Stepping DEF RemovePush, At
  <2>2. sent \in Revs
    BY <2>1, UnsentTyped
  <2>3. Upsert(at[p].name, sent) /\ Work(p, r)
    BY <1>2 DEF RemovePush
  <2> HIDE DEF sent
  <2>4. TaskOK(r) /\ r.start = at[p].start
    BY <2>1, <2>2, AtPlace, Placed DEF TaskOK, Task
  <2> QED BY <1>2, <2>1, <2>2, <2>3, <2>4, AtPlace, Clocked, UpsertTyped, ServiceTyped DEF RemovePush
<1>3. CASE RemovePushFails(p)
  <2> DEFINE sent == Unsent(at[p].name, at[p].ids)
             r == IF at[p].sure THEN [at[p] EXCEPT !.pc = "unfollow"] ELSE Idle
  <2>1. at[p].name \in Name /\ OnItsWay(at[p].op, "unfollow")
    BY <1>3, AtPlace, Stepping DEF RemovePushFails, At
  <2>2. sent \in Revs
    BY <2>1, UnsentTyped
  <2>3. Work(p, r) /\ used' \in Counts
    BY <1>3, Spending DEF RemovePushFails, Then, Lost, TypeInv
  <2>4. TaskOK(r) /\ r.start <= clock
    BY <2>1, AtPlace, ThenOK, IdleOK, Revisions, Clocked DEF PC
  <2>5. rows' \in [Doc -> Row \cup {NoRow}] /\ clock' \in Nat /\ clock' >= clock /\ excused' \subseteq Doc
    <3>1. CASE Upsert(at[p].name, sent)
      BY <2>1, <2>2, <3>1, UpsertTyped
    <3>2. CASE UNCHANGED <<svc, excused>>
      BY <3>2 DEF svc, TypeInv, StoreOK, HistoryOK
    <3> QED BY <1>3, <3>1, <3>2 DEF RemovePushFails
  <2> HIDE DEF r
  <2> QED BY <1>3, <2>3, <2>4, <2>5, ServiceTyped DEF RemovePushFails
<1>4. CASE RemoveSettle(p)
  <2> DEFINE n == at[p].name
             ds == [d \in Doc |-> IF d \in at[p].ids THEN copy[n][d] ELSE at[p].docs[d]]
             r == IF at[p].sure \/ Missing(n, at[p].ids) = {}
                  THEN [at[p] EXCEPT !.pc = "unfollow", !.sent = NoDocs, !.docs = ds]
                  ELSE Idle
  <2>1. n \in Name /\ OnItsWay(at[p].op, "unfollow") /\ Settle(n, at[p].sent)
    BY <1>4, AtPlace, Stepping DEF RemoveSettle, At
  <2>2. ds \in Revs
    <3>1. \A d \in Doc : copy[n][d] \in Nat /\ at[p].docs[d] \in Nat
      BY <2>1, AtPlace DEF TypeInv, StoreOK, Revs
    <3> QED BY <3>1 DEF Revs
  <2>3. Work(p, r)
    BY <1>4 DEF RemoveSettle
  <2> HIDE DEF ds
  <2>4. TaskOK([at[p] EXCEPT !.pc = "unfollow", !.sent = NoDocs, !.docs = ds])
        /\ [at[p] EXCEPT !.pc = "unfollow", !.sent = NoDocs, !.docs = ds].start = at[p].start
    BY <2>1, <2>2, AtPlace, Revisions DEF TaskOK, Task, PC
  <2>5. TaskOK(r) /\ r.start <= clock
    BY <2>4, IdleOK, Revisions, Clocked, AtPlace
  <2>6. /\ dirty' \subseteq Name \X Doc /\ rejected' \subseteq dirty'
        /\ \A m \in Name, d \in Doc :
              /\ <<m, d>> \in dirty' => copy[m][d] > 0
              /\ <<m, d>> \in rejected' => d \in Refused
    BY <2>1, SettleTyped
  <2>7. copy' = copy /\ here' = here /\ here \subseteq Name /\ copy \in [Name -> Revs]
        /\ \A m \in Name, d \in Doc : copy[m][d] > 0 => m \in here
    BY <1>4 DEF RemoveSettle, TypeInv, StoreOK
  <2>8. latest' \in Revs /\ excused' \subseteq Doc /\ astray' \subseteq Doc /\ owed' \subseteq Name
    BY <1>4 DEF RemoveSettle, TypeInv, HistoryOK, history, others
  <2> HIDE DEF r
  <2> QED BY <1>4, <2>3, <2>5, <2>6, <2>7, <2>8, Clocked, LocalTyped DEF RemoveSettle, history, others
<1>5. CASE Unfollow(p)
  <2> DEFINE r == [at[p] EXCEPT !.pc = IF at[p].op = "remove" THEN "leave" ELSE "drop"]
  <2>1. at[p].pc = "unfollow"
    BY <1>5 DEF Unfollow, At
  <2>2. TaskOK(r) /\ r.start = at[p].start /\ at[p].name \in Name
    <3>1. CASE at[p].op = "remove"
      BY <2>1, <3>1, AtPlace, Stepping, ThenOK DEF PC
    <3>2. CASE at[p].op # "remove"
      <4>1. TaskOK([at[p] EXCEPT !.pc = "drop"]) /\ [at[p] EXCEPT !.pc = "drop"].start = at[p].start
        BY <2>1, <3>2, AtPlace, Stepping, ThenOK DEF PC
      <4> QED BY <2>1, <3>2, <4>1, AtPlace, Stepping
    <3> QED BY <3>1, <3>2
  <2>3. FollowOK' /\ owed' \subseteq Name /\ dropped' \subseteq Name
    BY <1>5, <2>2 DEF TypeInv, FollowOK, HistoryOK, deleteVars, Unfollow
  <2> QED BY <1>5, <2>2, <2>3, AtPlace, QuietTyped DEF Unfollow, Then, svc
<1>6. CASE Leave(p)
  <2>1. TaskOK([at[p] EXCEPT !.pc = "drop"]) /\ [at[p] EXCEPT !.pc = "drop"].start = at[p].start
        /\ at[p].name \in Name
    BY <1>6, AtPlace, Stepping, ThenOK DEF Leave, At, PC
  <2>2. FollowOK' /\ owed' \subseteq Name /\ dropped' \subseteq Name
    BY <1>6, <2>1 DEF TypeInv, FollowOK, HistoryOK, deleteVars, Leave
  <2> QED BY <1>6, <2>1, <2>2, AtPlace, QuietTyped DEF Leave, Then, svc
<1>7. CASE Drop(p)
  <2> DEFINE n == at[p].name
             r == IF at[p].op = "merge" THEN [at[p] EXCEPT !.pc = "redirect"] ELSE Idle
  <2>1. n \in Name /\ (at[p].op = "merge" => OnItsWay(at[p].op, "redirect"))
    BY <1>7, AtPlace, Stepping DEF Drop, At
  <2>2. TaskOK(r) /\ r.start <= clock
    BY <2>1, AtPlace, ThenOK, IdleOK, Revisions, Clocked DEF PC
  <2>3. Work(p, r)
    BY <1>7 DEF Drop, Then
  <2>4. /\ here' = here \ {n} /\ copy' = [copy EXCEPT ![n] = NoDocs]
        /\ dirty' = dirty \ Copies(n, Doc) /\ rejected' = rejected \ Copies(n, Doc)
    BY <1>7 DEF Drop
  <2>5. /\ here \subseteq Name /\ copy \in [Name -> Revs]
        /\ dirty \subseteq Name \X Doc /\ rejected \subseteq dirty
        /\ \A m \in Name, d \in Doc :
             /\ copy[m][d] > 0 => m \in here
             /\ <<m, d>> \in dirty => copy[m][d] > 0
             /\ <<m, d>> \in rejected => d \in Refused
    BY DEF TypeInv, StoreOK
  <2>6. \A m \in Name, d \in Doc :
           /\ copy'[m][d] > 0 => m \in here'
           /\ <<m, d>> \in dirty' => copy'[m][d] > 0
           /\ <<m, d>> \in rejected' => d \in Refused
    <3> TAKE m \in Name, d \in Doc
    <3>1. <<m, d>> \in Copies(n, Doc) <=> m = n
      BY DEF Copies
    <3>2. copy'[m][d] = IF m = n THEN 0 ELSE copy[m][d]
      BY <2>1, <2>4, <2>5 DEF NoDocs
    <3> HIDE DEF n
    <3> QED BY <2>4, <2>5, <3>1, <3>2
  <2>7. here' \subseteq Name /\ copy' \in [Name -> Revs] /\ dirty' \subseteq Name \X Doc /\ rejected' \subseteq dirty'
    BY <2>1, <2>4, <2>5, Revisions
  <2>8. latest' \in Revs /\ excused' \subseteq Doc /\ astray' \subseteq Doc /\ owed' \subseteq Name
    BY <1>7 DEF Drop, TypeInv, HistoryOK, In
  <2> HIDE DEF r, n
  <2> QED BY <1>7, <2>2, <2>3, <2>6, <2>7, <2>8, Clocked, LocalTyped DEF Drop
<1> QED BY <1>1, <1>2, <1>3, <1>4, <1>5, <1>6, <1>7, RemoveTyped DEF Removing

LEMMA MergeTyped ==
  ASSUME TypeInv, NEW p \in Proc, NEW from \in Name, NEW into \in Name, Merge(p, from, into)
  PROVE  TypeInv'
<1> DEFINE pc == IF In(from) = {} THEN "mergeRemove" ELSE "mergeCopy"
           sent == Unsent(from, Doc)
           r == [Idle EXCEPT !.pc = pc, !.op = "merge", !.name = from, !.into = into, !.docs = copy[from],
                             !.sent = sent]
<1>1. pc \in PC /\ OnItsWay("merge", pc) /\ pc \notin Nameless /\ from # into
  BY DEF PC, OnItsWay, Nameless, Merge
<1>2. copy[from] \in Revs /\ sent \in Revs
  BY UnsentTyped DEF TypeInv, StoreOK
<1>3. TaskOK(r) /\ r.start = 0
  <2> HIDE DEF pc, sent
  <2> QED BY <1>1, <1>2, Revisions DEF Task, TaskOK, Idle, Op
<1>4. Begin(p, r, {into}) /\ Spend("calls", MaxCalls)
  BY DEF Merge
<1>5. subscribed' \subseteq Name
  BY DEF Merge, followVars, TypeInv, FollowOK
<1> HIDE DEF r
<1> QED BY <1>3, <1>4, <1>5, BeginTyped DEF Merge, followVars

\* What holds of the store's parts, for the steps that change some.
LEMMA StoreFacts ==
  ASSUME TypeInv
  PROVE  /\ here \subseteq Name /\ copy \in [Name -> Revs]
         /\ dirty \subseteq Name \X Doc /\ rejected \subseteq dirty
         /\ \A m \in Name, d \in Doc :
              /\ copy[m][d] \in Nat
              /\ copy[m][d] > 0 => m \in here
              /\ <<m, d>> \in dirty => copy[m][d] > 0
              /\ <<m, d>> \in rejected => d \in Refused
         /\ latest \in Revs /\ excused \subseteq Doc /\ astray \subseteq Doc
         /\ owed \subseteq Name /\ dropped \subseteq Name
BY DEF TypeInv, StoreOK, HistoryOK, Revs

LEMMA MergeCopyTyped ==
  ASSUME TypeInv, NEW p \in Proc, MergeCopy(p)
  PROVE  TypeInv'
<1> DEFINE n == at[p].into
           f == at[p].name
           ds == Moved(p)
           c == [d \in Doc |-> IF d \in ds THEN at[p].docs[d] ELSE copy[n][d]]
           r == [at[p] EXCEPT !.pc = "mergeVerify", !.ids = In(n)]
<1>1. at[p].pc = "mergeCopy" /\ n \in Name /\ f \in Name /\ OnItsWay(at[p].op, "mergeVerify")
  BY AtPlace, Merges, Stepping DEF MergeCopy, At
<1>2. ds \subseteq Doc /\ \A d \in ds : at[p].docs[d] > 0
  BY DEF Moved
<1>3. /\ here' = here \cup {n}
      /\ copy' = [copy EXCEPT ![n] = c]
      /\ dirty' = dirty \cup Copies(n, ds)
      /\ rejected' = (rejected \ Copies(n, ds)) \cup Copies(n, {d \in ds : <<f, d>> \in rejected})
      /\ Work(p, r)
  BY DEF MergeCopy
<1>4. c \in Revs
  <2>1. \A d \in Doc : at[p].docs[d] \in Nat
    BY AtPlace DEF Revs
  <2> QED BY <1>1, <2>1, StoreFacts DEF Revs
<1>5. TaskOK(r) /\ r.start = at[p].start
  <2>1. In(n) \subseteq Doc /\ "mergeVerify" \in PC /\ "mergeVerify" \notin Nameless
    BY DEF In, PC, Nameless
  <2> QED BY <1>1, <2>1, AtPlace DEF TaskOK, Task
<1>6. \A m, d : <<m, d>> \in Copies(n, ds) <=> m = n /\ d \in ds
  BY DEF Copies
<1>7. \A x \in Copies(n, ds) : x \in Name \X Doc
  BY <1>1, <1>2 DEF Copies
<1>8. \A x \in Copies(n, {d \in ds : <<f, d>> \in rejected}) :
        x \in Copies(n, ds) /\ \E d \in ds : x = <<n, d>> /\ <<f, d>> \in rejected
  BY DEF Copies
<1>9. \A m \in Name, d \in Doc : copy'[m][d] = IF m = n /\ d \in ds THEN at[p].docs[d] ELSE copy[m][d]
  BY <1>1, <1>3, StoreFacts
<1>10. latest' \in Revs /\ excused' \subseteq Doc /\ astray' \subseteq Doc /\ owed' \subseteq Name
  BY StoreFacts DEF MergeCopy, others, Moved
<1> HIDE DEF n, f, ds, c, r
<1>11. here' \subseteq Name /\ copy' \in [Name -> Revs] /\ dirty' \subseteq Name \X Doc /\ rejected' \subseteq dirty'
  BY <1>1, <1>3, <1>4, <1>7, <1>8, StoreFacts
<1>12. \A m \in Name, d \in Doc :
         /\ copy'[m][d] > 0 => m \in here'
         /\ <<m, d>> \in dirty' => copy'[m][d] > 0
         /\ <<m, d>> \in rejected' => d \in Refused
  <2> TAKE m \in Name, d \in Doc
  <2>1. copy'[m][d] > 0 => m \in here'
    BY <1>3, <1>9, StoreFacts
  <2>2. <<m, d>> \in dirty' => copy'[m][d] > 0
    BY <1>2, <1>3, <1>6, <1>9, StoreFacts
  <2>3. <<m, d>> \in rejected' => d \in Refused
    BY <1>1, <1>3, <1>8, StoreFacts
  <2> QED BY <2>1, <2>2, <2>3
<1>13. at[p].start <= clock
  BY AtPlace
<1> QED BY <1>3, <1>5, <1>10, <1>11, <1>12, <1>13, Clocked, LocalTyped DEF MergeCopy, others

LEMMA MergeMoveTyped ==
  ASSUME TypeInv, NEW p \in Proc, NEW d \in Doc, MergeMove(p, d)
  PROVE  TypeInv'
<1> DEFINE n == at[p].into
           f == at[p].name
           again == copy[f][d] > 0 /\ (copy[f][d] # at[p].docs[d] \/ Unsent(f, {d})[d] # at[p].sent[d])
           to == IF again THEN copy[f][d] ELSE copy[n][d]
           r == [at[p] EXCEPT !.ids = @ \ {d}, !.pc = IF at[p].ids = {d} THEN "mergeCheck" ELSE @]
<1>1. at[p].pc = "mergeMove" /\ n \in Name /\ f \in Name /\ n # f /\ OnItsWay(at[p].op, "mergeCheck")
  BY AtPlace, Merges, Stepping DEF MergeMove, At
<1>2. /\ here' = IF again THEN here \cup {n} ELSE here
      /\ copy' = [copy EXCEPT ![f][d] = 0, ![n][d] = to]
      /\ dirty' = (dirty \ {<<f, d>>}) \cup (IF again THEN {<<n, d>>} ELSE {})
      /\ rejected' = (rejected \ ({<<f, d>>} \cup (IF again THEN {<<n, d>>} ELSE {})))
                          \cup (IF again /\ <<f, d>> \in rejected THEN {<<n, d>>} ELSE {})
      /\ Work(p, r)
  BY DEF MergeMove
<1>3. TaskOK(r) /\ r.start = at[p].start
  <2>1. at[p].ids \subseteq Doc /\ "mergeCheck" \in PC /\ "mergeCheck" \notin Nameless
    BY AtPlace DEF PC, Nameless
  <2>2. CASE at[p].ids = {d}
    BY <1>1, <2>1, <2>2, AtPlace DEF TaskOK, Task
  <2>3. CASE at[p].ids # {d}
    BY <1>1, <2>1, <2>3, AtPlace DEF TaskOK, Task
  <2> QED BY <2>2, <2>3
<1>4. to \in Nat /\ (again => to > 0) /\ (~again => to = copy[n][d])
  BY <1>1, StoreFacts
<1> HIDE DEF again, to, r
<1>5. copy' \in [Name -> Revs]
  BY <1>1, <1>2, <1>4, StoreFacts DEF Revs
<1>6. \A m \in Name, e \in Doc :
        copy'[m][e] = IF m = f /\ e = d THEN 0 ELSE IF m = n /\ e = d THEN to ELSE copy[m][e]
  BY <1>1, <1>2, StoreFacts DEF Revs
<1>7. latest' \in Revs /\ excused' \subseteq Doc /\ astray' \subseteq Doc /\ owed' \subseteq Name
  BY StoreFacts DEF MergeMove
<1> HIDE DEF n, f
<1>8. here' \subseteq Name /\ dirty' \subseteq Name \X Doc /\ rejected' \subseteq dirty'
  BY <1>1, <1>2, StoreFacts
<1>9. \A m \in Name, e \in Doc :
         /\ copy'[m][e] > 0 => m \in here'
         /\ <<m, e>> \in dirty' => copy'[m][e] > 0
         /\ <<m, e>> \in rejected' => e \in Refused
  <2> TAKE m \in Name, e \in Doc
  <2>0. /\ copy[m][e] > 0 => m \in here
        /\ <<m, e>> \in dirty => copy[m][e] > 0
        /\ copy'[m][e] = IF m = f /\ e = d THEN 0 ELSE IF m = n /\ e = d THEN to ELSE copy[m][e]
    BY <1>6, StoreFacts
  <2>1. copy'[m][e] > 0 => m \in here'
    BY <1>1, <1>2, <1>4, <2>0
  <2>2. <<m, e>> \in dirty' => copy'[m][e] > 0
    BY <1>1, <1>2, <1>4, <2>0
  <2>3. <<m, e>> \in rejected' => e \in Refused
    BY <1>1, <1>2, StoreFacts
  <2> QED BY <2>1, <2>2, <2>3
<1>10. at[p].start <= clock
  BY AtPlace
<1> QED BY <1>2, <1>3, <1>5, <1>7, <1>8, <1>9, <1>10, Clocked, LocalTyped DEF MergeMove

LEMMA MergingTyped ==
  ASSUME TypeInv, NEW p \in Proc, Merging(p)
  PROVE  TypeInv'
<1>1. CASE MergeVerify(p)
  <2> DEFINE t == [at[p] EXCEPT !.pc = "mergeMove", !.ids = Moved(p)]
  <2>1. OnItsWay(at[p].op, "mergeMove")
    BY <1>1, AtPlace, Stepping DEF MergeVerify, At
  <2>2. TaskOK(t) /\ t.start = at[p].start
    <3>1. Moved(p) \subseteq Doc /\ "mergeMove" \in PC /\ at[p].name \in Name
      BY <1>1, AtPlace DEF Moved, PC, MergeVerify, At, Nameless
    <3> QED BY <2>1, <3>1, AtPlace DEF TaskOK, Task
  <2> HIDE DEF t
  <2>3. Work(p, t) \/ Work(p, Idle)
    BY <1>1 DEF MergeVerify, t
  <2>4. used' \in Counts
    BY <1>1, Clocked DEF MergeVerify
  <2>5. UNCHANGED <<svc, storeVars, followVars, deleteVars, pullPoint, history>>
    BY <1>1 DEF MergeVerify
  <2> QED BY <2>2, <2>3, <2>4, <2>5, AtPlace, Clocked, IdleOK, Revisions, MovesTyped
<1>2. CASE MergeCheck(p)
  <2> DEFINE t == [at[p] EXCEPT !.pc = "mergeRemove"]
  <2>1. TaskOK(t) /\ t.start = at[p].start
    BY <1>2, AtPlace, Stepping, ThenOK, Merges DEF MergeCheck, At, PC
  <2>2. Work(p, t) \/ Work(p, Idle)
    BY <1>2 DEF MergeCheck, Then
  <2> HIDE DEF t
  <2>3. used' \in Counts
    BY <1>2, Clocked DEF MergeCheck
  <2>4. UNCHANGED <<svc, storeVars, followVars, deleteVars, pullPoint, history>>
    BY <1>2 DEF MergeCheck
  <2> QED BY <2>1, <2>2, <2>3, <2>4, AtPlace, Clocked, IdleOK, Revisions, MovesTyped
<1>3. CASE MergeRemove(p)
  <2> DEFINE n == at[p].name
             sent == Unsent(n, Doc)
             t == [at[p] EXCEPT !.pc = "unfollow"]
  <2>1. TaskOK(t) /\ t.start = at[p].start /\ n \in Name
    BY <1>3, AtPlace, Stepping, ThenOK, Merges DEF MergeRemove, At, PC
  <2>2. Work(p, t)
    BY <1>3 DEF MergeRemove, Then
  <2>3. sent \in Revs
    BY <2>1, UnsentTyped
  <2>4. used' \in Counts
    BY <1>3, Clocked, Spending DEF MergeRemove, Lost, TypeInv
  <2>5. Upsert(n, sent) \/ UNCHANGED <<svc, excused>>
    BY <1>3 DEF MergeRemove
  <2> HIDE DEF sent, t
  <2>6. rows' \in [Doc -> Row \cup {NoRow}] /\ clock' \in Nat /\ clock' >= clock /\ excused' \subseteq Doc
    <3>1. CASE Upsert(n, sent)
      BY <2>1, <2>3, <3>1, UpsertTyped
    <3>2. CASE UNCHANGED <<svc, excused>>
      BY <3>2 DEF svc, TypeInv, StoreOK, HistoryOK
    <3> QED BY <2>5, <3>1, <3>2
  <2> QED BY <1>3, <2>1, <2>2, <2>4, <2>6, AtPlace, ServiceTyped DEF MergeRemove
<1>4. CASE MergeRedirect(p)
  <2>1. Wanted(p, at[p].into, Idle) /\ at[p].name \in Name /\ at[p].into \in Name
    BY <1>4, AtPlace, Merges DEF MergeRedirect, At
  <2>2. FollowOK' /\ owed' \subseteq Name /\ dropped' \subseteq Name
    BY <1>4, <2>1 DEF TypeInv, FollowOK, HistoryOK, deleteVars, MergeRedirect, AddRedirect
  <2> QED BY <1>4, <2>1, <2>2, IdleOK, Revisions, Clocked, WantedTyped DEF MergeRedirect
<1> QED BY <1>1, <1>2, <1>3, <1>4, MergeTyped, MergeCopyTyped, MergeMoveTyped DEF Merging

LEMMA WritingTyped ==
  ASSUME TypeInv, NEW p \in Proc, Writing(p), \A n \in Name : Resolve(n) \in Name
  PROVE  TypeInv'
<1>1. ASSUME NEW n \in Name, Write(p, n) PROVE TypeInv'
  <2> DEFINE t == Resolve(n)
             r == [Idle EXCEPT !.pc = "add", !.op = "write", !.name = t]
  <2>1. t \in Name
    OBVIOUS
  <2>2. Begin(p, r, {}) /\ Spend("writes", MaxWrites)
    BY <1>1 DEF Write
  <2> HIDE DEF t
  <2>3. TaskOK(r) /\ r.start = 0
    BY <2>1, Revisions DEF TaskOK, OnItsWay, Task, PC, Op, Idle
  <2>4. subscribed' \subseteq Name
    BY <1>1 DEF Write, followVars, TypeInv, FollowOK
  <2> QED BY <1>1, <2>2, <2>3, <2>4, BeginTyped DEF Write, followVars
<1>2. ASSUME NEW d \in Doc, Add(p, d) PROVE TypeInv'
  <2> DEFINE n == at[p].name
  <2>1. n \in Name /\ Work(p, Idle)
    BY <1>2, AtPlace DEF Add, At, Nameless
  <2>2. /\ here' = here \cup {n} /\ copy' = [copy EXCEPT ![n][d] = 1]
        /\ dirty' = dirty \cup {<<n, d>>} /\ rejected' = rejected
    BY <1>2 DEF Add
  <2>3. /\ here' \subseteq Name /\ dirty' \subseteq Name \X Doc /\ rejected' \subseteq dirty'
        /\ copy' \in [Name -> Revs]
    BY <2>1, <2>2, StoreFacts DEF Revs
  <2>4. \A m \in Name, e \in Doc :
         /\ copy'[m][e] > 0 => m \in here'
         /\ <<m, e>> \in dirty' => copy'[m][e] > 0
         /\ <<m, e>> \in rejected' => e \in Refused
    <3> TAKE m \in Name, e \in Doc
    <3>1. copy'[m][e] = IF m = n /\ e = d THEN 1 ELSE copy[m][e]
      BY <2>1, <2>2, StoreFacts DEF Revs
    <3>2. /\ copy[m][e] > 0 => m \in here
          /\ <<m, e>> \in dirty => copy[m][e] > 0
          /\ <<m, e>> \in rejected => e \in Refused
      BY StoreFacts
    <3> QED BY <2>2, <3>1, <3>2
  <2>5. latest' \in Revs /\ excused' \subseteq Doc /\ astray' \subseteq Doc /\ owed' \subseteq Name
    BY <1>2, StoreFacts DEF Add, Revs
  <2>6. used' \in Counts
        /\ UNCHANGED <<svc, followVars, deleteVars, pullPoint, dropped, wiped>>
    BY <1>2, Clocked DEF Add
  <2> HIDE DEF n
  <2> QED BY <2>1, <2>3, <2>4, <2>5, <2>6, IdleOK, Revisions, Clocked, LocalTyped
<1> QED BY <1>1, <1>2 DEF Writing

LEMMA EditTyped ==
  ASSUME TypeInv, NEW n \in Name, NEW d \in Doc, Edit(n, d)
  PROVE  TypeInv'
<1>1. /\ here' = here /\ copy' = [copy EXCEPT ![n][d] = 2] /\ copy[n][d] = 1
      /\ dirty' = dirty \cup {<<n, d>>} /\ rejected' = rejected \ {<<n, d>>}
  BY DEF Edit
<1>2. /\ here' \subseteq Name /\ dirty' \subseteq Name \X Doc /\ rejected' \subseteq dirty'
      /\ copy' \in [Name -> Revs]
  BY <1>1, StoreFacts DEF Revs
<1>3. \A m \in Name, e \in Doc :
         /\ copy'[m][e] > 0 => m \in here'
         /\ <<m, e>> \in dirty' => copy'[m][e] > 0
         /\ <<m, e>> \in rejected' => e \in Refused
  <2> TAKE m \in Name, e \in Doc
  <2>1. copy'[m][e] = IF m = n /\ e = d THEN 2 ELSE copy[m][e]
    BY <1>1, StoreFacts DEF Revs
  <2>2. /\ copy[m][e] > 0 => m \in here
        /\ <<m, e>> \in dirty => copy[m][e] > 0
        /\ <<m, e>> \in rejected => e \in Refused
    BY StoreFacts
  <2> QED BY <1>1, <2>1, <2>2
<1>4. latest' \in Revs
  BY StoreFacts DEF Edit, Revs
<1>5. used' \in Counts
  BY Spending DEF Edit, TypeInv
<1>6. StoreOK'
  BY <1>2, <1>3 DEF TypeInv, StoreOK, Edit, svc
<1> QED BY <1>4, <1>5, <1>6 DEF Edit, TypeInv, FollowOK, HistoryOK, TasksOK, svc, followVars, deleteVars

LEMMA TeammateTyped ==
  ASSUME TypeInv, NEW n \in Name, NEW d \in Doc, TeammateStores(d, n)
  PROVE  TypeInv'
<1>1. /\ latest' = [latest EXCEPT ![d] = @ + 1] /\ clock' = clock + 1
      /\ rows' = [rows EXCEPT ![d] = [in |-> n, rev |-> latest'[d], at |-> clock + 1, echo |-> FALSE]]
      /\ UNCHANGED <<storeVars, followVars, deleteVars, pullPoint, at, excused, owed, astray, dropped, wiped>>
  BY DEF TeammateStores
<1>2. latest' \in Revs /\ latest'[d] \in Nat /\ clock \in Nat /\ clock' \in Nat
  BY <1>1, StoreFacts, Clocked DEF Revs
<1>3. [in |-> n, rev |-> latest'[d], at |-> clock + 1, echo |-> FALSE] \in Row
  BY <1>2 DEF Row
<1>4. rows' \in [Doc -> Row \cup {NoRow}] /\ pullPoint' \in 0..clock'
  BY <1>1, <1>2, <1>3 DEF TypeInv, StoreOK
<1>5. used' \in Counts
  BY Spending DEF TeammateStores, TypeInv
<1>6. StoreOK'
  BY <1>1, <1>2, <1>4 DEF TypeInv, StoreOK, storeVars
<1>7. TasksOK'
  <2>1. \A p \in Proc : at[p].start \in Nat
    BY AtPlace
  <2> QED BY <1>1, <1>2, <2>1 DEF TypeInv, TasksOK
<1> QED BY <1>1, <1>2, <1>5, <1>6, <1>7 DEF TypeInv, FollowOK, HistoryOK, followVars, deleteVars

LEMMA CrashTyped ==
  ASSUME TypeInv, NEW p \in Proc, Crash(p)
  PROVE  TypeInv'
<1>1. Work(p, Idle) /\ used' \in Counts
  BY Spending DEF Crash, TypeInv
<1> QED BY <1>1, IdleOK, Revisions, Clocked, MovesTyped DEF Crash

-----------------------------------------------------------------------------
\* A task that changes in what has no bearing on its shape.
LEMMA CycleTask ==
  ASSUME TypeInv, NEW p \in Proc, at[p].pc \in Pushing \cup Pulling, NEW r \in Task,
         r.pc \in Pushing \cup Pulling, r.op = at[p].op, r.pc \notin Nameless => r.name \in Name
  PROVE  TaskOK(r)
<1>1. r.op \in {"subscribe", "cycle"} /\ OnItsWay(r.op, r.pc)
  BY AtPlace, CyclesOn
<1> QED BY <1>1 DEF TaskOK

\* A step of a cycle that changes but its task, and what the bounds count.
LEMMA CycleTyped ==
  ASSUME TypeInv, NEW p \in Proc, at[p].pc \in Pushing \cup Pulling, NEW r \in Task,
         r.pc \in Pushing \cup Pulling, r.op = at[p].op, r.pc \notin Nameless => r.name \in Name,
         Work(p, r), r.start <= clock,
         used' \in Counts,
         UNCHANGED <<svc, storeVars, followVars, deleteVars, pullPoint, history>>
  PROVE  TypeInv'
BY CycleTask, MovesTyped

LEMMA CycleNames ==
  /\ Pushing \cup Pulling \subseteq PC
  /\ {"pull", "list", "send", "autoRead", "autoAdd", "recover", "recoverAdd", "choose", "each", "deletes"}
       \subseteq Nameless \cap (Pushing \cup Pulling)
  /\ {"settle", "moveDrop", "fetch", "apply", "clear"} \subseteq Pushing \cup Pulling
BY DEF PC, Pushing, Pulling, Nameless

\* A push goes on without a request of its own that failed.
LEMMA SkipTask ==
  ASSUME TypeInv, NEW p \in Proc, NEW n, NEW u \in Skips(p, n), at[p].pc = "send"
  PROVE  /\ TaskOK(u) /\ u.start <= clock /\ u.pc \in {"autoRead", "send"}
         /\ u.op = at[p].op /\ u.start = at[p].start /\ u.docs = at[p].docs /\ u.sent = at[p].sent
         /\ u.ids = at[p].ids /\ u.name = at[p].name /\ u.into = at[p].into /\ u.all = at[p].all
         /\ u.whole = at[p].whole /\ u.marked = at[p].marked /\ u.from = at[p].from
         /\ u.away = at[p].away /\ u.sure = at[p].sure /\ u.todo \subseteq at[p].todo
<1> DEFINE a == [at[p] EXCEPT !.pc = "autoRead"]
           s == [at[p] EXCEPT !.todo = @ \ {n}]
<1>1. u \in {a, s}
  BY DEF Skips
<1>2. /\ u \in Task /\ u.pc \in {"autoRead", "send"}
      /\ u.op = at[p].op /\ u.start = at[p].start /\ u.docs = at[p].docs /\ u.sent = at[p].sent
      /\ u.ids = at[p].ids /\ u.name = at[p].name /\ u.into = at[p].into /\ u.all = at[p].all
      /\ u.whole = at[p].whole /\ u.marked = at[p].marked /\ u.from = at[p].from
      /\ u.away = at[p].away /\ u.sure = at[p].sure /\ u.todo \subseteq at[p].todo
  <2>1. CASE u = a
    BY <2>1, AtPlace, CycleNames DEF Task
  <2>2. CASE u = s
    BY <2>2, AtPlace DEF Task
  <2> QED BY <1>1, <2>1, <2>2
<1>3. at[p].pc \in Pushing \cup Pulling
  BY DEF Pushing
<1> HIDE DEF a, s
<1>4. TaskOK(u)
  BY <1>2, <1>3, CycleNames, CycleTask
<1> QED BY <1>2, <1>4, AtPlace

\* A request that fails and ends nothing.
LEMMA PassedTyped ==
  ASSUME TypeInv, NEW p \in Proc, NEW r, TaskOK(r), Work(p, r), r.start <= clock, Lost,
         astray' \subseteq Doc, dropped' \subseteq Name,
         UNCHANGED <<svc, storeVars, followVars, deleteVars, pullPoint, latest, excused, owed, wiped>>
  PROVE  TypeInv'
<1>1. TasksOK'
  BY TaskTyped, Clocked DEF svc
<1>2. StoreOK'
  BY DEF TypeInv, StoreOK, storeVars, svc
<1>3. used' \in Counts
  BY Spending DEF TypeInv, Lost
<1>4. FollowOK' /\ HistoryOK'
  BY <1>3 DEF TypeInv, FollowOK, HistoryOK, followVars, deleteVars
<1> QED BY <1>1, <1>2, <1>4 DEF TypeInv

LEMMA PushTyped ==
  ASSUME TypeInv, NEW p \in Proc, Push(p)
  PROVE  TypeInv'
<1> DEFINE t(pc) == [at[p] EXCEPT !.pc = pc]
<1>0. \A pc \in Pushing \cup Pulling : t(pc) \in Task /\ t(pc).pc = pc /\ t(pc).op = at[p].op /\ t(pc).start = at[p].start
  BY AtPlace, CycleNames DEF Task
<1>t. ASSUME NEW pc \in Nameless \cap (Pushing \cup Pulling), at[p].pc \in Pushing \cup Pulling
      PROVE  TaskOK(t(pc)) /\ t(pc).start <= clock
  BY <1>0, <1>t, AtPlace, CycleTask
<1> HIDE DEF t
<1>1. CASE PushDeletes(p)
  <2>1. at[p].pc \in Pushing \cup Pulling
    BY <1>1 DEF PushDeletes, At, Pushing
  <2>2. PICK pc \in {"list", "pull"} : Work(p, t(pc))
    BY <1>1 DEF PushDeletes, Then, t
  <2>3. TaskOK(t(pc)) /\ t(pc).start <= clock
    BY <1>t, <2>1, CycleNames
  <2>4. /\ rows' = [d \in Doc |-> IF d \in queue THEN NoRow ELSE rows[d]] /\ queue' \subseteq queue
        /\ UNCHANGED <<clock, storeVars, followVars, tombs, pullPoint, history>>
        /\ used' \in Counts
    BY <1>1, Spending, Clocked DEF PushDeletes, Lost, TypeInv
  <2>5. TasksOK'
    BY <2>2, <2>3, <2>4, Clocked, TaskTyped
  <2>6. StoreOK'
    BY <2>4 DEF TypeInv, StoreOK, storeVars
  <2>7. FollowOK' /\ HistoryOK'
    BY <2>4 DEF TypeInv, FollowOK, HistoryOK, followVars, history, others
  <2> QED BY <2>5, <2>6, <2>7 DEF TypeInv
<1>2. CASE PushDeletesFails(p)
  <2>1. PICK pc \in {"list", "pull"} : Fails(p, {"deletes"}, t(pc))
    BY <1>2 DEF PushDeletesFails, t
  <2>2. at[p].pc \in Pushing \cup Pulling
    BY <2>1 DEF Fails, Pushing
  <2>3. TaskOK(t(pc)) /\ t(pc).start <= clock
    BY <1>t, <2>2, CycleNames
  <2> QED BY <2>1, <2>3, FailsTyped
<1>3. CASE ListCollections(p)
  <2> DEFINE r == [at[p] EXCEPT !.pc = "send", !.todo = here]
  <2>1. at[p].pc \in Pushing \cup Pulling /\ Work(p, r)
    BY <1>3 DEF ListCollections, At, Pushing
  <2>2. r \in Task /\ r.pc = "send" /\ r.op = at[p].op /\ r.start = at[p].start
    BY AtPlace, StoreFacts, CycleNames DEF Task
  <2> HIDE DEF r
  <2> QED BY <1>3, <2>1, <2>2, CycleNames, AtPlace, Clocked, CycleTyped DEF ListCollections
<1>4. ASSUME NEW n \in Name, Send(p, n) PROVE TypeInv'
  <2> DEFINE sent == Unsent(n, Doc)
             r == [at[p] EXCEPT !.pc = "settle", !.name = n, !.sent = sent, !.todo = @ \ {n}]
  <2>1. /\ at[p].pc \in Pushing \cup Pulling /\ at[p].pc = "send" /\ Upsert(n, sent)
        /\ Work(p, r) \/ \E u \in Skips(p, n) : Work(p, u)
    BY <1>4 DEF Send, At, Pushing
  <2>2. sent \in Revs
    BY UnsentTyped
  <2>3. used' \in Counts
    BY <1>4, Clocked, Spending DEF Send, Lost, TypeInv
  <2> HIDE DEF sent
  <2>4. r \in Task /\ r.pc = "settle" /\ r.op = at[p].op /\ r.start = at[p].start /\ r.name = n
    BY <2>2, AtPlace, CycleNames DEF Task
  <2> HIDE DEF r
  <2>5. TaskOK(r) /\ r.start <= clock
    BY <2>1, <2>4, CycleNames, AtPlace, CycleTask
  <2>6. rows' \in [Doc -> Row \cup {NoRow}] /\ clock' \in Nat /\ clock' >= clock /\ excused' \subseteq Doc
    BY <2>1, <2>2, UpsertTyped
  <2>7. UNCHANGED <<storeVars, followVars, deleteVars, pullPoint, others>>
    BY <1>4 DEF Send
  <2>8. \A u \in Skips(p, n) : TaskOK(u) /\ u.start <= clock
    BY <2>1, SkipTask
  <2> QED BY <2>1, <2>3, <2>5, <2>6, <2>7, <2>8, ServiceTyped
<1>5. CASE SendFails(p)
  <2>0. PICK n \in at[p].todo : \E u \in Skips(p, n) : Fails(p, {"send"}, u)
    BY <1>5 DEF SendFails
  <2>1. PICK u \in Skips(p, n) : Fails(p, {"send"}, u)
    BY <2>0
  <2>2. at[p].pc = "send"
    BY <2>1 DEF Fails
  <2> QED BY <2>1, <2>2, SkipTask, FailsTyped
<1>6. CASE PushSettle(p)
  <2> DEFINE n == at[p].name
             pushed == Accepted(Settled(n, at[p].sent))
             all == IF pushed = {} THEN at[p].all ELSE at[p].all \cup {n}
             r == [at[p] EXCEPT !.pc = "send", !.sent = NoDocs, !.name = Nowhere, !.all = all]
  <2>1. at[p].pc = "settle" /\ Settle(n, at[p].sent)
    BY <1>6 DEF PushSettle, At
  <2>2. Work(p, r)
    BY <1>6 DEF PushSettle
  <2>3. n \in Name /\ at[p].pc \in Pushing \cup Pulling
    BY <2>1, AtPlace DEF Nameless, Pushing
  <2>4. all \subseteq Name
    BY <2>3, AtPlace DEF Task
  <2> HIDE DEF all
  <2>5. r \in Task /\ r.pc = "send" /\ r.op = at[p].op /\ r.start = at[p].start
    BY <2>4, AtPlace, Revisions, CycleNames DEF Task
  <2> HIDE DEF r
  <2>6. TaskOK(r) /\ r.start <= clock
    BY <2>3, <2>5, AtPlace, CycleNames, CycleTask
  <2>7. /\ dirty' \subseteq Name \X Doc /\ rejected' \subseteq dirty'
        /\ \A m \in Name, d \in Doc :
              /\ <<m, d>> \in dirty' => copy[m][d] > 0
              /\ <<m, d>> \in rejected' => d \in Refused
    BY <2>1, <2>3, SettleTyped
  <2>8. UNCHANGED <<svc, here, copy, followVars, deleteVars, pullPoint, used, history>>
    BY <1>6 DEF PushSettle
  <2> QED BY <2>2, <2>6, <2>7, <2>8, StoreFacts, Clocked, LocalTyped DEF history, others
<1>7. CASE SendDone(p)
  <2>1. at[p].pc \in Pushing \cup Pulling /\ Work(p, t("autoRead"))
    BY <1>7 DEF SendDone, At, Pushing, Then, t
  <2>2. UNCHANGED <<svc, storeVars, followVars, deleteVars, pullPoint, used, history>>
    BY <1>7 DEF SendDone
  <2> QED BY <1>t, <2>1, <2>2, CycleNames, Clocked, MovesTyped
<1>8. CASE AutoSubscribe(p)
  <2> DEFINE ns == AutoSubscribes(p)
             r == IF ns = {} THEN Fresh(p, "pull") ELSE [Fresh(p, "autoAdd") EXCEPT !.all = ns]
  <2>1. at[p].pc \in Pushing \cup Pulling /\ Work(p, r)
    BY <1>8 DEF AutoSubscribe, At, Pushing
  <2>2. ns \subseteq Name
    BY AtPlace DEF AutoSubscribes, Task
  <2>3. \A pc \in {"pull", "autoAdd"} : TaskOK(Fresh(p, pc)) /\ Fresh(p, pc).start = 0
    BY <2>1, AtPlace, CyclesOn, CycleNames, FreshOK
  <2> HIDE DEF ns
  <2>4. TaskOK([Fresh(p, "autoAdd") EXCEPT !.all = ns]) /\ [Fresh(p, "autoAdd") EXCEPT !.all = ns].start = 0
    BY <2>2, <2>3 DEF TaskOK, Task
  <2>5. TaskOK(r) /\ r.start <= clock
    BY <2>3, <2>4, Clocked
  <2>6. UNCHANGED <<svc, storeVars, followVars, deleteVars, pullPoint, used, history>>
    BY <1>8 DEF AutoSubscribe
  <2> HIDE DEF r
  <2> QED BY <2>1, <2>5, <2>6, Clocked, MovesTyped
<1>9. CASE Subscribes(p, "autoAdd", at[p].all, Fresh(p, "pull"))
  <2>1. at[p].pc \in Pushing \cup Pulling /\ at[p].all \subseteq Name
    BY <1>9, AtPlace DEF Subscribes, At, Pushing, Task
  <2>2. TaskOK(Fresh(p, "pull")) /\ Fresh(p, "pull").start = 0
    BY <2>1, AtPlace, CyclesOn, CycleNames, FreshOK
  <2> QED BY <1>9, <2>1, <2>2, Clocked, SubscribesTyped
<1> QED BY <1>1, <1>2, <1>3, <1>4, <1>5, <1>6, <1>7, <1>8, <1>9 DEF Push, t

LEMMA PullTyped ==
  ASSUME TypeInv, NEW p \in Proc, Pull(p)
  PROVE  TypeInv'
<1>1. CASE StartPull(p)
  <2> DEFINE pc == IF pullPoint = 0 THEN "recover" ELSE "choose"
             r == [Fresh(p, pc) EXCEPT !.start = clock, !.from = pullPoint]
  <2>1. at[p].pc \in Pushing \cup Pulling /\ Work(p, r)
    BY <1>1 DEF StartPull, At, Pulling
  <2>2. TaskOK(Fresh(p, pc)) /\ Fresh(p, pc).start = 0
    BY <2>1, AtPlace, CyclesOn, CycleNames, FreshOK
  <2>3. clock \in Nat /\ pullPoint \in Nat
    BY DEF TypeInv, StoreOK
  <2> HIDE DEF pc
  <2>4. TaskOK(r) /\ r.start = clock
    BY <2>2, <2>3 DEF TaskOK, Task
  <2>5. UNCHANGED <<svc, storeVars, followVars, deleteVars, pullPoint, used, history>>
    BY <1>1 DEF StartPull
  <2> HIDE DEF r
  <2> QED BY <2>1, <2>3, <2>4, <2>5, Clocked, MovesTyped
<1>2. CASE Recover(p)
  <2> DEFINE ns == OfUser \ Unfollowed
             r == [at[p] EXCEPT !.pc = "recoverAdd", !.all = ns]
  <2>1. at[p].pc \in Pushing \cup Pulling /\ Work(p, r)
    BY <1>2 DEF Recover, At, Pulling
  <2>2. ns \subseteq Name
    BY DEF OfUser
  <2> HIDE DEF ns
  <2>3. r \in Task /\ r.pc = "recoverAdd" /\ r.op = at[p].op /\ r.start = at[p].start
    BY <2>2, AtPlace, CycleNames DEF Task
  <2>4. UNCHANGED <<svc, storeVars, followVars, deleteVars, pullPoint, used, history>>
    BY <1>2 DEF Recover
  <2> HIDE DEF r
  <2> QED BY <2>1, <2>3, <2>4, AtPlace, Clocked, CycleNames, CycleTyped
<1>3. CASE Fails(p, {"recover", "fetch"}, Idle)
  BY <1>3, IdleOK, Revisions, Clocked, FailsTyped
<1>4. CASE Subscribes(p, "recoverAdd", at[p].all, [at[p] EXCEPT !.pc = "choose", !.all = {}])
  <2> DEFINE r == [at[p] EXCEPT !.pc = "choose", !.all = {}]
  <2>1. at[p].pc \in Pushing \cup Pulling /\ at[p].all \subseteq Name
    BY <1>4, AtPlace DEF Subscribes, At, Pulling, Task
  <2>2. r \in Task /\ r.pc = "choose" /\ r.op = at[p].op /\ r.start = at[p].start
    BY AtPlace, CycleNames DEF Task
  <2>3. Subscribes(p, "recoverAdd", at[p].all, r)
    BY <1>4
  <2> HIDE DEF r
  <2> QED BY <2>1, <2>2, <2>3, AtPlace, CycleNames, CycleTask, SubscribesTyped
<1>5. CASE Choose(p)
  <2> DEFINE whole == Backfills(p) \ Unfollowed
             new == (subscribed \ Unfollowed) \ here
             todo == (here \ Unfollowed) \cup new \cup (whole \cap subscribed)
             marked == pending \ Unfollowed
             r == [at[p] EXCEPT !.pc = "each", !.todo = todo, !.all = todo, !.whole = whole,
                                !.marked = marked]
  <2>1. /\ at[p].pc \in Pushing \cup Pulling /\ Work(p, r)
        /\ here' = here \cup new \cup (whole \cap subscribed)
    BY <1>5 DEF Choose, At, Pulling
  <2>2. /\ whole \subseteq Name /\ new \subseteq Name /\ todo \subseteq Name /\ marked \subseteq Name
        /\ here' \subseteq Name /\ here \subseteq here'
    BY <2>1 DEF Backfills, TypeInv, StoreOK, FollowOK
  <2> HIDE DEF whole, new, todo, marked
  <2>3. r \in Task /\ r.pc = "each" /\ r.op = at[p].op /\ r.start = at[p].start
    BY <2>2, AtPlace, CycleNames DEF Task
  <2> HIDE DEF r
  <2>4. TaskOK(r) /\ r.start <= clock
    BY <2>1, <2>3, AtPlace, CycleNames, CycleTask
  <2>5. UNCHANGED <<svc, copy, dirty, rejected, followVars, deleteVars, pullPoint, used, history>>
    BY <1>5 DEF Choose
  <2>6. \A m \in Name, d \in Doc :
         /\ copy'[m][d] > 0 => m \in here'
         /\ <<m, d>> \in dirty' => copy'[m][d] > 0
         /\ <<m, d>> \in rejected' => d \in Refused
    BY <2>2, <2>5, StoreFacts
  <2> QED BY <2>1, <2>2, <2>4, <2>5, <2>6, StoreFacts, Clocked, LocalTyped DEF history, others
<1>6. ASSUME NEW n \in Name, EachCollection(p, n) PROVE TypeInv'
  <2> DEFINE next(ids) == [at[p] EXCEPT !.pc = IF ids = {} THEN "fetch" ELSE "moveDrop", !.ids = ids,
                                        !.name = n, !.todo = @ \ {n}]
  <2>0. PICK ids \in {MovedOut(p, n), {}} : (used' = used \/ Lost) /\ Work(p, next(ids))
    BY <1>6 DEF EachCollection
  <2> DEFINE pc == IF ids = {} THEN "fetch" ELSE "moveDrop"
             r == [at[p] EXCEPT !.pc = pc, !.ids = ids, !.name = n, !.todo = @ \ {n}]
  <2>1. at[p].pc \in Pushing \cup Pulling /\ Work(p, r)
    BY <1>6, <2>0 DEF EachCollection, At, Pulling
  <2>2. ids \subseteq Doc /\ pc \in Pushing \cup Pulling
    BY DEF MovedOut, In, Pulling
  <2> HIDE DEF pc
  <2>3. r \in Task /\ r.pc = pc /\ r.op = at[p].op /\ r.start = at[p].start /\ r.name = n
    BY <2>2, AtPlace, CycleNames DEF Task
  <2>4. /\ UNCHANGED <<svc, storeVars, followVars, deleteVars, pullPoint, history>>
        /\ used' \in Counts
    BY <1>6, <2>0, Clocked, Spending DEF EachCollection, Lost, TypeInv
  <2> HIDE DEF r
  <2> QED BY <2>1, <2>2, <2>3, <2>4, AtPlace, Clocked, CycleTyped
<1>7. CASE MoveDrop(p)
  <2> DEFINE n == at[p].name
             ids == at[p].ids
             r == [at[p] EXCEPT !.pc = "fetch", !.ids = {}]
  <2>1. at[p].pc \in Pushing \cup Pulling /\ Work(p, r) /\ n \in Name /\ ids \subseteq Doc
    BY <1>7, AtPlace DEF MoveDrop, At, Pulling, Nameless
  <2>2. r \in Task /\ r.pc = "fetch" /\ r.op = at[p].op /\ r.start = at[p].start /\ r.name = n
    BY AtPlace, CycleNames DEF Task
  <2>3. /\ copy' = [copy EXCEPT ![n] = [d \in Doc |-> IF d \in ids THEN 0 ELSE @[d]]]
        /\ dirty' = dirty \ Copies(n, ids) /\ rejected' = rejected \ Copies(n, ids)
    BY <1>7 DEF MoveDrop
  <2> HIDE DEF r
  <2>4. TaskOK(r) /\ r.start <= clock
    BY <2>1, <2>2, AtPlace, CycleNames, CycleTask
  <2>5. copy' \in [Name -> Revs] /\ dirty' \subseteq Name \X Doc /\ rejected' \subseteq dirty'
    BY <2>1, <2>3, StoreFacts DEF Revs
  <2>6. \A m \in Name, d \in Doc :
         /\ copy'[m][d] > 0 => m \in here
         /\ <<m, d>> \in dirty' => copy'[m][d] > 0
         /\ <<m, d>> \in rejected' => d \in Refused
    <3> TAKE m \in Name, d \in Doc
    <3>1. /\ copy[m][d] > 0 => m \in here
          /\ <<m, d>> \in dirty => copy[m][d] > 0
          /\ <<m, d>> \in rejected => d \in Refused
      BY StoreFacts
    <3>2. copy'[m][d] = IF m = n /\ d \in ids THEN 0 ELSE copy[m][d]
      BY <2>1, <2>3, StoreFacts
    <3>3. m = n /\ d \in ids => <<m, d>> \in Copies(n, ids)
      BY DEF Copies
    <3> HIDE DEF n, ids
    <3> QED BY <2>3, <3>1, <3>2, <3>3
  <2>7. latest' \in Revs /\ excused' \subseteq Doc /\ astray' \subseteq Doc /\ owed' \subseteq Name
    BY <1>7, <2>1, StoreFacts DEF MoveDrop, others
  <2>8. here' = here /\ UNCHANGED <<svc, followVars, deleteVars, pullPoint, used, dropped, wiped>>
    BY <1>7 DEF MoveDrop, others
  <2> HIDE DEF n, ids
  <2> QED BY <2>1, <2>4, <2>5, <2>6, <2>7, <2>8, StoreFacts, Clocked, LocalTyped
<1>8. CASE Fetch(p, "fetch", "apply", Own(p))
  <2>1. at[p].pc = "fetch"
    BY <1>8 DEF Fetch, At
  <2>2. at[p].pc \in Pushing \cup Pulling /\ at[p].name \in Name
    BY <2>1, AtPlace DEF Pulling, Nameless
  <2>3. OnItsWay(at[p].op, "apply") /\ "apply" \in PC
    BY <2>2, AtPlace, CyclesOn, CycleNames
  <2> QED BY <1>8, <2>2, <2>3, FetchTyped
<1>9. CASE Applied(p)
  <2> DEFINE pc == IF at[p].name \in at[p].marked THEN "clear" ELSE "each"
             r == [at[p] EXCEPT !.pc = pc]
  <2>1. at[p].pc = "apply" /\ Apply(p, "apply", r)
    BY <1>9 DEF Applied, Apply, ApplyPage, At
  <2>2. at[p].pc \in Pushing \cup Pulling /\ at[p].name \in Name /\ pc \in Pushing \cup Pulling
    BY <2>1, AtPlace DEF Pulling, Nameless
  <2> HIDE DEF pc
  <2>3. r \in Task /\ r.pc = pc /\ r.op = at[p].op /\ r.start = at[p].start /\ r.name = at[p].name
    BY <2>2, AtPlace, CycleNames DEF Task
  <2> HIDE DEF r
  <2>4. TaskOK(r) /\ r.start <= clock
    BY <2>2, <2>3, AtPlace, CycleNames, CycleTask
  <2> QED BY <2>1, <2>4, Clocked, PageTyped DEF Apply, Nameless
<1>10. CASE PullClear(p)
  <2> DEFINE r == [at[p] EXCEPT !.pc = "each", !.marked = @ \ {at[p].name}]
  <2>1. at[p].pc \in Pushing \cup Pulling /\ ClearBackfill(p, "clear", {at[p].name}, r)
    BY <1>10 DEF PullClear, ClearBackfill, At, Pulling
  <2>2. r \in Task /\ r.pc = "each" /\ r.op = at[p].op /\ r.start = at[p].start
    BY AtPlace, CycleNames DEF Task
  <2> HIDE DEF r
  <2> QED BY <2>1, <2>2, AtPlace, CycleNames, CycleTask, ClearBackfillTyped
<1>11. CASE EndPull(p)
  <2>1. Work(p, Idle) /\ pullPoint' = at[p].start /\ UNCHANGED <<svc, storeVars, followVars, deleteVars, used, history>>
    BY <1>11 DEF EndPull
  <2>2. TasksOK'
    BY <2>1, IdleOK, Revisions, Clocked, TaskTyped DEF svc
  <2>3. StoreOK'
    BY <2>1, AtPlace DEF TypeInv, StoreOK, svc, storeVars
  <2>4. FollowOK' /\ HistoryOK'
    BY <2>1 DEF TypeInv, FollowOK, HistoryOK, followVars, deleteVars, history, others
  <2> QED BY <2>2, <2>3, <2>4 DEF TypeInv
<1>12. CASE RecoverFails(p) \/ FetchFails(p)
  <2> DEFINE t(pc) == [at[p] EXCEPT !.pc = pc]
  <2>1. /\ at[p].pc \in Pushing \cup Pulling /\ Lost
        /\ UNCHANGED <<svc, storeVars, followVars, deleteVars, pullPoint, latest, excused, owed, wiped>>
    BY <1>12 DEF RecoverFails, FetchFails, At, Pulling
  <2>2. PICK pc \in {"choose", "each"} : Work(p, t(pc))
    BY <1>12 DEF RecoverFails, FetchFails, Then
  <2>3. t(pc) \in Task /\ t(pc).pc = pc /\ t(pc).op = at[p].op /\ t(pc).start = at[p].start
    BY AtPlace, CycleNames DEF Task
  <2> HIDE DEF t
  <2>4. TaskOK(t(pc)) /\ t(pc).start <= clock
    BY <2>1, <2>3, AtPlace, CycleNames, CycleTask
  <2>5. astray' \subseteq Doc /\ dropped' \subseteq Name
    <3>1. astray \subseteq Doc /\ dropped \subseteq Name
      BY DEF TypeInv, HistoryOK
    <3>2. CASE RecoverFails(p)
      BY <3>1, <3>2 DEF RecoverFails, OfUser
    <3>3. CASE FetchFails(p)
      <4>1. at[p].name \in Name
        BY <3>3, AtPlace DEF FetchFails, At, Nameless
      <4>2. astray' \subseteq astray \cup Doc /\ dropped' \subseteq dropped \cup {at[p].name}
        BY <3>3 DEF FetchFails
      <4> QED BY <3>1, <4>1, <4>2
    <3> QED BY <1>12, <3>2, <3>3
  <2> QED BY <2>1, <2>2, <2>4, <2>5, PassedTyped
<1> QED BY <1>1, <1>2, <1>3, <1>4, <1>5, <1>6, <1>7, <1>8, <1>9, <1>10, <1>11, <1>12 DEF Pull

LEMMA StartCycleTyped ==
  ASSUME TypeInv, NEW p \in Proc, StartCycle(p)
  PROVE  TypeInv'
<1> DEFINE r == [Idle EXCEPT !.pc = "deletes", !.op = "cycle"]
<1>1. TaskOK(r) /\ r.start = 0
  BY Revisions DEF TaskOK, OnItsWay, Task, PC, Op, Idle, Pushing, Nameless
<1>2. Begin(p, r, {}) /\ Spend("cycles", MaxCycles) /\ subscribed' \subseteq Name
  BY DEF StartCycle, followVars, TypeInv, FollowOK
<1> QED BY <1>1, <1>2, BeginTyped DEF StartCycle, followVars

LEMMA VisitingTyped ==
  ASSUME TypeInv, NEW p \in Proc, Visiting(p)
  PROVE  TypeInv'
<1>1. ASSUME NEW n \in Name, Visit(p, n) PROVE TypeInv'
  <2> DEFINE whole == IF n \in subscribed /\ n \notin pending THEN {} ELSE {n}
             r == [Idle EXCEPT !.pc = "visitFetch", !.op = "visit", !.name = n, !.from = pullPoint,
                               !.whole = whole, !.marked = pending \cap {n}]
  <2>1. whole \subseteq Name /\ pullPoint \in Nat
    BY DEF TypeInv, StoreOK
  <2>2. Begin(p, r, {}) /\ Spend("visits", MaxVisits) /\ subscribed' \subseteq Name
    BY <1>1 DEF Visit, followVars, TypeInv, FollowOK
  <2> HIDE DEF whole
  <2>3. TaskOK(r) /\ r.start = 0
    BY <2>1, Revisions DEF TaskOK, OnItsWay, Task, PC, Op, Idle
  <2> QED BY <1>1, <2>2, <2>3, BeginTyped DEF Visit, followVars
<1>2. CASE Fetch(p, "visitFetch", "visitApply", FALSE)
  BY <1>2, AtPlace, Stepping, FetchTyped DEF Fetch, At, PC
<1>3. CASE Apply(p, "visitApply", [at[p] EXCEPT !.pc = IF at[p].marked = {} THEN "visitFollow" ELSE "visitDone"])
  <2> DEFINE pc == IF at[p].marked = {} THEN "visitFollow" ELSE "visitDone"
  <2>1. at[p].pc = "visitApply" /\ Apply(p, "visitApply", [at[p] EXCEPT !.pc = pc])
    BY <1>3 DEF Apply, ApplyPage, At
  <2>2. OnItsWay(at[p].op, pc) /\ at[p].name \in Name /\ pc \in PC
    BY <2>1, AtPlace, Stepping DEF PC
  <2> HIDE DEF pc
  <2>3. TaskOK([at[p] EXCEPT !.pc = pc]) /\ [at[p] EXCEPT !.pc = pc].start = at[p].start
    BY <2>2, AtPlace, ThenOK
  <2> QED BY <2>1, <2>3, AtPlace, Clocked, PageTyped DEF Apply, Nameless
<1>4. CASE VisitTimesOut(p)
  <2>1. CASE Fails(p, {"visitFetch", "visitApply"}, Idle)
    BY <2>1, IdleOK, Revisions, Clocked, FailsTyped
  <2>2. CASE Lost /\ ApplyPage(p, "visitApply", Idle)
    <3>1. used' \in Counts
      BY <2>2, Spending DEF Lost, TypeInv
    <3> QED BY <2>2, <3>1, IdleOK, Revisions, Clocked, PageTyped DEF Nameless
  <2> QED BY <1>4, <2>1, <2>2 DEF VisitTimesOut
<1>5. CASE ClearBackfill(p, "visitDone", at[p].marked, [at[p] EXCEPT !.pc = "visitFollow", !.marked = {}])
  <2> DEFINE r == [at[p] EXCEPT !.pc = "visitFollow", !.marked = {}]
  <2>1. at[p].pc = "visitDone"
    BY <1>5 DEF ClearBackfill, At
  <2>2. TaskOK(r) /\ r.start = at[p].start
    <3>1. "visitFollow" \in PC /\ OnItsWay(at[p].op, "visitFollow") /\ at[p].name \in Name
      BY <2>1, AtPlace, Stepping DEF PC
    <3> QED BY <3>1, AtPlace DEF TaskOK, Task
  <2> QED BY <1>5, <2>2, AtPlace, ClearBackfillTyped
<1>6. CASE Subscribes(p, "visitFollow", at[p].whole, Idle)
  <2>1. at[p].whole \in SUBSET Name
    BY AtPlace DEF Task
  <2> QED BY <1>6, <2>1, IdleOK, Revisions, Clocked, SubscribesTyped
<1> QED BY <1>1, <1>2, <1>3, <1>4, <1>5, <1>6 DEF Visiting

-----------------------------------------------------------------------------
\* A set of numbers up to c has a least one.
LEMMA LeastOf ==
  ASSUME NEW c \in Nat, NEW T \in SUBSET (0..c), T # {}
  PROVE  \E j \in T : \A k \in T : j <= k
<1> DEFINE U == {S \in SUBSET (0..c) : \E j \in T : S = 0..(j-1)}
<1>1. PICK i \in T : TRUE
  OBVIOUS
<1>2. 0..(i-1) \in U
  BY <1>1
<1>3. IsFiniteSet(0..c) /\ U \subseteq FiniteSubsetsOf(0..c) /\ U # {}
  <2>1. IsFiniteSet(0..c)
    BY FS_Interval
  <2>2. FiniteSubsetsOf(0..c) = SUBSET (0..c)
    BY <2>1, FS_FiniteSubsetsOfFinite
  <2> HIDE DEF U
  <2>3. U \subseteq SUBSET (0..c)
    BY DEF U
  <2> QED BY <1>2, <2>1, <2>2, <2>3
<1>4. PICK S \in U : \A R \in U : ~(<<R, S>> \in StrictSubsetOrdering(0..c))
  BY <1>3, FS_StrictSubsetOrderingWellFounded, WFMin
<1>5. PICK j \in T : S = 0..(j-1)
  BY <1>4
<1>6. ASSUME NEW k \in T, k < j PROVE FALSE
  <2>1. 0..(k-1) \in U
    BY <1>6
  <2>2. 0..(k-1) \subseteq 0..(j-1) /\ k \in 0..(j-1) /\ k \notin 0..(k-1)
    BY <1>6
  <2>3. <<0..(k-1), S>> \in StrictSubsetOrdering(0..c)
    BY <1>5, <2>1, <2>2 DEF StrictSubsetOrdering
  <2> QED BY <1>4, <2>1, <2>3
<1> QED BY <1>6

\* Redirects followed up to c times.
Follows(g, c) ==
  g = [k \in 0..c |-> [m \in Name |->
         IF k = 0 \/ redirect[m] = Nowhere THEN m ELSE g[k - 1][redirect[m]]]]

LEMMA FollowStep ==
  ASSUME FollowOK, NEW j \in Nat, j > 0, NEW g, Follows(g, j - 1)
  PROVE  \E h : Follows(h, j)
<1> DEFINE e(f, k) == [m \in Name |-> IF k = 0 \/ redirect[m] = Nowhere THEN m ELSE f[k - 1][redirect[m]]]
           h == [k \in 0..j |-> e(g, k)]
<1>0. g = [k \in 0..(j-1) |-> e(g, k)]
  BY DEF Follows
<1>1. \A k \in 0..(j-1) : h[k] = g[k]
  <2> HIDE DEF e
  <2>1. 0..(j-1) \subseteq 0..j
    OBVIOUS
  <2>2. \A k \in 0..(j-1) : g[k] = e(g, k)
    BY <1>0
  <2> QED BY <2>1, <2>2
<1>2. ASSUME NEW k \in 0..j PROVE h[k] = e(h, k)
  <2>1. CASE k = 0
    BY <2>1
  <2>2. CASE k # 0
    <3>1. h[k - 1] = g[k - 1]
      <4>1. k - 1 \in 0..(j-1)
        BY <2>2
      <4> HIDE DEF h
      <4> QED BY <1>1, <4>1
    <3>2. e(g, k) = e(h, k)
      BY <3>1
    <3> QED BY <3>2
  <2> QED BY <2>1, <2>2
<1> HIDE DEF e
<1>3. h = [k \in 0..j |-> e(h, k)]
  BY <1>2
<1>4. Follows(h, j)
  BY <1>3 DEF Follows, e
<1> QED BY <1>4

LEMMA FollowExists ==
  ASSUME FollowOK, NEW c \in Nat
  PROVE  \E g : Follows(g, c)
<1> DEFINE T == {j \in 0..c : ~\E g : Follows(g, j)}
<1>1. SUFFICES T = {}
  OBVIOUS
<1>2. SUFFICES ASSUME T # {} PROVE FALSE
  OBVIOUS
<1>3. PICK j \in T : \A k \in T : j <= k
  BY <1>2, LeastOf
<1>4. CASE j = 0
  <2> DEFINE g == [k \in 0..0 |-> [m \in Name |-> m]]
  <2>1. Follows(g, 0)
    BY DEF Follows
  <2> QED BY <1>3, <1>4, <2>1
<1>5. CASE j > 0
  <2>1. j - 1 \in 0..c /\ j - 1 \notin T /\ j \in Nat
    BY <1>3, <1>5
  <2>2. PICK g : Follows(g, j - 1)
    BY <2>1
  <2> QED BY <1>3, <1>5, <2>1, <2>2, FollowStep
<1> QED BY <1>3, <1>4, <1>5

LEMMA Names == IsFiniteSet(Name) /\ Cardinality(Name) \in Nat /\ Nowhere \notin Name
BY FollowingAssumption, FS_CardinalityType

\* What resolveCollectionRedirect computes.
LEMMA Resolves ==
  ASSUME FollowOK
  PROVE  \E f : Follows(f, Cardinality(Name)) /\ \A n : Resolve(n) = f[Cardinality(Name) - 1][n]
<1> DEFINE f == CHOOSE g : Follows(g, Cardinality(Name))
<1>1. Follows(f, Cardinality(Name))
  BY Names, FollowExists
<1>2. \A n : Resolve(n) = f[Cardinality(Name) - 1][n]
  BY DEF Resolve, Follows
<1> QED BY <1>1, <1>2

LEMMA FollowValues ==
  ASSUME NEW c \in Nat, NEW f, Follows(f, c), NEW k \in 0..c, NEW m \in Name
  PROVE  /\ k = 0 \/ redirect[m] = Nowhere => f[k][m] = m
         /\ k > 0 /\ redirect[m] # Nowhere => f[k][m] = f[k - 1][redirect[m]]
<1> DEFINE e(j) == [x \in Name |-> IF j = 0 \/ redirect[x] = Nowhere THEN x ELSE f[j - 1][redirect[x]]]
<1>1. f = [j \in 0..c |-> e(j)]
  BY DEF Follows
<1>2. f[k] = e(k)
  <2> HIDE DEF e
  <2> QED BY <1>1
<1>3. f[k][m] = IF k = 0 \/ redirect[m] = Nowhere THEN m ELSE f[k - 1][redirect[m]]
  BY <1>2
<1> QED BY <1>3

LEMMA FollowTyped ==
  ASSUME FollowOK, NEW c \in Nat, NEW f, Follows(f, c)
  PROVE  \A k \in 0..c, m \in Name : f[k][m] \in Name
<1> DEFINE T == {k \in 0..c : \E m \in Name : f[k][m] \notin Name}
<1>1. SUFFICES ASSUME T # {} PROVE FALSE
  OBVIOUS
<1>2. PICK k \in T : \A j \in T : k <= j
  BY <1>1, LeastOf
<1>3. PICK m \in Name : f[k][m] \notin Name
  BY <1>2
<1>4. k > 0 /\ redirect[m] # Nowhere /\ f[k][m] = f[k - 1][redirect[m]]
  BY <1>2, <1>3, FollowValues
<1>5. k - 1 \in 0..c /\ k - 1 \notin T /\ redirect[m] \in Name
  BY <1>2, <1>4 DEF FollowOK
<1> QED BY <1>3, <1>4, <1>5

LEMMA ResolveTyped ==
  ASSUME FollowOK
  PROVE  \A n \in Name : Resolve(n) \in Name
<1>1. PICK f : Follows(f, Cardinality(Name)) /\ \A n : Resolve(n) = f[Cardinality(Name) - 1][n]
  BY Resolves
<1>2. SUFFICES ASSUME NEW n \in Name PROVE f[Cardinality(Name) - 1][n] \in Name
  BY <1>1
<1>3. Cardinality(Name) - 1 \in 0..Cardinality(Name)
  BY Names, FS_EmptySet
<1> QED BY <1>1, <1>3, Names, FollowTyped

\* The names whose redirects end within k steps grow with k until they are all.
LEMMA FollowsEnd ==
  ASSUME FollowOK, Acyclic, NEW f, Follows(f, Cardinality(Name)), NEW n \in Name
  PROVE  redirect[f[Cardinality(Name) - 1][n]] = Nowhere
<1> DEFINE c == Cardinality(Name)
           E(k) == {m \in Name : redirect[f[k][m]] = Nowhere}
           T == {k \in 0..(c-1) : ~ /\ E(k) = Name \/ Cardinality(E(k)) >= k + 1
                                    /\ k > 0 => E(k - 1) \subseteq E(k)}
<1>0. c \in Nat /\ c > 0 /\ c - 1 \in Nat /\ IsFiniteSet(Name)
  BY Names, FS_EmptySet
<1>v. ASSUME NEW k \in 0..(c-1), NEW m \in Name
      PROVE  /\ k = 0 \/ redirect[m] = Nowhere => f[k][m] = m
             /\ k > 0 /\ redirect[m] # Nowhere => f[k][m] = f[k - 1][redirect[m]]
             /\ redirect[m] \in Name \cup {Nowhere}
  <2>1. k \in 0..c
    BY <1>0
  <2> QED BY <1>0, <2>1, FollowValues DEF FollowOK
<1>e. \A k : E(k) \subseteq Name /\ IsFiniteSet(E(k)) /\ Cardinality(E(k)) \in Nat
  BY <1>0, FS_Subset, FS_CardinalityType
<1>a. ASSUME NEW S \in SUBSET Name, S # Name
      PROVE  \E m \in Name \ S : redirect[m] \in S \cup {Nowhere}
  <2>1. Name \ S # {}
    BY <1>a
  <2> QED BY <2>1 DEF Acyclic, FollowOK
<1> HIDE DEF c
<1>1. T = {}
  <2>1. SUFFICES ASSUME T # {} PROVE FALSE
    OBVIOUS
  <2>2. PICK k \in T : \A j \in T : k <= j
    BY <1>0, <2>1, LeastOf
  <2>3. k \in 0..(c-1)
    BY <2>2
  <2>4. CASE k = 0
    <3>1. PICK m \in Name : redirect[m] = Nowhere
      <4>1. {} \in SUBSET Name /\ {} # Name
        OBVIOUS
      <4> HIDE DEF T, E
      <4>2. \E m \in Name \ {} : redirect[m] \in {} \cup {Nowhere}
        BY <1>a, <4>1
      <4> QED BY <4>2
    <3>2. f[0][m] = m
      BY <1>0, <1>v, <3>1
    <3>3. m \in E(0)
      BY <3>1, <3>2
    <3>4. Cardinality(E(0)) # 0
      BY <1>e, <3>3, FS_EmptySet
    <3>5. Cardinality(E(0)) >= 1
      <4> HIDE DEF E
      <4> QED BY <1>e, <3>4
    <3> QED BY <2>2, <2>4, <3>5
  <2>5. CASE k > 0
    <3>1. k - 1 \in 0..(c-1) /\ k - 1 \notin T
      <4> HIDE DEF T
      <4>1. k - 1 \in 0..(c-1) /\ ~(k <= k - 1)
        BY <1>0, <2>3, <2>5
      <4> QED BY <2>2, <4>1
    <3>2. /\ E(k - 1) = Name \/ Cardinality(E(k - 1)) >= k
          /\ k - 1 > 0 => E(k - 2) \subseteq E(k - 1)
      BY <2>3, <3>1
    <3>3. ASSUME NEW m \in Name, redirect[m] \in E(k - 1) \/ redirect[m] = Nowhere PROVE m \in E(k)
      BY <1>v, <2>3, <2>5, <3>3, Names
    <3>4. ASSUME NEW m \in E(k - 1) PROVE m \in E(k)
      <4>1. CASE redirect[m] = Nowhere
        BY <3>3, <4>1
      <4>2. CASE redirect[m] # Nowhere /\ k - 1 = 0
        BY <1>v, <3>1, <4>2
      <4>3. CASE redirect[m] # Nowhere /\ k - 1 > 0
        <5>1. f[k - 1][m] = f[k - 2][redirect[m]] /\ redirect[m] \in Name
          BY <1>v, <2>3, <3>1, <4>3
        <5>2. redirect[m] \in E(k - 2)
          BY <5>1
        <5> QED BY <3>2, <3>3, <4>3, <5>2
      <4> QED BY <2>3, <3>1, <4>1, <4>2, <4>3
    <3>5. E(k - 1) \subseteq E(k)
      BY <3>4
    <3>6. E(k) = Name \/ Cardinality(E(k)) >= k + 1
      <4>1. CASE E(k - 1) = Name
        BY <1>e, <3>5, <4>1
      <4>2. CASE E(k - 1) # Name
        <5>1. PICK m \in Name \ E(k - 1) : redirect[m] \in E(k - 1) \cup {Nowhere}
          BY <1>a, <1>e, <4>2
        <5>2. m \in E(k)
          BY <3>3, <5>1
        <5>3. Cardinality(E(k - 1) \cup {m}) = Cardinality(E(k - 1)) + 1
          BY <1>e, <5>1, FS_AddElement
        <5>4. Cardinality(E(k - 1) \cup {m}) <= Cardinality(E(k))
          <6> DEFINE A == E(k - 1) \cup {m}
                     B == E(k)
          <6>1. A \subseteq B /\ IsFiniteSet(B)
            BY <1>e, <3>5, <5>2
          <6> HIDE DEF A, B
          <6>2. Cardinality(A) <= Cardinality(B)
            BY <6>1, FS_Subset
          <6> QED BY <6>2 DEF A, B
        <5> HIDE DEF E
        <5>5. Cardinality(E(k - 1)) >= k
          BY <3>2, <4>2
        <5> QED BY <1>e, <2>3, <5>3, <5>4, <5>5
      <4> QED BY <4>1, <4>2
    <3> QED BY <2>2, <3>5, <3>6
  <2> QED BY <2>3, <2>4, <2>5
<1>2. c - 1 \in 0..(c-1) /\ c - 1 \notin T
  <2> HIDE DEF T
  <2> QED BY <1>0, <1>1
<1>3. E(c - 1) = Name \/ Cardinality(E(c - 1)) >= c
  BY <1>0, <1>2
<1>4. E(c - 1) = Name
  <2>1. CASE Cardinality(E(c - 1)) >= c
    <3> DEFINE B == E(c - 1)
    <3>1. B \subseteq Name /\ Cardinality(B) \in Nat /\ Cardinality(B) >= Cardinality(Name)
      BY <1>e, <2>1 DEF c
    <3> HIDE DEF B
    <3>2. Cardinality(B) <= Cardinality(Name) /\ (Cardinality(Name) = Cardinality(B) => Name = B)
      BY <1>0, <3>1, FS_Subset
    <3>3. Name = B
      BY <1>0, <3>1, <3>2 DEF c
    <3> QED BY <3>3 DEF B
  <2> QED BY <1>3, <2>1
<1> QED BY <1>4 DEF c

LEMMA AcyclicEnds == FollowOK /\ Acyclic => RedirectsEnd
<1>1. SUFFICES ASSUME FollowOK, Acyclic, NEW n \in Name PROVE redirect[Resolve(n)] = Nowhere
  BY DEF RedirectsEnd
<1>2. PICK f : Follows(f, Cardinality(Name)) /\ \A m : Resolve(m) = f[Cardinality(Name) - 1][m]
  BY <1>1, Resolves
<1> QED BY <1>1, <1>2, FollowsEnd

-----------------------------------------------------------------------------
\* The state is well formed, and redirects never go round, forever.
LEMMA TypeInit == Init => TypeInv
<1> SUFFICES ASSUME Init PROVE TypeInv
  OBVIOUS
<1> USE FollowingAssumption DEF Init
<1>1. rows \in [Doc -> Row \cup {NoRow}]
  <2>1. \A d \in Doc : Home[d] # Nowhere =>
          [in |-> Home[d], rev |-> 1, at |-> 1, echo |-> d \in Mine] \in Row
    BY DEF Row
  <2> QED BY <2>1
<1>2. here \subseteq Name /\ subscribed \subseteq Name
  BY DEF Homes
<1>3. copy \in [Name -> Revs]
  BY DEF Revs
<1>4. \A n \in Name, d \in Doc : copy[n][d] > 0 => n \in here
  BY DEF Homes
<1>5. StoreOK
  BY <1>1, <1>2, <1>3, <1>4 DEF StoreOK
<1>6. FollowOK
  BY <1>2 DEF FollowOK, Counts
<1>7. HistoryOK
  BY DEF HistoryOK, Revs
<1>8. TasksOK
  BY IdleOK, Revisions DEF TasksOK
<1> QED BY <1>5, <1>6, <1>7, <1>8 DEF TypeInv

LEMMA AcyclicInit == Init => Acyclic
BY FollowingAssumption DEF Init, Acyclic

LEMMA TypeStep == TypeInv /\ [Next]_vars => TypeInv'
<1> SUFFICES ASSUME TypeInv, [Next]_vars PROVE TypeInv'
  OBVIOUS
<1>1. ASSUME NEW p \in Session, Creating(p) \/ Subscribing(p) \/ Removing(p) \/ Merging(p) \/ Writing(p)
      PROVE  TypeInv'
  <2>1. p \in Proc
    BY DEF Proc
  <2>2. \A n \in Name : Resolve(n) \in Name
    BY ResolveTyped DEF TypeInv
  <2> QED BY <1>1, <2>1, <2>2, CreatingTyped, SubscribingTyped, RemovingTyped, MergingTyped, WritingTyped
<1>2. ASSUME NEW p \in Cycle, StartCycle(p) PROVE TypeInv'
  BY <1>2, StartCycleTyped DEF Proc
<1>3. ASSUME NEW p \in Cycle \cup Session, Push(p) \/ Pull(p) PROVE TypeInv'
  BY <1>3, PushTyped, PullTyped DEF Proc
<1>4. ASSUME NEW p \in Hook, Visiting(p) PROVE TypeInv'
  BY <1>4, VisitingTyped DEF Proc
<1>5. ASSUME NEW p \in Proc, Crash(p) PROVE TypeInv'
  BY <1>5, CrashTyped
<1>6. ASSUME NEW n \in Name, NEW d \in Doc, Edit(n, d) \/ TeammateStores(d, n) PROVE TypeInv'
  BY <1>6, EditTyped, TeammateTyped
<1>7. CASE UNCHANGED vars
  BY <1>7 DEF vars, svc, storeVars, followVars, deleteVars, history, others,
              TypeInv, StoreOK, FollowOK, HistoryOK, TasksOK
<1> QED BY <1>1, <1>2, <1>3, <1>4, <1>5, <1>6, <1>7 DEF Next

\* Who changes a redirect.
LEMMA RedirectSteps ==
  ASSUME Next
  PROVE  \/ UNCHANGED redirect
         \/ \E p \in Proc : \/ ClearRedirect(p, "uncreate", "rejoin")
                            \/ ClearRedirect(p, "unredirect", "unleave")
                            \/ MergeRedirect(p)
<1>1. ASSUME NEW p \in Session, Creating(p) \/ Subscribing(p)
      PROVE  \/ UNCHANGED redirect
             \/ ClearRedirect(p, "uncreate", "rejoin") \/ ClearRedirect(p, "unredirect", "unleave")
  BY <1>1 DEF Creating, Create, Rejoin, Subscribes, MarkBackfill, Subscribing, Subscribe, Unsubscribe,
     ClearLeft, Make, SubscribePull, Fetch, Fails, Apply, ApplyPage, SubscribeCycle, followVars
<1>2. ASSUME NEW p \in Session, Removing(p) PROVE UNCHANGED redirect
  BY <1>2 DEF Removing, Remove, QueueAll, RemovePush, RemovePushFails, RemoveSettle, Unfollow, Leave,
     Drop, followVars
<1>3. ASSUME NEW p \in Session, Merging(p) \/ Writing(p) PROVE UNCHANGED redirect \/ MergeRedirect(p)
  BY <1>3 DEF Merging, Merge, MergeCopy, MergeVerify, MergeMove, MergeCheck, MergeRemove, Writing,
     Write, Add, followVars
<1>4. ASSUME NEW p, Push(p) PROVE UNCHANGED redirect
  BY <1>4 DEF Push, PushDeletes, PushDeletesFails, Fails, ListCollections, Send, SendFails, PushSettle,
     SendDone, AutoSubscribe, Subscribes, followVars
<1>5. ASSUME NEW p, Pull(p) PROVE UNCHANGED redirect
  BY <1>5 DEF Pull, StartPull, Recover, RecoverFails, Fails, Subscribes, Choose, EachCollection, MoveDrop,
     Fetch, FetchFails, Applied, Apply, ApplyPage, PullClear, ClearBackfill, EndPull, followVars
<1>6. ASSUME NEW p, Visiting(p) PROVE UNCHANGED redirect
  BY <1>6 DEF Visiting, Visit, Fetch, Apply, ApplyPage, VisitTimesOut, Fails, ClearBackfill, Subscribes,
     followVars
<1>7. ASSUME NEW p, StartCycle(p) \/ Crash(p) PROVE UNCHANGED redirect
  BY <1>7 DEF StartCycle, Crash, followVars
<1>8. ASSUME NEW n, NEW d, Edit(n, d) \/ TeammateStores(d, n) PROVE UNCHANGED redirect
  BY <1>8 DEF Edit, TeammateStores, followVars
<1> QED BY <1>1, <1>2, <1>3, <1>4, <1>5, <1>6, <1>7, <1>8 DEF Next, Proc

LEMMA AcyclicStep == TypeInv /\ Acyclic /\ [Next]_vars => Acyclic'
<1> SUFFICES ASSUME TypeInv, Acyclic, [Next]_vars, NEW S \in SUBSET Name, S # {}
             PROVE  \E n \in S : redirect'[n] \notin S
  BY DEF Acyclic
<1>0. redirect \in [Name -> Name \cup {Nowhere}] /\ Nowhere \notin S /\ \E n \in S : redirect[n] \notin S
  BY Names DEF TypeInv, FollowOK, Acyclic
<1>1. CASE UNCHANGED redirect
  BY <1>0, <1>1
<1>2. ASSUME NEW p, NEW pc, NEW next, ClearRedirect(p, pc, next) PROVE \E n \in S : redirect'[n] \notin S
  <2>1. redirect' = [redirect EXCEPT ![at[p].name] = Nowhere]
    BY <1>2 DEF ClearRedirect
  <2> QED BY <1>0, <2>1
<1>3. ASSUME NEW p \in Proc, MergeRedirect(p) PROVE \E n \in S : redirect'[n] \notin S
  <2> DEFINE f == at[p].name
             t == at[p].into
  <2>1. f \in Name /\ t \in Name /\ f # t
    BY <1>3, AtPlace, Merges DEF MergeRedirect, At
  <2>2. redirect' = [redirect EXCEPT ![f] = t, ![t] = Nowhere]
    BY <1>3 DEF MergeRedirect, AddRedirect
  <2> HIDE DEF f, t
  <2>3. CASE t \in S
    BY <1>0, <2>1, <2>2, <2>3
  <2>4. CASE t \notin S
    BY <1>0, <2>1, <2>2, <2>4
  <2> QED BY <2>3, <2>4
<1>4. CASE UNCHANGED vars
  BY <1>1, <1>4 DEF vars, followVars
<1> QED BY <1>1, <1>2, <1>3, <1>4, RedirectSteps

LEMMA TypedForever == Spec => [](TypeInv /\ Acyclic)
<1>1. Init => TypeInv /\ Acyclic
  BY TypeInit, AcyclicInit
<1>2. TypeInv /\ Acyclic /\ [Next]_vars => (TypeInv /\ Acyclic)'
  BY TypeStep, AcyclicStep
<1> QED BY <1>1, <1>2, PTL DEF Spec

\* The state is well formed, and a write naming a collection merged away lands
\* in one that was not (resolveCollectionRedirect, addCollectionRedirect).
THEOREM RedirectsResolve == Spec => []Consistent
<1>1. TypeInv => TypeOK
  BY DEF TypeInv, StoreOK, FollowOK, TasksOK, TypeOK
<1>2. TypeInv /\ Acyclic => Consistent
  BY <1>1, AcyclicEnds DEF TypeInv, Consistent
<1> QED BY <1>2, TypedForever, PTL

-----------------------------------------------------------------------------
LEMMA AwayInit == Init => KeptAway
BY Revisions DEF Init, KeptAway, AwayOK, Idle

\* A process's own step, when nothing is followed again.
LEMMA AwayMoves ==
  ASSUME TypeInv, KeptAway, NEW p \in Proc, NEW r \in Task, Work(p, r), AwayOK(r),
         Unfollowed \subseteq Unfollowed'
  PROVE  KeptAway'
<1>1. at \in [Proc -> Task]
  BY DEF TypeInv, TasksOK
<1>2. at'[p] = r /\ \A q \in Proc : q # p => at'[q] = at[q]
  BY <1>1, Works
<1>3. \A t : AwayOK(t) => t.away \subseteq Unfollowed' /\ t.away \cap Heading(t) = {}
  BY DEF AwayOK
<1> HIDE DEF Unfollowed
<1>4. \A q \in Proc : AwayOK(at'[q])
  BY <1>2 DEF KeptAway
<1> QED BY <1>3, <1>4 DEF KeptAway, AwayOK

\* A name is followed again, and nobody keeps away from it any more.
LEMMA AwayWanted ==
  ASSUME TypeInv, KeptAway, NEW p \in Proc, NEW n, NEW r \in Task, Wanted(p, n, r),
         AwayOK(r), Unfollowed \ {n} \subseteq Unfollowed'
  PROVE  KeptAway'
<1>1. at \in [Proc -> Task]
  BY DEF TypeInv, TasksOK
<1> DEFINE w(t) == [t EXCEPT !.away = @ \ {n}]
<1>2. at'[p] = w(r) /\ \A q \in Proc : q # p => at'[q] = w(at[q])
  BY <1>1, Wants
<1>3. ASSUME NEW t \in Task, AwayOK(t)
      PROVE  w(t).away \subseteq Unfollowed' /\ w(t).away \cap Heading(w(t)) = {}
  <2>1. w(t).away = t.away \ {n} /\ Heading(w(t)) = Heading(t)
    BY AwayOnly DEF Heading
  <2> HIDE DEF w
  <2> QED BY <1>3, <2>1 DEF AwayOK
<1> HIDE DEF w
<1>4. \A q \in Proc : at'[q].away \subseteq Unfollowed' /\ at'[q].away \cap Heading(at'[q]) = {}
  BY <1>1, <1>2, <1>3 DEF KeptAway
<1> QED BY <1>4 DEF KeptAway, AwayOK

LEMMA AwayIdle == AwayOK(Idle)
BY DEF AwayOK, Idle

\* A task that moves on as it was, to nothing new.
LEMMA AwayOn ==
  ASSUME TypeInv, KeptAway, NEW p \in Proc, NEW r, r.away = at[p].away, Heading(r) \subseteq Heading(at[p])
  PROVE  AwayOK(r)
BY DEF KeptAway, AwayOK

\* What a process begins with.
LEMMA AwayBegins ==
  ASSUME TypeInv, KeptAway, NEW p \in Proc, NEW r, TaskOK(r), r.start = 0, NEW ns, Begin(p, r, ns),
         Heading(r) \cap Unfollowed \subseteq ns, Unfollowed' = Unfollowed
  PROVE  KeptAway'
<1>1. PICK t : TaskOK(t) /\ Work(p, t) /\ t = [r EXCEPT !.away = Unfollowed \ ns]
  BY Begins
<1>2. r \in Task /\ t \in Task
  BY <1>1 DEF TaskOK
<1>3. t.away = Unfollowed \ ns /\ Heading(t) = Heading(r)
  BY <1>1, <1>2 DEF Task, Heading
<1>4. AwayOK(t)
  BY <1>3 DEF AwayOK
<1> QED BY <1>1, <1>2, <1>4, AwayMoves

LEMMA SameUnfollowed == UNCHANGED <<left, redirect>> => Unfollowed' = Unfollowed
BY DEF Unfollowed

LEMMA AwayCreating ==
  ASSUME TypeInv, TypeInv', KeptAway, NEW p \in Proc, Creating(p)
  PROVE  KeptAway'
<1>0. at[p] \in Task
  BY AtPlace
<1>1. ASSUME NEW n \in Name, Create(p, n) PROVE KeptAway'
  <2> DEFINE r == [Idle EXCEPT !.pc = "uncreate", !.op = "create", !.name = n]
  <2>1. TaskOK(r) /\ r.start = 0
    BY Revisions DEF TaskOK, OnItsWay, Task, PC, Op, Idle
  <2>2. Heading(r) \subseteq {n}
    BY DEF Heading, Idle, EachOf
  <2>3. Begin(p, r, {n}) /\ Unfollowed' = Unfollowed
    BY <1>1, SameUnfollowed DEF Create, followVars
  <2> QED BY <2>1, <2>2, <2>3, AwayBegins
<1>2. CASE ClearRedirect(p, "uncreate", "rejoin")
  <2> DEFINE r == [at[p] EXCEPT !.pc = "rejoin"]
  <2>1. r \in Task /\ AwayOK(r)
    BY <1>0, <1>2, AwayOn DEF Task, PC, Heading, EachOf, ClearRedirect, At
  <2>2. Wanted(p, at[p].name, r) /\ Unfollowed \ {at[p].name} \subseteq Unfollowed'
    BY <1>2 DEF ClearRedirect, Unfollowed, TypeInv, FollowOK
  <2> QED BY <2>1, <2>2, AwayWanted
<1>3. CASE Rejoin(p)
  <2> DEFINE s == [at[p] EXCEPT !.pc = "resubscribe"]
             r == IF at[p].name \in left THEN s ELSE Idle
  <2>1. s \in Task /\ AwayOK(s)
    BY <1>0, <1>3, AwayOn DEF Task, PC, Heading, EachOf, Rejoin, At
  <2>2. r \in Task /\ AwayOK(r)
    BY <2>1, AwayIdle, Revisions
  <2>3. Wanted(p, at[p].name, r) /\ Unfollowed \ {at[p].name} \subseteq Unfollowed'
    BY <1>3 DEF Rejoin, Unfollowed
  <2> QED BY <2>2, <2>3, AwayWanted
<1>4. CASE Subscribes(p, "resubscribe", {at[p].name}, [at[p] EXCEPT !.pc = "backfill"])
  <2> DEFINE r == [at[p] EXCEPT !.pc = "backfill"]
  <2>1. r \in Task /\ AwayOK(r)
    BY <1>0, <1>4, AwayOn DEF Task, PC, Heading, EachOf, Subscribes, At
  <2>2. Work(p, r) /\ Unfollowed' = Unfollowed
    BY <1>4, SameUnfollowed DEF Subscribes
  <2> QED BY <2>1, <2>2, AwayMoves
<1>5. CASE MarkBackfill(p)
  <2>1. Work(p, Idle) /\ Unfollowed' = Unfollowed
    BY <1>5, SameUnfollowed DEF MarkBackfill
  <2> QED BY <2>1, AwayIdle, Revisions, AwayMoves
<1> QED BY <1>1, <1>2, <1>3, <1>4, <1>5 DEF Creating

\* A step that changes a task only, in what Heading does not look at.
LEMMA AwayThen ==
  ASSUME TypeInv, KeptAway, NEW p \in Proc, NEW r \in Task, Work(p, r),
         r.away = at[p].away, r.op = at[p].op, r.name = at[p].name, r.into = at[p].into,
         r.whole = at[p].whole,
         r.pc \notin {"unredirect", "unleave", "make", "subFetch", "subApply", "autoAdd", "recoverAdd"},
         r.pc \notin EachOf, UNCHANGED <<left, redirect>>
  PROVE  KeptAway'
<1>1. Heading(r) \subseteq Heading(at[p])
  BY DEF Heading
<1> QED BY <1>1, AwayOn, AwayMoves, SameUnfollowed

LEMMA AwayEnds ==
  ASSUME TypeInv, KeptAway, NEW p \in Proc, Work(p, Idle), UNCHANGED <<left, redirect>>
  PROVE  KeptAway'
BY AwayIdle, Revisions, AwayMoves, SameUnfollowed

LEMMA AwayFresh ==
  ASSUME TypeInv, KeptAway, NEW p \in Proc, at[p].op \in {"subscribe", "cycle"},
         NEW pc \in PC, pc \notin {"unredirect", "unleave", "make", "subFetch", "subApply", "autoAdd", "recoverAdd"},
         pc \notin EachOf
  PROVE  Fresh(p, pc) \in Task /\ AwayOK(Fresh(p, pc)) /\ Fresh(p, pc).away = at[p].away /\ Fresh(p, pc).op = at[p].op
         /\ Fresh(p, pc).pc = pc /\ Fresh(p, pc).todo = {}
<1>1. at[p].op \in Op /\ at[p].away \subseteq Name
  BY AtPlace DEF Task
<1>2. /\ Fresh(p, pc) \in Task /\ Fresh(p, pc).op = at[p].op /\ Fresh(p, pc).pc = pc
      /\ Fresh(p, pc).away = at[p].away /\ Fresh(p, pc).todo = {}
  BY <1>1, Revisions DEF Fresh, Task, Idle
<1>3. Heading(Fresh(p, pc)) = {}
  BY <1>2 DEF Heading
<1> QED BY <1>2, <1>3, AwayOn

LEMMA AwaySubscribing ==
  ASSUME TypeInv, TypeInv', KeptAway, NEW p \in Proc, Subscribing(p)
  PROVE  KeptAway'
<1>0. at[p] \in Task
  BY AtPlace
<1>1. ASSUME NEW n \in Name, Subscribe(p, n) PROVE KeptAway'
  <2> DEFINE r == [Idle EXCEPT !.pc = "unredirect", !.op = "subscribe", !.name = n, !.whole = {n}]
  <2>1. TaskOK(r) /\ r.start = 0
    BY Revisions DEF TaskOK, OnItsWay, Task, PC, Op, Idle
  <2>2. Heading(r) \subseteq {n}
    BY DEF Heading, Idle, EachOf
  <2>3. Begin(p, r, {n}) /\ Unfollowed' = Unfollowed
    BY <1>1, SameUnfollowed DEF Subscribe
  <2> QED BY <2>1, <2>2, <2>3, AwayBegins
<1>2. ASSUME NEW n \in Name, Unsubscribe(p, n) PROVE KeptAway'
  <2>1. UNCHANGED at /\ Unfollowed' = Unfollowed
    BY <1>2, SameUnfollowed DEF Unsubscribe
  <2> QED BY <2>1 DEF KeptAway, AwayOK
<1>3. CASE ClearRedirect(p, "unredirect", "unleave")
  <2> DEFINE r == [at[p] EXCEPT !.pc = "unleave"]
  <2>1. r \in Task /\ AwayOK(r)
    BY <1>0, <1>3, AwayOn DEF Task, PC, Heading, EachOf, ClearRedirect, At
  <2>2. Wanted(p, at[p].name, r) /\ Unfollowed \ {at[p].name} \subseteq Unfollowed'
    BY <1>3 DEF ClearRedirect, Unfollowed, TypeInv, FollowOK
  <2> QED BY <2>1, <2>2, AwayWanted
<1>4. CASE ClearLeft(p)
  <2> DEFINE r == [at[p] EXCEPT !.pc = "make"]
  <2>1. r \in Task /\ AwayOK(r)
    BY <1>0, <1>4, AwayOn DEF Task, PC, Heading, EachOf, ClearLeft, At
  <2>2. Wanted(p, at[p].name, r) /\ Unfollowed \ {at[p].name} \subseteq Unfollowed'
    BY <1>4 DEF ClearLeft, Unfollowed
  <2> QED BY <2>1, <2>2, AwayWanted
<1>5. CASE Make(p)
  <2> DEFINE pc == IF p \in Plugin THEN "subCycle" ELSE "subFetch"
             r == [at[p] EXCEPT !.pc = pc]
  <2>1. pc \in {"subCycle", "subFetch"} /\ at[p].pc = "make"
    BY <1>5 DEF Make, At
  <2>2. Work(p, r) /\ Unfollowed' = Unfollowed
    BY <1>5, SameUnfollowed DEF Make, Then, followVars
  <2> HIDE DEF pc
  <2>3. r \in Task /\ AwayOK(r)
    BY <1>0, <2>1, AwayOn DEF Task, PC, Heading, EachOf
  <2> QED BY <2>2, <2>3, AwayMoves
<1>6. CASE SubscribePull(p)
  <2>1. CASE Fetch(p, "subFetch", "subApply", FALSE)
    <3> DEFINE s == Feed(at[p].name, Since(p), FALSE)
               r == [at[p] EXCEPT !.pc = "subApply", !.sent = s]
    <3>1. s \in Revs
      BY FeedTyped
    <3>2. Work(p, r) /\ Unfollowed' = Unfollowed /\ at[p].pc = "subFetch"
      BY <2>1, SameUnfollowed DEF Fetch, followVars, At
    <3> HIDE DEF s
    <3>3. r \in Task /\ AwayOK(r)
      BY <1>0, <3>1, <3>2, AwayOn DEF Task, PC, Heading, EachOf
    <3> QED BY <3>2, <3>3, AwayMoves
  <2>2. CASE Fails(p, {"subFetch"}, [at[p] EXCEPT !.pc = "subCycle"])
    <3> DEFINE r == [at[p] EXCEPT !.pc = "subCycle"]
    <3>1. r \in Task /\ AwayOK(r)
      BY <1>0, <2>2, AwayOn DEF Task, PC, Heading, EachOf, Fails
    <3> QED BY <2>2, <3>1, AwayMoves, SameUnfollowed DEF Fails, followVars
  <2>3. CASE Apply(p, "subApply", [at[p] EXCEPT !.pc = "subCycle"])
    <3> DEFINE r == [[at[p] EXCEPT !.pc = "subCycle"] EXCEPT !.sent = NoDocs]
    <3>1. r \in Task /\ AwayOK(r)
      BY <1>0, <2>3, AwayOn, Revisions DEF Task, PC, Heading, EachOf, Apply, ApplyPage, At
    <3>2. Work(p, r)
      BY <2>3 DEF Apply, ApplyPage
    <3> QED BY <2>3, <3>1, <3>2, AwayMoves, SameUnfollowed DEF Apply, ApplyPage, followVars
  <2> QED BY <1>6, <2>1, <2>2, <2>3 DEF SubscribePull
<1>7. CASE SubscribeCycle(p)
  <2>1. at[p].pc = "subCycle" /\ UNCHANGED <<left, redirect>> /\ (Work(p, Fresh(p, "deletes")) \/ Work(p, Idle))
    BY <1>7 DEF SubscribeCycle, At, followVars
  <2>2. at[p].op \in {"subscribe", "cycle"}
    BY <2>1, AtPlace DEF TaskOK, OnItsWay, Task, Op, Pushing, Pulling
  <2>3. Fresh(p, "deletes") \in Task /\ AwayOK(Fresh(p, "deletes"))
    BY <2>2, AwayFresh DEF PC, EachOf
  <2> QED BY <2>1, <2>3, AwayMoves, AwayEnds, SameUnfollowed
<1> QED BY <1>1, <1>2, <1>3, <1>4, <1>5, <1>6, <1>7 DEF Subscribing

LEMMA AwayRemoving ==
  ASSUME TypeInv, TypeInv', KeptAway, NEW p \in Proc, Removing(p)
  PROVE  KeptAway'
<1>0. at[p] \in Task /\ at[p].name \in Name \cup {Nowhere} /\ at'[p] \in Task
  BY AtPlace DEF Task, TypeInv, TasksOK
<1>1. ASSUME NEW n \in Name, NEW all \in BOOLEAN, NEW sure \in BOOLEAN, Remove(p, n, all, sure)
      PROVE  KeptAway'
  <2> DEFINE pc == IF all THEN "queueAll" ELSE IF Pushable(n) = {} THEN "unfollow" ELSE "removePush"
             op == IF all THEN "removeAll" ELSE "remove"
             r == [Idle EXCEPT !.pc = pc, !.op = op, !.sure = sure,
                               !.name = n, !.docs = copy[n], !.ids = Pushable(n)]
  <2>1. copy[n] \in Revs /\ Pushable(n) \subseteq Doc
    BY StoreFacts DEF Pushable, Dirty
  <2>2. /\ pc \in PC /\ op \in {"remove", "removeAll"} /\ pc \in {"queueAll", "unfollow", "removePush"}
        /\ OnItsWay(op, pc) /\ pc \notin Nameless
    BY DEF PC, OnItsWay, Nameless
  <2> HIDE DEF pc, op
  <2>3. TaskOK(r) /\ r.start = 0
    BY <2>1, <2>2, Revisions DEF Task, TaskOK, Idle, Op
  <2>4. Heading(r) = {}
    BY <2>2 DEF Heading, Idle, EachOf
  <2>5. Begin(p, r, {}) /\ Unfollowed' = Unfollowed
    BY <1>1, SameUnfollowed DEF Remove, followVars, pc, op
  <2> HIDE DEF r
  <2> QED BY <2>3, <2>4, <2>5, AwayBegins
<1>2. CASE QueueAll(p)
  <2>1. Work(p, [at[p] EXCEPT !.pc = "unfollow"]) /\ UNCHANGED <<left, redirect>>
    BY <1>2 DEF QueueAll, Then, followVars
  <2> QED BY <1>0, <2>1, AwayThen DEF Task, PC, EachOf
<1>3. CASE RemovePush(p)
  <2> DEFINE sent == Unsent(at[p].name, at[p].ids)
  <2>1. Work(p, [at[p] EXCEPT !.pc = "removeSettle", !.sent = sent]) /\ UNCHANGED <<left, redirect>>
    BY <1>3 DEF RemovePush, followVars
  <2>2. sent \in Revs
    BY <1>3, AtPlace, UnsentTyped DEF RemovePush, At, Nameless
  <2> HIDE DEF sent
  <2> DEFINE r == [at[p] EXCEPT !.pc = "removeSettle", !.sent = sent]
  <2>3. /\ r \in Task /\ r.pc = "removeSettle" /\ r.away = at[p].away /\ r.op = at[p].op
        /\ r.name = at[p].name /\ r.into = at[p].into /\ r.whole = at[p].whole
    BY <1>0, <2>2 DEF Task, PC
  <2>4. Work(p, r)
    BY <2>1
  <2> HIDE DEF r
  <2> QED BY <2>1, <2>3, <2>4, AwayThen DEF EachOf
<1>4. CASE RemovePushFails(p)
  <2>1. (Work(p, [at[p] EXCEPT !.pc = "unfollow"]) \/ Work(p, Idle)) /\ UNCHANGED <<left, redirect>>
    BY <1>4 DEF RemovePushFails, Then, followVars
  <2>2. CASE Work(p, [at[p] EXCEPT !.pc = "unfollow"])
    BY <1>0, <2>1, <2>2, AwayThen DEF Task, PC, EachOf
  <2> QED BY <2>1, <2>2, AwayEnds
<1>5. CASE RemoveSettle(p)
  <2> DEFINE ds == [d \in Doc |-> IF d \in at[p].ids THEN copy[at[p].name][d] ELSE at[p].docs[d]]
             r == [at[p] EXCEPT !.pc = "unfollow", !.sent = NoDocs, !.docs = ds]
  <2>1. (Work(p, r) \/ Work(p, Idle)) /\ UNCHANGED <<left, redirect>>
    BY <1>5 DEF RemoveSettle, followVars
  <2>2. at[p].name \in Name
    BY <1>5, AtPlace DEF RemoveSettle, At, Nameless
  <2>3. ds \in Revs
    <3>1. \A d \in Doc : copy[at[p].name][d] \in Nat /\ at[p].docs[d] \in Nat
      BY <2>2, AtPlace, StoreFacts DEF Revs
    <3> QED BY <3>1 DEF Revs
  <2> HIDE DEF ds
  <2>4. CASE Work(p, r)
    <3>1. /\ r \in Task /\ r.pc = "unfollow" /\ r.away = at[p].away /\ r.op = at[p].op /\ r.name = at[p].name
          /\ r.into = at[p].into /\ r.whole = at[p].whole
      BY <1>0, <2>3, Revisions DEF Task, PC
    <3> HIDE DEF r
    <3> QED BY <2>1, <2>4, <3>1, AwayThen DEF EachOf
  <2> QED BY <2>1, <2>4, AwayEnds
<1>6. CASE Unfollow(p)
  <2> DEFINE pc == IF at[p].op = "remove" THEN "leave" ELSE "drop"
  <2>1. Work(p, [at[p] EXCEPT !.pc = pc]) /\ UNCHANGED <<left, redirect>> /\ pc \in {"leave", "drop"}
    BY <1>6 DEF Unfollow, Then
  <2> HIDE DEF pc
  <2> QED BY <1>0, <2>1, AwayThen DEF Task, PC, EachOf
<1>7. CASE Leave(p)
  <2> DEFINE r == [at[p] EXCEPT !.pc = "drop"]
  <2>1. Work(p, r) /\ Unfollowed \subseteq Unfollowed'
    BY <1>7 DEF Leave, Then, Unfollowed
  <2>2. r \in Task /\ AwayOK(r)
    BY <1>0, AwayOn DEF Task, PC, Heading, EachOf
  <2> QED BY <2>1, <2>2, AwayMoves
<1>8. CASE Drop(p)
  <2>1. (Work(p, [at[p] EXCEPT !.pc = "redirect"]) \/ Work(p, Idle)) /\ UNCHANGED <<left, redirect>>
    BY <1>8 DEF Drop, Then, followVars
  <2>2. CASE Work(p, [at[p] EXCEPT !.pc = "redirect"])
    BY <1>0, <2>1, <2>2, AwayThen DEF Task, PC, EachOf
  <2> QED BY <2>1, <2>2, AwayEnds
<1> QED BY <1>1, <1>2, <1>3, <1>4, <1>5, <1>6, <1>7, <1>8 DEF Removing

LEMMA AwayMerging ==
  ASSUME TypeInv, TypeInv', KeptAway, NEW p \in Proc, Merging(p)
  PROVE  KeptAway'
<1>0. at[p] \in Task
  BY AtPlace
<1>1. ASSUME NEW from \in Name, NEW into \in Name, Merge(p, from, into) PROVE KeptAway'
  <2> DEFINE pc == IF In(from) = {} THEN "mergeRemove" ELSE "mergeCopy"
             sent == Unsent(from, Doc)
             r == [Idle EXCEPT !.pc = pc, !.op = "merge", !.name = from, !.into = into, !.docs = copy[from],
                               !.sent = sent]
  <2>1. pc \in PC /\ OnItsWay("merge", pc) /\ pc \in {"mergeRemove", "mergeCopy"} /\ from # into
    BY <1>1 DEF PC, OnItsWay, Merge
  <2>2. copy[from] \in Revs /\ sent \in Revs
    BY UnsentTyped DEF TypeInv, StoreOK
  <2> HIDE DEF pc, sent
  <2>3. TaskOK(r) /\ r.start = 0
    BY <2>1, <2>2, Revisions DEF Task, TaskOK, Idle, Op
  <2>4. Heading(r) \subseteq {into}
    BY <2>1 DEF Heading, Idle, EachOf
  <2>5. Begin(p, r, {into}) /\ Unfollowed' = Unfollowed
    BY <1>1, SameUnfollowed DEF Merge, followVars, pc, sent
  <2> HIDE DEF r
  <2> QED BY <2>3, <2>4, <2>5, AwayBegins
<1>2. CASE MergeCopy(p)
  <2> DEFINE r == [at[p] EXCEPT !.pc = "mergeVerify", !.ids = In(at[p].into)]
  <2>1. Work(p, r) /\ UNCHANGED <<left, redirect>>
    BY <1>2 DEF MergeCopy, followVars
  <2>2. /\ r \in Task /\ r.pc = "mergeVerify" /\ r.away = at[p].away /\ r.op = at[p].op /\ r.name = at[p].name
        /\ r.into = at[p].into /\ r.whole = at[p].whole
    BY <1>0 DEF Task, PC, In
  <2> HIDE DEF r
  <2> QED BY <2>1, <2>2, AwayThen DEF EachOf
<1>3. CASE MergeVerify(p)
  <2> DEFINE r == [at[p] EXCEPT !.pc = "mergeMove", !.ids = Moved(p)]
  <2>1. (Work(p, r) \/ Work(p, Idle)) /\ UNCHANGED <<left, redirect>>
    BY <1>3 DEF MergeVerify, followVars
  <2>2. /\ r \in Task /\ r.pc = "mergeMove" /\ r.away = at[p].away /\ r.op = at[p].op /\ r.name = at[p].name
        /\ r.into = at[p].into /\ r.whole = at[p].whole
    BY <1>0 DEF Task, PC, Moved
  <2> HIDE DEF r
  <2> QED BY <2>1, <2>2, AwayThen, AwayEnds DEF EachOf
<1>4. ASSUME NEW d \in Doc, MergeMove(p, d) PROVE KeptAway'
  <2> DEFINE pc == IF at[p].ids = {d} THEN "mergeCheck" ELSE at[p].pc
             r == [at[p] EXCEPT !.ids = @ \ {d}, !.pc = pc]
  <2>1. Work(p, r) /\ UNCHANGED <<left, redirect>> /\ pc \in {"mergeCheck", "mergeMove"}
    BY <1>4 DEF MergeMove, followVars, At
  <2> HIDE DEF pc
  <2>2. /\ r \in Task /\ r.pc = pc /\ r.away = at[p].away /\ r.op = at[p].op /\ r.name = at[p].name
        /\ r.into = at[p].into /\ r.whole = at[p].whole
    BY <1>0, <2>1 DEF Task, PC
  <2> HIDE DEF r
  <2> QED BY <2>1, <2>2, AwayThen DEF EachOf
<1>5. CASE MergeCheck(p)
  <2>1. (Work(p, [at[p] EXCEPT !.pc = "mergeRemove"]) \/ Work(p, Idle)) /\ UNCHANGED <<left, redirect>>
    BY <1>5 DEF MergeCheck, Then, followVars
  <2>2. CASE Work(p, [at[p] EXCEPT !.pc = "mergeRemove"])
    BY <1>0, <2>1, <2>2, AwayThen DEF Task, PC, EachOf
  <2> QED BY <2>1, <2>2, AwayEnds
<1>6. CASE MergeRemove(p)
  <2>1. Work(p, [at[p] EXCEPT !.pc = "unfollow"]) /\ UNCHANGED <<left, redirect>>
    BY <1>6 DEF MergeRemove, Then, followVars
  <2> QED BY <1>0, <2>1, AwayThen DEF Task, PC, EachOf
<1>7. CASE MergeRedirect(p)
  <2>1. at[p].name \in Name /\ at[p].into \in Name /\ at[p].name # at[p].into /\ Nowhere \notin Name
    BY <1>7, AtPlace, Merges, Names DEF MergeRedirect, At
  <2>2. Wanted(p, at[p].into, Idle) /\ Unfollowed \ {at[p].into} \subseteq Unfollowed'
    BY <1>7, <2>1 DEF MergeRedirect, AddRedirect, Unfollowed, TypeInv, FollowOK
  <2> QED BY <2>1, <2>2, AwayIdle, Revisions, AwayWanted
<1> QED BY <1>1, <1>2, <1>3, <1>4, <1>5, <1>6, <1>7 DEF Merging

LEMMA AwayWriting ==
  ASSUME TypeInv, TypeInv', Acyclic, KeptAway, NEW p \in Proc, Writing(p)
  PROVE  KeptAway'
<1>1. ASSUME NEW n \in Name, Write(p, n) PROVE KeptAway'
  <2> DEFINE t == Resolve(n)
             r == [Idle EXCEPT !.pc = "add", !.op = "write", !.name = t]
  <2>1. t \in Name /\ redirect[t] = Nowhere /\ t \notin left
    BY <1>1, ResolveTyped, AcyclicEnds DEF Write, TypeInv, RedirectsEnd
  <2>2. Begin(p, r, {}) /\ UNCHANGED <<left, redirect>>
    BY <1>1 DEF Write, followVars
  <2> HIDE DEF t
  <2>3. TaskOK(r) /\ r.start = 0
    <3>1. t \in Name
      BY <2>1
    <3> QED BY <3>1, Revisions DEF TaskOK, OnItsWay, Task, PC, Op, Idle
  <2>4. Heading(r) \subseteq {t} /\ t \notin Unfollowed
    BY <2>1 DEF Heading, Idle, EachOf, Unfollowed
  <2> QED BY <2>2, <2>3, <2>4, AwayBegins, SameUnfollowed
<1>2. ASSUME NEW d \in Doc, Add(p, d) PROVE KeptAway'
  BY <1>2, AwayEnds DEF Add, followVars
<1> QED BY <1>1, <1>2 DEF Writing

\* Pushes and pulls, whose operation names no collection.
LEMMA AwayCycle ==
  ASSUME TypeInv, KeptAway, NEW p \in Proc, at[p].pc \in Pushing \cup Pulling, NEW r \in Task, Work(p, r),
         r.away = at[p].away, r.op = at[p].op, r.pc \in Pushing \cup Pulling,
         r.pc \in {"autoAdd", "recoverAdd"} => r.all \cap at[p].away = {},
         r.pc \in EachOf => r.todo \cap at[p].away = {},
         r.pc \in EachOf \ {"each"} => r.name \notin at[p].away,
         UNCHANGED <<left, redirect>>
  PROVE  KeptAway'
<1>1. r.op \in {"subscribe", "cycle"}
  BY AtPlace, CyclesOn
<1>2. r.pc \notin {"unredirect", "unleave", "make", "subFetch", "subApply"}
  BY DEF Pushing, Pulling
<1>3. r.away \cap Heading(r) = {}
  BY <1>1, <1>2 DEF Heading
<1>4. AwayOK(r)
  BY <1>3 DEF AwayOK, KeptAway
<1> QED BY <1>4, AwayMoves, SameUnfollowed

LEMMA AwaySkips ==
  ASSUME TypeInv, KeptAway, NEW p \in Proc, at[p].pc = "send", NEW n, NEW u \in Skips(p, n), Work(p, u),
         UNCHANGED <<left, redirect>>
  PROVE  KeptAway'
<1>1. u \in Task /\ u.pc \in {"autoRead", "send"} /\ u.op = at[p].op /\ u.away = at[p].away
  BY SkipTask DEF TaskOK
<1> QED BY <1>1, AwayCycle DEF EachOf, Pushing

LEMMA AwayPush ==
  ASSUME TypeInv, TypeInv', KeptAway, NEW p \in Proc, Push(p)
  PROVE  KeptAway'
<1> DEFINE t(pc) == [at[p] EXCEPT !.pc = pc]
<1>0. at[p] \in Task /\ at[p].away \subseteq Unfollowed
  BY AtPlace DEF KeptAway, AwayOK
<1>t. ASSUME NEW pc \in {"pull", "list", "autoRead"}, at[p].pc \in Pushing, Work(p, t(pc)), UNCHANGED <<left, redirect>>
      PROVE  KeptAway'
  <2>1. t(pc) \in Task /\ t(pc).away = at[p].away /\ t(pc).op = at[p].op /\ t(pc).pc = pc
    BY <1>0 DEF Task, PC
  <2>2. pc \in Pushing \cup Pulling /\ pc \notin EachOf /\ pc \notin {"autoAdd", "recoverAdd"}
    BY DEF Pushing, Pulling, EachOf
  <2> HIDE DEF t
  <2> QED BY <1>t, <2>1, <2>2, AwayCycle
<1> HIDE DEF t
<1>1. CASE PushDeletes(p)
  BY <1>1, <1>t DEF PushDeletes, At, Pushing, Then, followVars, t
<1>2. CASE PushDeletesFails(p)
  BY <1>2, <1>t DEF PushDeletesFails, Fails, Pushing, followVars, t
<1>3. CASE ListCollections(p)
  <2> DEFINE r == [at[p] EXCEPT !.pc = "send", !.todo = here]
  <2>1. r \in Task /\ r.away = at[p].away /\ r.op = at[p].op /\ r.pc = "send"
    BY <1>0, StoreFacts DEF Task, PC
  <2>2. at[p].pc \in Pushing \cup Pulling /\ Work(p, r) /\ UNCHANGED <<left, redirect>>
    BY <1>3 DEF ListCollections, At, Pushing, followVars
  <2> HIDE DEF r
  <2> QED BY <2>1, <2>2, AwayCycle DEF EachOf, Pushing
<1>4. ASSUME NEW n \in Name, Send(p, n) PROVE KeptAway'
  <2> DEFINE sent == Unsent(n, Doc)
             r == [at[p] EXCEPT !.pc = "settle", !.name = n, !.sent = sent, !.todo = @ \ {n}]
  <2>1. /\ at[p].pc \in Pushing /\ at[p].pc = "send" /\ UNCHANGED <<left, redirect>>
        /\ Work(p, r) \/ \E u \in Skips(p, n) : Work(p, u)
    BY <1>4 DEF Send, At, Pushing, followVars
  <2>2. sent \in Revs
    BY UnsentTyped
  <2> HIDE DEF sent
  <2>3. r \in Task /\ r.away = at[p].away /\ r.op = at[p].op /\ r.pc = "settle"
    BY <1>0, <2>2 DEF Task, PC
  <2> HIDE DEF r
  <2>4. CASE Work(p, r)
    BY <2>1, <2>3, <2>4, AwayCycle DEF EachOf, Pushing
  <2> QED BY <2>1, <2>4, AwaySkips
<1>5. CASE SendFails(p)
  BY <1>5, AwaySkips DEF SendFails, Fails, followVars
<1>6. CASE PushSettle(p)
  <2> DEFINE n == at[p].name
             all == IF Accepted(Settled(n, at[p].sent)) = {} THEN at[p].all ELSE at[p].all \cup {n}
             r == [at[p] EXCEPT !.pc = "send", !.sent = NoDocs, !.name = Nowhere, !.all = all]
  <2>1. at[p].pc = "settle" /\ Work(p, r) /\ UNCHANGED <<left, redirect>>
    BY <1>6 DEF PushSettle, At, followVars
  <2>2. all \subseteq Name
    BY <2>1, AtPlace DEF Task, Nameless
  <2> HIDE DEF all
  <2>3. r \in Task /\ r.away = at[p].away /\ r.op = at[p].op /\ r.pc = "send"
    BY <1>0, <2>2, Revisions DEF Task, PC
  <2> HIDE DEF r
  <2> QED BY <2>1, <2>3, AwayCycle DEF EachOf, Pushing
<1>7. CASE SendDone(p)
  BY <1>7, <1>t DEF SendDone, At, Pushing, Then, followVars, t
<1>8. CASE AutoSubscribe(p)
  <2> DEFINE ns == AutoSubscribes(p)
             r == [Fresh(p, "autoAdd") EXCEPT !.all = ns]
  <2>1. at[p].pc \in Pushing /\ UNCHANGED <<left, redirect>> /\ (Work(p, r) \/ Work(p, Fresh(p, "pull")))
    BY <1>8 DEF AutoSubscribe, At, Pushing, followVars
  <2>2. ns \subseteq Name /\ ns \cap at[p].away = {}
    BY <1>0 DEF AutoSubscribes, Task
  <2>3. at[p].op \in Op
    BY <1>0 DEF Task
  <2>4. \A pc \in {"pull", "autoAdd"} :
          /\ Fresh(p, pc) \in Task /\ Fresh(p, pc).away = at[p].away /\ Fresh(p, pc).op = at[p].op
          /\ Fresh(p, pc).pc = pc
    BY <2>1, AtPlace, CyclesOn, CycleNames, FreshOK DEF TaskOK
  <2> HIDE DEF ns
  <2>5. r \in Task /\ r.away = at[p].away /\ r.op = at[p].op /\ r.pc = "autoAdd" /\ r.all = ns
    BY <2>2, <2>4 DEF Task
  <2> HIDE DEF r
  <2>6. CASE Work(p, r)
    BY <2>1, <2>2, <2>5, <2>6, AwayCycle DEF EachOf, Pushing
  <2>7. CASE Work(p, Fresh(p, "pull"))
    BY <2>1, <2>4, <2>7, AwayCycle DEF EachOf, Pulling
  <2> QED BY <2>1, <2>6, <2>7
<1>9. CASE Subscribes(p, "autoAdd", at[p].all, Fresh(p, "pull"))
  <2>1. at[p].pc \in Pushing /\ UNCHANGED <<left, redirect>> /\ Work(p, Fresh(p, "pull"))
    BY <1>9 DEF Subscribes, At, Pushing
  <2>2. /\ Fresh(p, "pull") \in Task /\ Fresh(p, "pull").away = at[p].away
        /\ Fresh(p, "pull").op = at[p].op /\ Fresh(p, "pull").pc = "pull"
    BY <1>0, Revisions DEF Fresh, Task, PC, Idle
  <2> QED BY <2>1, <2>2, AwayCycle DEF EachOf, Pulling
<1> QED BY <1>1, <1>2, <1>3, <1>4, <1>5, <1>6, <1>7, <1>8, <1>9 DEF Push, t

LEMMA AwayPull ==
  ASSUME TypeInv, TypeInv', KeptAway, NEW p \in Proc, Pull(p)
  PROVE  KeptAway'
<1>0. at[p] \in Task /\ at[p].away \subseteq Unfollowed /\ at[p].away \cap Heading(at[p]) = {}
      /\ Heading(at[p]) \subseteq Name /\ at[p].todo \subseteq Name /\ at[p].all \subseteq Name
  BY AtPlace DEF KeptAway, AwayOK, Heading, Task
<1>1. CASE StartPull(p)
  <2> DEFINE pc == IF pullPoint = 0 THEN "recover" ELSE "choose"
             r == [Fresh(p, pc) EXCEPT !.start = clock, !.from = pullPoint]
  <2>1. at[p].pc = "pull" /\ Work(p, r) /\ UNCHANGED <<left, redirect>>
    BY <1>1 DEF StartPull, At, followVars
  <2>2. clock \in Nat /\ pullPoint \in Nat /\ pc \in {"recover", "choose"}
    BY DEF TypeInv, StoreOK
  <2> HIDE DEF pc
  <2>3. /\ Fresh(p, pc) \in Task /\ Fresh(p, pc).away = at[p].away /\ Fresh(p, pc).op = at[p].op
        /\ Fresh(p, pc).pc = pc
    BY <2>1, <2>2, AtPlace, CyclesOn, CycleNames, FreshOK DEF TaskOK, Pulling
  <2>4. r \in Task /\ r.away = at[p].away /\ r.op = at[p].op /\ r.pc = pc
    BY <2>2, <2>3 DEF Task
  <2> HIDE DEF r
  <2> QED BY <2>1, <2>2, <2>4, AwayCycle DEF EachOf, Pulling
<1>2. CASE Recover(p)
  <2> DEFINE ns == OfUser \ Unfollowed
             r == [at[p] EXCEPT !.pc = "recoverAdd", !.all = ns]
  <2>1. at[p].pc = "recover" /\ Work(p, r) /\ UNCHANGED <<left, redirect>>
    BY <1>2 DEF Recover, At, followVars
  <2>2. ns \subseteq Name /\ ns \cap at[p].away = {}
    BY <1>0 DEF OfUser
  <2> HIDE DEF ns
  <2>3. r \in Task /\ r.away = at[p].away /\ r.op = at[p].op /\ r.pc = "recoverAdd" /\ r.all = ns
    BY <1>0, <2>2 DEF Task, PC
  <2> HIDE DEF r
  <2> QED BY <2>1, <2>2, <2>3, AwayCycle DEF EachOf, Pulling
<1>3. CASE Fails(p, {"recover", "fetch"}, Idle)
  BY <1>3, AwayEnds DEF Fails, followVars
<1>4. CASE Subscribes(p, "recoverAdd", at[p].all, [at[p] EXCEPT !.pc = "choose", !.all = {}])
  <2> DEFINE r == [at[p] EXCEPT !.pc = "choose", !.all = {}]
  <2>1. at[p].pc = "recoverAdd" /\ Work(p, r) /\ UNCHANGED <<left, redirect>>
    BY <1>4 DEF Subscribes, At
  <2>2. r \in Task /\ r.away = at[p].away /\ r.op = at[p].op /\ r.pc = "choose"
    BY <1>0 DEF Task, PC
  <2> HIDE DEF r
  <2> QED BY <2>1, <2>2, AwayCycle DEF EachOf, Pulling
<1>5. CASE Choose(p)
  <2> DEFINE whole == Backfills(p) \ Unfollowed
             new == (subscribed \ Unfollowed) \ here
             todo == (here \ Unfollowed) \cup new \cup (whole \cap subscribed)
             marked == pending \ Unfollowed
             r == [at[p] EXCEPT !.pc = "each", !.todo = todo, !.all = todo, !.whole = whole,
                                !.marked = marked]
  <2>1. at[p].pc = "choose" /\ Work(p, r) /\ UNCHANGED <<left, redirect>>
    BY <1>5 DEF Choose, At, followVars
  <2>2. whole \subseteq Name /\ todo \subseteq Name /\ marked \subseteq Name /\ todo \cap at[p].away = {}
    BY <1>0 DEF Backfills, TypeInv, StoreOK, FollowOK
  <2> HIDE DEF whole, new, todo, marked
  <2>3. /\ r \in Task /\ r.away = at[p].away /\ r.op = at[p].op /\ r.pc = "each" /\ r.todo = todo
        /\ r.name = at[p].name
    BY <1>0, <2>2 DEF Task, PC
  <2> HIDE DEF r
  <2> QED BY <2>1, <2>2, <2>3, AwayCycle DEF EachOf, Pulling
<1>6. ASSUME NEW n \in Name, EachCollection(p, n) PROVE KeptAway'
  <2> DEFINE next(ids) == [at[p] EXCEPT !.pc = IF ids = {} THEN "fetch" ELSE "moveDrop", !.ids = ids,
                                        !.name = n, !.todo = @ \ {n}]
  <2>0. PICK ids \in {MovedOut(p, n), {}} : Work(p, next(ids))
    BY <1>6 DEF EachCollection
  <2> DEFINE pc == IF ids = {} THEN "fetch" ELSE "moveDrop"
             r == [at[p] EXCEPT !.pc = pc, !.ids = ids, !.name = n, !.todo = @ \ {n}]
  <2>1. at[p].pc = "each" /\ n \in at[p].todo /\ Work(p, r) /\ UNCHANGED <<left, redirect>>
    BY <1>6, <2>0 DEF EachCollection, At, followVars
  <2>2. ids \subseteq Doc /\ pc \in {"fetch", "moveDrop"}
    BY DEF MovedOut, In
  <2> HIDE DEF pc
  <2>3. /\ r \in Task /\ r.away = at[p].away /\ r.op = at[p].op /\ r.pc = pc /\ r.name = n
        /\ r.todo = at[p].todo \ {n}
    BY <1>0, <2>2 DEF Task, PC
  <2>4. at[p].todo \cap at[p].away = {}
    BY <1>0, <2>1 DEF Heading, EachOf
  <2> HIDE DEF r
  <2> QED BY <2>1, <2>2, <2>3, <2>4, AwayCycle DEF EachOf, Pulling
<1>7. at[p].pc \in EachOf \ {"each"} => at[p].todo \cap at[p].away = {} /\ at[p].name \notin at[p].away
  BY <1>0, AtPlace DEF Heading, EachOf, Nameless
<1>8. CASE MoveDrop(p)
  <2> DEFINE r == [at[p] EXCEPT !.pc = "fetch", !.ids = {}]
  <2>1. at[p].pc = "moveDrop" /\ Work(p, r) /\ UNCHANGED <<left, redirect>>
    BY <1>8 DEF MoveDrop, At, followVars
  <2>2. /\ r \in Task /\ r.away = at[p].away /\ r.op = at[p].op /\ r.pc = "fetch" /\ r.name = at[p].name
        /\ r.todo = at[p].todo
    BY <1>0 DEF Task, PC
  <2> HIDE DEF r
  <2> QED BY <1>7, <2>1, <2>2, AwayCycle DEF EachOf, Pulling
<1>9. CASE Fetch(p, "fetch", "apply", Own(p))
  <2> DEFINE s == Feed(at[p].name, Since(p), Own(p))
             r == [at[p] EXCEPT !.pc = "apply", !.sent = s]
  <2>1. at[p].pc = "fetch" /\ Work(p, r) /\ UNCHANGED <<left, redirect>>
    BY <1>9 DEF Fetch, At, followVars
  <2>2. s \in Revs
    BY FeedTyped
  <2> HIDE DEF s
  <2>3. /\ r \in Task /\ r.away = at[p].away /\ r.op = at[p].op /\ r.pc = "apply" /\ r.name = at[p].name
        /\ r.todo = at[p].todo
    BY <1>0, <2>2 DEF Task, PC
  <2> HIDE DEF r
  <2> QED BY <1>7, <2>1, <2>3, AwayCycle DEF EachOf, Pulling
<1>10. CASE Applied(p)
  <2> DEFINE pc == IF at[p].name \in at[p].marked THEN "clear" ELSE "each"
             r == [[at[p] EXCEPT !.pc = pc] EXCEPT !.sent = NoDocs]
  <2>1. at[p].pc = "apply" /\ Work(p, r) /\ UNCHANGED <<left, redirect>> /\ pc \in {"clear", "each"}
    BY <1>10 DEF Applied, Apply, ApplyPage, At, followVars
  <2> HIDE DEF pc
  <2>2. /\ r \in Task /\ r.away = at[p].away /\ r.op = at[p].op /\ r.pc = pc /\ r.name = at[p].name
        /\ r.todo = at[p].todo
    BY <1>0, <2>1, Revisions DEF Task, PC
  <2> HIDE DEF r
  <2> QED BY <1>7, <2>1, <2>2, AwayCycle DEF EachOf, Pulling
<1>11. CASE PullClear(p)
  <2> DEFINE r == [at[p] EXCEPT !.pc = "each", !.marked = @ \ {at[p].name}]
  <2>1. at[p].pc = "clear" /\ Work(p, r) /\ UNCHANGED <<left, redirect>>
    BY <1>11 DEF PullClear, ClearBackfill, At
  <2>2. /\ r \in Task /\ r.away = at[p].away /\ r.op = at[p].op /\ r.pc = "each" /\ r.todo = at[p].todo
    BY <1>0 DEF Task, PC
  <2> HIDE DEF r
  <2> QED BY <1>7, <2>1, <2>2, AwayCycle DEF EachOf, Pulling
<1>12. CASE EndPull(p)
  BY <1>12, AwayEnds DEF EndPull, followVars
<1>13. CASE RecoverFails(p) \/ FetchFails(p)
  <2> DEFINE t(pc) == [at[p] EXCEPT !.pc = pc]
  <2>1. PICK pc \in {"choose", "each"} :
          /\ Work(p, t(pc)) /\ UNCHANGED <<left, redirect>> /\ at[p].pc \in Pulling
          /\ pc = "each" => at[p].pc = "fetch"
    BY <1>13 DEF RecoverFails, FetchFails, Then, At, followVars, Pulling
  <2>2. /\ t(pc) \in Task /\ t(pc).away = at[p].away /\ t(pc).op = at[p].op /\ t(pc).pc = pc
        /\ t(pc).todo = at[p].todo
    BY <1>0 DEF Task, PC
  <2> HIDE DEF t
  <2> QED BY <1>7, <2>1, <2>2, AwayCycle DEF EachOf, Pulling
<1> QED BY <1>1, <1>2, <1>3, <1>4, <1>5, <1>6, <1>8, <1>9, <1>10, <1>11, <1>12, <1>13 DEF Pull

LEMMA AwayVisiting ==
  ASSUME TypeInv, TypeInv', KeptAway, NEW p \in Proc, Visiting(p)
  PROVE  KeptAway'
<1>0. at[p] \in Task
  BY AtPlace
<1>1. ASSUME NEW n \in Name, Visit(p, n) PROVE KeptAway'
  <2> DEFINE whole == IF n \in subscribed /\ n \notin pending THEN {} ELSE {n}
             r == [Idle EXCEPT !.pc = "visitFetch", !.op = "visit", !.name = n, !.from = pullPoint,
                               !.whole = whole, !.marked = pending \cap {n}]
  <2>1. whole \subseteq {n} /\ pullPoint \in Nat /\ n \notin Unfollowed
    BY <1>1 DEF TypeInv, StoreOK, Visit
  <2>2. Begin(p, r, {}) /\ UNCHANGED <<left, redirect>>
    BY <1>1 DEF Visit, followVars
  <2> HIDE DEF whole
  <2>3. TaskOK(r) /\ r.start = 0
    BY <2>1, Revisions DEF TaskOK, OnItsWay, Task, PC, Op, Idle
  <2>4. Heading(r) \subseteq {n}
    BY <2>1 DEF Heading, Idle, EachOf
  <2> HIDE DEF r
  <2> QED BY <2>1, <2>2, <2>3, <2>4, AwayBegins, SameUnfollowed
<1>2. CASE Fetch(p, "visitFetch", "visitApply", FALSE)
  <2> DEFINE s == Feed(at[p].name, Since(p), FALSE)
             r == [at[p] EXCEPT !.pc = "visitApply", !.sent = s]
  <2>1. Work(p, r) /\ UNCHANGED <<left, redirect>>
    BY <1>2 DEF Fetch, followVars
  <2>2. s \in Revs
    BY FeedTyped
  <2> HIDE DEF s
  <2>3. /\ r \in Task /\ r.pc = "visitApply" /\ r.away = at[p].away /\ r.op = at[p].op
        /\ r.name = at[p].name /\ r.into = at[p].into /\ r.whole = at[p].whole
    BY <1>0, <2>2 DEF Task, PC
  <2> HIDE DEF r
  <2> QED BY <2>1, <2>3, AwayThen DEF EachOf
<1>3. CASE Apply(p, "visitApply", [at[p] EXCEPT !.pc = IF at[p].marked = {} THEN "visitFollow" ELSE "visitDone"])
  <2> DEFINE pc == IF at[p].marked = {} THEN "visitFollow" ELSE "visitDone"
             r == [[at[p] EXCEPT !.pc = pc] EXCEPT !.sent = NoDocs]
  <2>1. Work(p, r) /\ UNCHANGED <<left, redirect>> /\ pc \in {"visitFollow", "visitDone"}
    BY <1>3 DEF Apply, ApplyPage, followVars
  <2> HIDE DEF pc
  <2>2. /\ r \in Task /\ r.pc = pc /\ r.away = at[p].away /\ r.op = at[p].op
        /\ r.name = at[p].name /\ r.into = at[p].into /\ r.whole = at[p].whole
    BY <1>0, <2>1, Revisions DEF Task, PC
  <2> HIDE DEF r
  <2> QED BY <2>1, <2>2, AwayThen DEF EachOf
<1>4. CASE VisitTimesOut(p)
  <2> DEFINE r == [Idle EXCEPT !.sent = NoDocs]
  <2>1. r \in Task /\ r.away = {}
    BY Revisions DEF Task, Idle
  <2>2. (Work(p, Idle) \/ Work(p, r)) /\ UNCHANGED <<left, redirect>>
    BY <1>4 DEF VisitTimesOut, Fails, ApplyPage, followVars
  <2> HIDE DEF r
  <2>3. AwayOK(r)
    BY <2>1 DEF AwayOK
  <2> QED BY <2>1, <2>2, <2>3, AwayEnds, AwayMoves, SameUnfollowed
<1>5. CASE ClearBackfill(p, "visitDone", at[p].marked, [at[p] EXCEPT !.pc = "visitFollow", !.marked = {}])
  <2> DEFINE r == [at[p] EXCEPT !.pc = "visitFollow", !.marked = {}]
  <2>1. Work(p, r) /\ UNCHANGED <<left, redirect>>
    BY <1>5 DEF ClearBackfill
  <2>2. /\ r \in Task /\ r.pc = "visitFollow" /\ r.away = at[p].away /\ r.op = at[p].op
        /\ r.name = at[p].name /\ r.into = at[p].into /\ r.whole = at[p].whole
    BY <1>0 DEF Task, PC
  <2> HIDE DEF r
  <2> QED BY <2>1, <2>2, AwayThen DEF EachOf
<1>6. CASE Subscribes(p, "visitFollow", at[p].whole, Idle)
  BY <1>6, AwayEnds DEF Subscribes
<1> QED BY <1>1, <1>2, <1>3, <1>4, <1>5, <1>6 DEF Visiting

LEMMA AwayStep == TypeInv /\ Acyclic /\ KeptAway /\ [Next]_vars => KeptAway'
<1> SUFFICES ASSUME TypeInv, Acyclic, KeptAway, [Next]_vars PROVE KeptAway'
  OBVIOUS
<1>0. TypeInv'
  BY TypeStep
<1>1. ASSUME NEW p \in Session, Creating(p) \/ Subscribing(p) \/ Removing(p) \/ Merging(p) \/ Writing(p)
      PROVE  KeptAway'
  BY <1>0, <1>1, AwayCreating, AwaySubscribing, AwayRemoving, AwayMerging, AwayWriting DEF Proc
<1>2. ASSUME NEW p \in Cycle, StartCycle(p) PROVE KeptAway'
  <2> DEFINE r == [Idle EXCEPT !.pc = "deletes", !.op = "cycle"]
  <2>1. TaskOK(r) /\ r.start = 0 /\ Heading(r) = {}
    BY Revisions DEF TaskOK, OnItsWay, Task, PC, Op, Idle, Pushing, Nameless, Heading, EachOf
  <2>2. Begin(p, r, {}) /\ Unfollowed' = Unfollowed
    BY <1>2, SameUnfollowed DEF StartCycle, followVars
  <2> QED BY <2>1, <2>2, AwayBegins DEF Proc
<1>3. ASSUME NEW p \in Cycle \cup Session, Push(p) \/ Pull(p) PROVE KeptAway'
  BY <1>0, <1>3, AwayPush, AwayPull DEF Proc
<1>4. ASSUME NEW p \in Hook, Visiting(p) PROVE KeptAway'
  BY <1>0, <1>4, AwayVisiting DEF Proc
<1>5. ASSUME NEW p \in Proc, Crash(p) PROVE KeptAway'
  BY <1>5, AwayEnds DEF Crash, followVars
<1>6. ASSUME NEW n \in Name, NEW d \in Doc, Edit(n, d) \/ TeammateStores(d, n) PROVE KeptAway'
  <2>1. UNCHANGED at /\ Unfollowed' = Unfollowed
    BY <1>6, SameUnfollowed DEF Edit, TeammateStores, followVars
  <2> QED BY <2>1 DEF KeptAway, AwayOK
<1>7. CASE UNCHANGED vars
  <2>1. UNCHANGED at /\ Unfollowed' = Unfollowed
    BY <1>7, SameUnfollowed DEF vars, followVars
  <2> QED BY <2>1 DEF KeptAway, AwayOK
<1> QED BY <1>1, <1>2, <1>3, <1>4, <1>5, <1>6, <1>7 DEF Next

LEMMA AwayForever == Spec => [](TypeInv /\ Acyclic /\ KeptAway)
<1>1. Init => TypeInv /\ Acyclic /\ KeptAway
  BY TypeInit, AcyclicInit, AwayInit
<1>2. TypeInv /\ Acyclic /\ KeptAway /\ [Next]_vars => (TypeInv /\ Acyclic /\ KeptAway)'
  BY TypeStep, AcyclicStep, AwayStep
<1> QED BY <1>1, <1>2, PTL DEF Spec

\* What a step makes or follows.
New == (here' \ here) \cup (subscribed' \ subscribed)
Stays == \A p \in Proc :
  LET away == IF At(p, "idle") THEN at'[p].away ELSE at[p].away
  IN  at'[p] # at[p] => away \cap New = {}

LEMMA NothingNew ==
  ASSUME here' \subseteq here, subscribed' \subseteq subscribed
  PROVE  Stays
BY DEF Stays, New

\* A process makes or follows only what it was heading for.
LEMMA HeadsNew ==
  ASSUME TypeInv, KeptAway, NEW p \in Proc, NEW r, Work(p, r), ~At(p, "idle"),
         New \subseteq Heading(at[p]) \/ New \cap Unfollowed = {}
  PROVE  Stays
<1>1. \A q \in Proc : q # p => at'[q] = at[q]
  BY DEF Work, TypeInv, TasksOK
<1>2. at[p].away \cap New = {}
  BY DEF KeptAway, AwayOK
<1> QED BY <1>1, <1>2 DEF Stays

LEMMA BeginsNew ==
  ASSUME TypeInv, NEW p \in Proc, NEW r \in Task, NEW n, Begin(p, r, {n}), New \subseteq {n}
  PROVE  Stays
<1> DEFINE t == [r EXCEPT !.away = Unfollowed \ {n}]
<1>1. at \in [Proc -> Task] /\ Work(p, t) /\ At(p, "idle")
  BY DEF TypeInv, TasksOK, Begin
<1>2. t.away = Unfollowed \ {n}
  BY DEF Task
<1> HIDE DEF t
<1>3. at'[p] = t /\ \A q \in Proc : q # p => at'[q] = at[q]
  BY <1>1 DEF Work
<1> QED BY <1>1, <1>2, <1>3 DEF Stays

LEMMA StaysCreating ==
  ASSUME TypeInv, KeptAway, NEW p \in Proc, Creating(p)
  PROVE  Stays
<1>1. ASSUME NEW n \in Name, Create(p, n) PROVE Stays
  <2>1. [Idle EXCEPT !.pc = "uncreate", !.op = "create", !.name = n] \in Task
    BY Revisions DEF Idle, Task, PC, Op
  <2> QED BY <1>1, <2>1, BeginsNew DEF Create, New, followVars
<1>2. CASE ClearRedirect(p, "uncreate", "rejoin") \/ Rejoin(p) \/ MarkBackfill(p)
  BY <1>2, NothingNew DEF ClearRedirect, Rejoin, MarkBackfill, storeVars
<1>3. CASE Subscribes(p, "resubscribe", {at[p].name}, [at[p] EXCEPT !.pc = "backfill"])
  <2>1. at[p].pc = "resubscribe" /\ New \subseteq {at[p].name} /\ Work(p, [at[p] EXCEPT !.pc = "backfill"])
    BY <1>3 DEF Subscribes, At, New, storeVars
  <2>2. at[p].name \in Name /\ at[p].op = "create"
    BY <2>1, AtPlace DEF TaskOK, OnItsWay, Task, Op, Pushing, Pulling, Nameless
  <2>3. at[p].name \in Heading(at[p])
    BY <2>2 DEF Heading
  <2> QED BY <2>1, <2>3, HeadsNew DEF At
<1> QED BY <1>1, <1>2, <1>3 DEF Creating

LEMMA StaysPage ==
  ASSUME TypeInv, KeptAway, NEW p \in Proc, NEW pc, NEW next, ApplyPage(p, pc, next),
         pc \in {"subApply", "visitApply", "apply"}
  PROVE  Stays
<1>1. at[p].pc = pc /\ New \subseteq {at[p].name} /\ Work(p, [next EXCEPT !.sent = NoDocs])
  BY DEF ApplyPage, At, New, followVars
<1>2. at[p].name \in Name /\ (pc = "visitApply" => at[p].op = "visit")
  BY <1>1, AtPlace DEF TaskOK, OnItsWay, Task, Op, Pushing, Pulling, Nameless
<1>3. at[p].name \in Heading(at[p])
  BY <1>1, <1>2 DEF Heading, EachOf
<1> QED BY <1>1, <1>3, HeadsNew DEF At

LEMMA StaysSubscribing ==
  ASSUME TypeInv, KeptAway, NEW p \in Proc, Subscribing(p)
  PROVE  Stays
<1>1. ASSUME NEW n \in Name, Subscribe(p, n) PROVE Stays
  <2>1. [Idle EXCEPT !.pc = "unredirect", !.op = "subscribe", !.name = n, !.whole = {n}] \in Task
    BY Revisions DEF Idle, Task, PC, Op
  <2> QED BY <1>1, <2>1, BeginsNew DEF Subscribe, New, storeVars
<1>2. ASSUME NEW n \in Name, Unsubscribe(p, n) PROVE Stays
  BY <1>2, NothingNew DEF Unsubscribe, storeVars
<1>3. CASE ClearRedirect(p, "unredirect", "unleave") \/ ClearLeft(p) \/ SubscribeCycle(p)
  BY <1>3, NothingNew DEF ClearRedirect, ClearLeft, SubscribeCycle, storeVars, followVars
<1>4. CASE Make(p)
  <2>1. at[p].pc = "make" /\ New \subseteq {at[p].name} /\ \E r : Work(p, r)
    BY <1>4 DEF Make, At, New, followVars, Then
  <2>2. at[p].name \in Heading(at[p])
    BY <2>1, AtPlace DEF Heading, Nameless
  <2> QED BY <2>1, <2>2, HeadsNew DEF At
<1>5. CASE SubscribePull(p)
  BY <1>5, NothingNew, StaysPage DEF SubscribePull, Fetch, Fails, Apply, storeVars, followVars
<1> QED BY <1>1, <1>2, <1>3, <1>4, <1>5 DEF Subscribing

LEMMA StaysRemoving ==
  ASSUME NEW p \in Proc, Removing(p)
  PROVE  Stays
BY NothingNew DEF Removing, Remove, QueueAll, RemovePush, RemovePushFails, RemoveSettle, Unfollow, Leave,
   Drop, storeVars, followVars

LEMMA StaysMerging ==
  ASSUME TypeInv, KeptAway, NEW p \in Proc, Merging(p)
  PROVE  Stays
<1>1. ASSUME at[p].pc \in {"mergeCopy", "mergeMove"}, New \subseteq {at[p].into}, NEW r, Work(p, r) PROVE Stays
  <2>1. at[p].op = "merge" /\ at[p].into \in Name
    BY <1>1, AtPlace, Merges
  <2>2. at[p].into \in Heading(at[p])
    BY <2>1 DEF Heading
  <2> QED BY <1>1, <2>2, HeadsNew DEF At
<1>2. CASE MergeCopy(p)
  BY <1>1, <1>2 DEF MergeCopy, At, New, followVars
<1>3. ASSUME NEW d \in Doc, MergeMove(p, d) PROVE Stays
  BY <1>1, <1>3 DEF MergeMove, At, New, followVars
<1>4. ASSUME NEW from \in Name, NEW into \in Name, Merge(p, from, into) PROVE Stays
  BY <1>4, NothingNew DEF Merge, storeVars, followVars
<1>5. CASE MergeVerify(p) \/ MergeCheck(p) \/ MergeRemove(p) \/ MergeRedirect(p)
  BY <1>5, NothingNew DEF MergeVerify, MergeCheck, MergeRemove, MergeRedirect, storeVars, followVars
<1> QED BY <1>2, <1>3, <1>4, <1>5 DEF Merging

LEMMA StaysWriting ==
  ASSUME TypeInv, KeptAway, NEW p \in Proc, Writing(p)
  PROVE  Stays
<1>1. ASSUME NEW n \in Name, Write(p, n) PROVE Stays
  BY <1>1, NothingNew DEF Write, storeVars, followVars
<1>2. ASSUME NEW d \in Doc, Add(p, d) PROVE Stays
  <2>1. at[p].pc = "add" /\ New \subseteq {at[p].name} /\ Work(p, Idle)
    BY <1>2 DEF Add, At, New, followVars
  <2>2. at[p].name \in Name /\ at[p].op = "write"
    BY <2>1, AtPlace DEF TaskOK, OnItsWay, Task, Op, Pushing, Pulling, Nameless
  <2>3. at[p].name \in Heading(at[p])
    BY <2>2 DEF Heading
  <2> QED BY <2>1, <2>3, HeadsNew DEF At
<1> QED BY <1>1, <1>2 DEF Writing

LEMMA StaysPush ==
  ASSUME TypeInv, KeptAway, NEW p \in Proc, Push(p)
  PROVE  Stays
<1>1. CASE Subscribes(p, "autoAdd", at[p].all, Fresh(p, "pull"))
  <2>1. at[p].pc = "autoAdd" /\ New \subseteq at[p].all /\ Work(p, Fresh(p, "pull")) /\ at[p].all \subseteq Name
    BY <1>1, AtPlace DEF Subscribes, At, New, storeVars, Task
  <2> QED BY <2>1, HeadsNew DEF At, Heading
<1>2. CASE ~Subscribes(p, "autoAdd", at[p].all, Fresh(p, "pull"))
  BY <1>2, NothingNew DEF Push, PushDeletes, PushDeletesFails, Fails, ListCollections, Send, SendFails,
     PushSettle, SendDone, AutoSubscribe, storeVars, followVars
<1> QED BY <1>1, <1>2

LEMMA StaysPull ==
  ASSUME TypeInv, KeptAway, NEW p \in Proc, Pull(p)
  PROVE  Stays
<1>1. CASE Subscribes(p, "recoverAdd", at[p].all, [at[p] EXCEPT !.pc = "choose", !.all = {}])
  <2>1. at[p].pc = "recoverAdd" /\ New \subseteq at[p].all /\ at[p].all \subseteq Name
        /\ Work(p, [at[p] EXCEPT !.pc = "choose", !.all = {}])
    BY <1>1, AtPlace DEF Subscribes, At, New, storeVars, Task
  <2> QED BY <2>1, HeadsNew DEF At, Heading
<1>2. CASE Choose(p)
  <2>1. at[p].pc = "choose" /\ New \cap Unfollowed = {} /\ \E r : Work(p, r)
    BY <1>2 DEF Choose, At, New, followVars
  <2> QED BY <2>1, HeadsNew DEF At
<1>3. CASE Applied(p)
  BY <1>3, StaysPage DEF Applied, Apply
<1>4. CASE \/ StartPull(p) \/ Recover(p) \/ RecoverFails(p) \/ Fails(p, {"recover", "fetch"}, Idle)
           \/ \E n \in Name : EachCollection(p, n)
           \/ FetchFails(p) \/ MoveDrop(p) \/ Fetch(p, "fetch", "apply", Own(p)) \/ PullClear(p) \/ EndPull(p)
  BY <1>4, NothingNew DEF StartPull, Recover, RecoverFails, Fails, EachCollection, FetchFails, MoveDrop, Fetch, PullClear,
     ClearBackfill, EndPull, storeVars, followVars
<1> QED BY <1>1, <1>2, <1>3, <1>4 DEF Pull

LEMMA StaysVisiting ==
  ASSUME TypeInv, KeptAway, NEW p \in Proc, Visiting(p)
  PROVE  Stays
<1>1. CASE Subscribes(p, "visitFollow", at[p].whole, Idle)
  <2>1. at[p].pc = "visitFollow" /\ New \subseteq at[p].whole /\ at[p].whole \subseteq Name /\ Work(p, Idle)
    BY <1>1, AtPlace DEF Subscribes, At, New, storeVars, Task
  <2>2. at[p].op = "visit"
    BY <2>1, AtPlace DEF TaskOK, OnItsWay, Task, Op, Pushing, Pulling
  <2> QED BY <2>1, <2>2, HeadsNew DEF At, Heading
<1>2. CASE \/ Apply(p, "visitApply", [at[p] EXCEPT !.pc = IF at[p].marked = {} THEN "visitFollow" ELSE "visitDone"])
           \/ VisitTimesOut(p)
  BY <1>2, StaysPage, NothingNew DEF Apply, VisitTimesOut, Fails, storeVars, followVars
<1>3. CASE \/ \E n \in Name : Visit(p, n)
           \/ Fetch(p, "visitFetch", "visitApply", FALSE)
           \/ ClearBackfill(p, "visitDone", at[p].marked, [at[p] EXCEPT !.pc = "visitFollow", !.marked = {}])
  BY <1>3, NothingNew DEF Visit, Fetch, ClearBackfill, storeVars, followVars
<1> QED BY <1>1, <1>2, <1>3 DEF Visiting

\* A name left or merged away before a process started its work is not made or
\* followed by it (getUnfollowedCollections before a push's subscriptions, a
\* pull's collections, a write and a visit), unless a user asked for it again.
THEOREM LeftStaysAway == Spec => StaysAway
<1>1. TypeInv /\ KeptAway /\ [Next]_vars => [Stays]_vars
  <2> SUFFICES ASSUME TypeInv, KeptAway, [Next]_vars PROVE [Stays]_vars
    OBVIOUS
  <2>1. ASSUME NEW p \in Session, Creating(p) \/ Subscribing(p) \/ Removing(p) \/ Merging(p) \/ Writing(p)
        PROVE  Stays
    BY <2>1, StaysCreating, StaysSubscribing, StaysRemoving, StaysMerging, StaysWriting DEF Proc
  <2>2. ASSUME NEW p, StartCycle(p) \/ Crash(p) PROVE Stays
    BY <2>2, NothingNew DEF StartCycle, Crash, storeVars, followVars
  <2>3. ASSUME NEW p \in Cycle \cup Session, Push(p) \/ Pull(p) PROVE Stays
    BY <2>3, StaysPush, StaysPull DEF Proc
  <2>4. ASSUME NEW p \in Hook, Visiting(p) PROVE Stays
    BY <2>4, StaysVisiting DEF Proc
  <2>5. ASSUME NEW n \in Name, NEW d \in Doc, Edit(n, d) \/ TeammateStores(d, n) PROVE Stays
    BY <2>5, NothingNew DEF Edit, TeammateStores, storeVars, followVars
  <2> QED BY <2>1, <2>2, <2>3, <2>4, <2>5 DEF Next
<1>2. [Stays]_vars => [\A p \in Proc :
        LET away == IF At(p, "idle") THEN at'[p].away ELSE at[p].away
        IN  at'[p] # at[p] => away \cap ((here' \ here) \cup (subscribed' \ subscribed)) = {}]_vars
  BY DEF Stays, New
<1> QED BY <1>1, <1>2, AwayForever, PTL DEF Spec, StaysAway

-----------------------------------------------------------------------------
(* No document is lost.                                                    *)

\* Revisions are numbers.
LEMMA Numbers ==
  ASSUME TypeInv
  PROVE  \A d \in Doc :
           /\ latest[d] \in Nat
           /\ rows[d] # NoRow => rows[d] \in Row /\ rows[d].rev \in Nat
           /\ \A n \in Name : copy[n][d] \in Nat
           /\ \A p \in Proc : at[p].docs[d] \in Nat /\ at[p].sent[d] \in Nat
<1>1. rows \in [Doc -> Row \cup {NoRow}] /\ latest \in Revs /\ copy \in [Name -> Revs]
  BY DEF TypeInv, StoreOK, HistoryOK
<1>2. \A p \in Proc : at[p].docs \in Revs /\ at[p].sent \in Revs
  BY AtPlace
<1> QED BY <1>1, <1>2 DEF Revs, Row

\* What is on the service is there in every earlier revision too.
LEMMA EarlierNext ==
  ASSUME TypeInv', NEW d \in Doc, NEW r \in Nat, NEW s \in Nat, s <= r, BackedNext(d, r)
  PROVE  BackedNext(d, s)
<1>1. rows' \in [Doc -> Row \cup {NoRow}]
  BY DEF TypeInv, StoreOK
<1>2. rows'[d] # NoRow => rows'[d].rev \in Nat
  BY <1>1 DEF Row
<1> QED BY <1>2 DEF BackedNext

\* Work that a step does not touch stays backed.
LEMMA OthersBacked ==
  ASSUME TypeInv, NEW q \in Proc, TaskBacked(at[q]), Steady, CopiesKept, NEW u, SameWork(at[q], u), TypeInv'
  PROVE  TaskBacked(u)'
<1> DEFINE t == at[q]
<1>0. /\ \A d \in Doc : t.docs[d] \in Nat /\ t.sent[d] \in Nat /\ latest[d] \in Nat /\ latest'[d] \in Nat
      /\ \A n \in Name, d \in Doc : copy[n][d] \in Nat /\ copy'[n][d] \in Nat
  <2>1. latest' \in Revs /\ copy' \in [Name -> Revs]
    BY DEF TypeInv, HistoryOK, StoreOK
  <2> QED BY <2>1, Numbers DEF Revs
<1>1. Within(u)'
  BY <1>0 DEF TaskBacked, Within, Steady, SameWork
<1>2. SentBacked(u)'
  BY <1>0 DEF TaskBacked, SentBacked, Steady, SameWork, Backed, BackedNext
<1>3. RemoveBacked(u)'
  BY <1>0 DEF TaskBacked, RemoveBacked, Steady, SameWork, Backed, BackedNext
<1>4. RemoveAllExcused(u)'
  <2>1. \A d \in Doc : d \in excused => d \in excused'
    BY DEF Steady
  <2> QED BY <2>1 DEF TaskBacked, RemoveAllExcused, SameWork
<1>5. MergeBacked(u)'
  <2>1. u.pc = "mergeMove" => \A d \in u.ids : u.docs[d] > 0
    BY DEF TaskBacked, MergeBacked, SameWork
  <2>2. ASSUME NEW d \in Doc, Moving(u, d) PROVE BackedNext(d, u.docs[d]) \/ copy'[u.into][d] >= u.docs[d]
    <3>1. Moving(t, d) /\ (Backed(d, t.docs[d]) \/ copy[t.into][d] >= t.docs[d])
      BY <2>2 DEF Moving, SameWork, TaskBacked, MergeBacked
    <3>2. t.into \in Name
      BY <3>1, AtPlace, Merges DEF Moving
    <3>3. d \in MovingInto(t.into)
      BY <3>1, <3>2 DEF Moving, MovingInto, At
    <3>4. CASE Backed(d, t.docs[d])
      BY <3>4, <1>0 DEF Steady, SameWork
    <3>5. CASE copy[t.into][d] >= t.docs[d]
      <4>1. copy'[t.into][d] >= copy[t.into][d] \/ BackedNext(d, copy[t.into][d])
        BY <3>2, <3>3 DEF CopiesKept
      <4>2. BackedNext(d, copy[t.into][d]) => BackedNext(d, t.docs[d])
        BY <3>2, <3>5, <1>0, EarlierNext
      <4> QED BY <4>1, <4>2, <3>5, <3>2, <1>0 DEF SameWork
    <3> QED BY <3>1, <3>4, <3>5
  <2> QED BY <2>1, <2>2 DEF MergeBacked, Moving, Backed, BackedNext
<1> QED BY <1>1, <1>2, <1>3, <1>4, <1>5 DEF TaskBacked

\* What is kept, new and backed loses nothing.
LEMMA NewestSafe ==
  ASSUME TypeInv, TypeInv', LossInv, Steady, CopiesKept, NewestKept, StoreBacked'
  PROVE  NothingLost'
<1>1. ASSUME NEW d \in Doc, d \notin excused', latest'[d] # 0
      PROVE  \/ rows'[d] # NoRow /\ rows'[d].rev = latest'[d]
             \/ \E n \in Name : copy'[n][d] = latest'[d]
  <2>0. /\ latest'[d] \in Nat /\ \A n \in Name : copy'[n][d] \in Nat
        /\ \A n \in Name : copy'[n][d] <= latest'[d]
        /\ rows'[d] # NoRow => rows'[d].rev \in Nat /\ rows'[d].rev <= latest'[d]
    <3>1. latest' \in Revs /\ copy' \in [Name -> Revs] /\ rows' \in [Doc -> Row \cup {NoRow}]
      BY DEF TypeInv, HistoryOK, StoreOK
    <3>2. /\ \A n \in Name : copy'[n][d] <= latest'[d]
          /\ rows'[d] # NoRow => rows'[d].rev <= latest'[d]
      BY DEF StoreBacked
    <3> QED BY <3>1, <3>2 DEF Revs, Row
  <2>1. latest[d] \in Nat /\ \A n \in Name : copy[n][d] \in Nat
    BY Numbers
  <2>2. CASE latest'[d] # latest[d]
    BY <2>2 DEF NewestKept
  <2>3. CASE latest'[d] = latest[d] /\ Backed(d, latest[d])
    <3>1. BackedNext(d, latest'[d])
      BY <2>1, <2>3 DEF Steady
    <3> QED BY <3>1, <2>0, <1>1 DEF BackedNext
  <2>4. CASE latest'[d] = latest[d] /\ ~Backed(d, latest[d])
    <3>1. d \notin excused
      BY <2>4 DEF Backed
    <3>2. rows[d] # NoRow => rows[d].rev # latest[d]
      BY <2>4, <2>1 DEF Backed
    <3>3. PICK m \in Name : copy[m][d] = latest[d]
      BY <3>1, <3>2, <2>4, <1>1 DEF LossInv, NothingLost
    <3>4. CASE BackedNext(d, copy[m][d])
      <4>1. rows'[d] # NoRow /\ rows'[d].rev >= copy[m][d]
        BY <3>4, <1>1 DEF BackedNext
      <4> QED BY <4>1, <3>3, <2>0, <2>4
    <3>5. CASE \E n \in Name : copy'[n][d] >= copy[m][d]
      BY <3>5, <3>3, <2>0, <2>4
    <3> QED BY <3>4, <3>5 DEF CopiesKept
  <2> QED BY <2>2, <2>3, <2>4
<1> QED BY <1>1 DEF NothingLost

\* A step of p that keeps what there is, and leaves the store and p's own task
\* backed, loses nothing.
LEMMA LossSteps ==
  ASSUME TypeInv, TypeInv', LossInv, NEW p \in Proc, Steady, CopiesKept, NewestKept, StoreBacked',
         TaskBacked(at[p])', \A q \in Proc : q # p => SameWork(at[q], at'[q])
  PROVE  LossInv'
<1>1. ASSUME NEW q \in Proc PROVE TaskBacked(at[q])'
  <2>1. CASE q = p
    BY <2>1
  <2>2. CASE q # p
    <3>1. SameWork(at[q], at'[q]) /\ TaskBacked(at[q])
      BY <2>2 DEF LossInv
    <3> QED BY <3>1, OthersBacked
  <2> QED BY <2>1, <2>2
<1> QED BY <1>1, NewestSafe DEF LossInv

\* A step that changes neither copies, rows, queue nor revisions.
Calm == UNCHANGED <<rows, copy, dirty, queue, excused, latest>>

LEMMA CalmKeeps ==
  ASSUME TypeInv, Calm
  PROVE  /\ Steady /\ CopiesKept /\ NewestKept /\ (StoreBacked => StoreBacked')
         /\ \A d \in Doc : \A r : BackedNext(d, r) <=> Backed(d, r)
<1>1. \A d \in Doc : \A r : BackedNext(d, r) <=> Backed(d, r)
  BY DEF Calm, Backed, BackedNext
<1>2. /\ \A d \in Doc : latest'[d] = latest[d] /\ latest[d] \in Nat
      /\ \A n \in Name, d \in Doc : copy'[n][d] = copy[n][d] /\ copy[n][d] \in Nat
  BY Numbers DEF Calm
<1>3. StoreBacked => StoreBacked'
  BY <1>1 DEF StoreBacked, Calm, Backed, BackedNext
<1> QED BY <1>1, <1>2, <1>3 DEF Calm, Steady, CopiesKept, NewestKept

\* The others' work is theirs.
LEMMA OthersSame ==
  ASSUME TypeInv, NEW p \in Proc, NEW r, Work(p, r)
  PROVE  at'[p] = r /\ \A q \in Proc : q # p => SameWork(at[q], at'[q])
<1>1. at \in [Proc -> Task]
  BY DEF TypeInv, TasksOK
<1> QED BY <1>1 DEF SameWork, Work

LEMMA OthersWant ==
  ASSUME TypeInv, NEW p \in Proc, NEW r \in Task, NEW n, Wanted(p, n, r)
  PROVE  SameWork(r, at'[p]) /\ \A q \in Proc : q # p => SameWork(at[q], at'[q])
<1>1. at \in [Proc -> Task]
  BY DEF TypeInv, TasksOK
<1>2. /\ at'[p] = [r EXCEPT !.away = @ \ {n}]
      /\ \A q \in Proc : q # p => at'[q] = [at[q] EXCEPT !.away = @ \ {n}]
  BY <1>1, Wants
<1>3. \A t \in Task : SameWork(t, [t EXCEPT !.away = @ \ {n}])
  BY AwayOnly DEF SameWork
<1> QED BY <1>1, <1>2, <1>3

\* Work with nothing read or sent is backed.
LEMMA CleanBacked ==
  ASSUME NEW u, u.docs = NoDocs, u.sent = NoDocs, u.pc # "mergeMove", \A d \in Doc : latest[d] \in Nat
  PROVE  TaskBacked(u)
<1>1. \A d \in Doc : u.docs[d] = 0 /\ u.sent[d] = 0
  BY DEF NoDocs
<1> QED BY <1>1 DEF TaskBacked, Within, SentBacked, RemoveBacked, RemoveAllExcused, MergeBacked, Moving

LEMMA CleanNext ==
  ASSUME TypeInv', NEW u, u.docs = NoDocs, u.sent = NoDocs, u.pc # "mergeMove"
  PROVE  TaskBacked(u)'
<1>1. \A d \in Doc : u.docs[d] = 0 /\ u.sent[d] = 0
  BY DEF NoDocs
<1>2. \A d \in Doc : latest'[d] \in Nat
  BY DEF TypeInv, HistoryOK, Revs
<1> QED BY <1>1, <1>2 DEF TaskBacked, Within, SentBacked, RemoveBacked, RemoveAllExcused, MergeBacked, Moving

\* u goes on with what t read.
Carries(t, u) ==
  /\ u.op = t.op /\ u.sure = t.sure /\ u.docs = t.docs
  /\ u.pc \notin {"mergeVerify", "mergeMove", "removePush", "removeSettle"}
  /\ t.pc \in {"removePush", "removeSettle"} => u.sure
  /\ u.op = "removeAll" => t.pc # "queueAll"

LEMMA CarriedBacked ==
  ASSUME TypeInv, TypeInv', NEW p \in Proc, TaskBacked(at[p]), Steady, NEW u, Carries(at[p], u),
         \A d \in Doc : u.sent[d] <= latest'[d], SentBacked(u)'
  PROVE  TaskBacked(u)'
<1> DEFINE t == at[p]
<1>0. \A d \in Doc : t.docs[d] \in Nat /\ latest[d] \in Nat /\ latest'[d] \in Nat
  <2>1. latest' \in Revs
    BY DEF TypeInv, HistoryOK
  <2> QED BY <2>1, Numbers DEF Revs
<1>1. Within(u)'
  BY <1>0 DEF TaskBacked, Within, Steady, Carries
<1>2. MergeBacked(u)'
  BY DEF MergeBacked, Moving, Carries
<1>3. RemoveBacked(u)'
  BY <1>0 DEF TaskBacked, RemoveBacked, Carries, Steady, Backed, BackedNext
<1>4. RemoveAllExcused(u)'
  <2>1. \A d \in Doc : d \in excused => d \in excused'
    BY DEF Steady
  <2> QED BY <2>1 DEF TaskBacked, RemoveAllExcused, Carries
<1> QED BY <1>1, <1>2, <1>3, <1>4 DEF TaskBacked

\* And with nothing to record.
Onward(t, u) == Carries(t, u) /\ u.sent \in {t.sent, NoDocs} /\ u.pc \notin Answered

LEMMA OnwardBacked ==
  ASSUME TypeInv, TypeInv', NEW p \in Proc, TaskBacked(at[p]), Steady, NEW u, Onward(at[p], u)
  PROVE  TaskBacked(u)'
<1>1. \A d \in Doc : u.sent[d] <= latest'[d]
  <2>1. latest' \in Revs
    BY DEF TypeInv, HistoryOK
  <2>2. \A d \in Doc : /\ at[p].sent[d] \in Nat /\ latest[d] \in Nat /\ latest'[d] \in Nat /\ NoDocs[d] = 0
                       /\ at[p].sent[d] <= latest[d] /\ latest[d] <= latest'[d]
    BY <2>1, Numbers DEF Revs, NoDocs, TaskBacked, Within, Steady
  <2> QED BY <2>2 DEF Onward
<1>2. SentBacked(u)'
  BY DEF SentBacked, Onward
<1> QED BY <1>1, <1>2, CarriedBacked DEF Onward

\* A calm step of p to work that is clean, or goes on.
LEMMA CalmStep ==
  ASSUME TypeInv, TypeInv', LossInv, NEW p \in Proc, Calm, NEW u, SameWork(u, at'[p]), TaskBacked(u)',
         \A q \in Proc : q # p => SameWork(at[q], at'[q])
  PROVE  LossInv'
<1>1. TaskBacked(at[p])'
  <2>1. Within(u)' => Within(at[p])'
    BY DEF Within, SameWork
  <2>2. SentBacked(u)' => SentBacked(at[p])'
    BY DEF SentBacked, SameWork
  <2>3. RemoveBacked(u)' => RemoveBacked(at[p])'
    BY DEF RemoveBacked, SameWork
  <2>4. RemoveAllExcused(u)' => RemoveAllExcused(at[p])'
    BY DEF RemoveAllExcused, SameWork
  <2>5. MergeBacked(u)' => MergeBacked(at[p])'
    BY DEF MergeBacked, Moving, SameWork
  <2> QED BY <2>1, <2>2, <2>3, <2>4, <2>5 DEF TaskBacked
<1>2. Steady /\ CopiesKept /\ NewestKept /\ StoreBacked'
  BY CalmKeeps DEF LossInv
<1> QED BY <1>1, <1>2, LossSteps

LEMMA LossClean ==
  ASSUME TypeInv, TypeInv', LossInv, NEW p \in Proc, Calm, NEW u, Work(p, u), u.docs = NoDocs,
         u.sent = NoDocs, u.pc # "mergeMove"
  PROVE  LossInv'
<1>1. SameWork(u, at'[p]) /\ \A q \in Proc : q # p => SameWork(at[q], at'[q])
  BY OthersSame DEF SameWork
<1>2. TaskBacked(u)'
  BY CleanNext
<1> QED BY <1>1, <1>2, CalmStep

LEMMA LossOnward ==
  ASSUME TypeInv, TypeInv', LossInv, NEW p \in Proc, Calm, NEW u, Work(p, u), Onward(at[p], u)
  PROVE  LossInv'
<1>1. SameWork(u, at'[p]) /\ \A q \in Proc : q # p => SameWork(at[q], at'[q])
  BY OthersSame DEF SameWork
<1>2. TaskBacked(at[p]) /\ Steady
  BY CalmKeeps DEF LossInv
<1>3. TaskBacked(u)'
  BY <1>2, OnwardBacked
<1> QED BY <1>1, <1>3, CalmStep

LEMMA LossWanted ==
  ASSUME TypeInv, TypeInv', LossInv, NEW p \in Proc, Calm, NEW u \in Task, NEW n, Wanted(p, n, u),
         \/ Onward(at[p], u)
         \/ u.docs = NoDocs /\ u.sent = NoDocs /\ u.pc # "mergeMove"
  PROVE  LossInv'
<1>1. SameWork(u, at'[p]) /\ \A q \in Proc : q # p => SameWork(at[q], at'[q])
  BY OthersWant
<1>2. TaskBacked(at[p]) /\ Steady
  BY CalmKeeps DEF LossInv
<1>3. TaskBacked(u)'
  BY <1>2, OnwardBacked, CleanNext
<1> QED BY <1>1, <1>3, CalmStep

\* A process begins with nothing read.
LEMMA LossBegin ==
  ASSUME TypeInv, TypeInv', LossInv, NEW p \in Proc, UNCHANGED <<rows, copy, dirty, queue>>,
         NEW r \in Task, NEW ns, Begin(p, r, ns), r.docs = NoDocs, r.sent = NoDocs, r.pc # "mergeMove"
  PROVE  LossInv'
<1> DEFINE u == [r EXCEPT !.away = Unfollowed \ ns]
<1>1. Work(p, u) /\ Calm
  BY DEF Begin, Calm, history, others
<1>2. u.docs = NoDocs /\ u.sent = NoDocs /\ u.pc # "mergeMove"
  BY DEF Task
<1> HIDE DEF u
<1> QED BY <1>1, <1>2, LossClean

\* A step with no process.
LEMMA LossOutside ==
  ASSUME TypeInv, TypeInv', LossInv, Steady, CopiesKept, NewestKept, StoreBacked', UNCHANGED at
  PROVE  LossInv'
<1>1. \A q \in Proc : TaskBacked(at[q])'
  <2> SUFFICES ASSUME NEW q \in Proc PROVE TaskBacked(at[q])'
    OBVIOUS
  <2>1. SameWork(at[q], at'[q]) /\ TaskBacked(at[q])
    BY DEF SameWork, LossInv
  <2> QED BY <2>1, OthersBacked
<1> QED BY <1>1, NewestSafe DEF LossInv

LEMMA LossStill ==
  ASSUME TypeInv, TypeInv', LossInv, Calm, UNCHANGED at
  PROVE  LossInv'
BY CalmKeeps, LossOutside DEF LossInv

\* What moving on leaves.
LEMMA Thens ==
  ASSUME TypeInv, NEW p \in Proc, NEW pc \in PC
  PROVE  LET u == [at[p] EXCEPT !.pc = pc]
         IN  /\ u \in Task /\ u.pc = pc /\ u.op = at[p].op /\ u.sure = at[p].sure /\ u.name = at[p].name
             /\ u.into = at[p].into /\ u.docs = at[p].docs /\ u.sent = at[p].sent /\ u.ids = at[p].ids
BY AtPlace DEF Task

LEMMA ThenOnward ==
  ASSUME TypeInv, NEW p \in Proc,
         NEW pc \in PC \ (Answered \cup {"mergeVerify", "mergeMove", "removePush"}),
         at[p].pc \notin {"removePush", "removeSettle", "queueAll"}
  PROVE  [at[p] EXCEPT !.pc = pc] \in Task /\ Onward(at[p], [at[p] EXCEPT !.pc = pc])
BY Thens DEF Onward, Carries, Answered, Settling

LEMMA OnwardPlaces ==
  {"rejoin", "resubscribe", "backfill", "unleave", "make", "subFetch", "subCycle", "visitFollow",
   "visitDone", "list", "pull", "send", "autoRead", "choose", "each", "recoverAdd", "clear",
   "unfollow", "leave", "drop", "mergeCheck", "mergeRemove", "redirect"}
    \subseteq PC \ (Answered \cup {"mergeVerify", "mergeMove", "removePush"})
BY DEF PC, Answered, Settling

LEMMA IdleClean ==
  /\ Idle \in Task /\ Idle.docs = NoDocs /\ Idle.sent = NoDocs /\ Idle.pc = "idle"
BY Revisions DEF Idle

LEMMA FreshClean ==
  ASSUME NEW p, NEW pc
  PROVE  Fresh(p, pc).docs = NoDocs /\ Fresh(p, pc).sent = NoDocs /\ Fresh(p, pc).pc = pc
BY DEF Fresh, Idle

-----------------------------------------------------------------------------
\* What the service makes of a request: rows are replaced by what was sent,
\* and a newer one that is replaced is excused.
LEMMA UpsertKeeps ==
  ASSUME TypeInv, StoreBacked, NEW n \in Name, NEW revs \in Revs, \A d \in Doc : revs[d] <= latest[d],
         Upsert(n, revs)
  PROVE  /\ \A d \in Doc : d \in excused => d \in excused'
         /\ \A d \in Doc, r \in Nat : Backed(d, r) => BackedNext(d, r)
         /\ \A d \in Doc : rows'[d] # NoRow => rows'[d].rev <= latest[d]
         /\ \A d \in Doc : revs[d] > 0 /\ d \notin Refused => BackedNext(d, revs[d])
<1> DEFINE new(d) == [in |-> n, rev |-> revs[d], at |-> clock + 1, echo |-> TRUE]
<1>1. \A d \in Doc : revs[d] \in Nat /\ new(d) \in Row /\ new(d).rev = revs[d] /\ new(d) # NoRow
  <2>1. clock + 1 \in Nat /\ \A d \in Doc : revs[d] \in Nat
    BY Clocked DEF Revs
  <2>2. \A d \in Doc : new(d) \in Row /\ new(d).rev = revs[d]
    BY <2>1 DEF Row
  <2> QED BY <2>1, <2>2, RowAssumption
<1>2. \A d \in Doc :
        \/ rows'[d] = rows[d] /\ (revs[d] = 0 \/ d \in Refused \/ (rows[d] # NoRow /\ rows[d].rev = revs[d]))
        \/ rows'[d] = new(d)
  <2>1. rows' = Upserted(n, revs)
    BY DEF Upsert
  <2> QED BY <2>1 DEF Upserted
<1>3. \A d \in Doc : rows'[d] # rows[d] /\ rows[d] # NoRow /\ rows[d].rev > revs[d] => d \in excused'
  BY DEF Upsert
<1>4. \A d \in Doc : d \in excused => d \in excused'
  BY DEF Upsert
<1> HIDE DEF new
<1>5. ASSUME NEW d \in Doc, NEW r \in Nat, Backed(d, r) PROVE BackedNext(d, r)
  BY <1>1, <1>2, <1>3, <1>4, <1>5, Numbers DEF Backed, BackedNext
<1>6. ASSUME NEW d \in Doc, rows'[d] # NoRow PROVE rows'[d].rev <= latest[d]
  BY <1>1, <1>2, <1>6 DEF StoreBacked
<1>7. ASSUME NEW d \in Doc, revs[d] > 0, d \notin Refused PROVE BackedNext(d, revs[d])
  BY <1>1, <1>2, <1>7 DEF BackedNext
<1> QED BY <1>4, <1>5, <1>6, <1>7

\* Hence a step that only sends keeps all there is.
LEMMA SendKeeps ==
  ASSUME TypeInv, TypeInv', StoreBacked,
         UNCHANGED <<copy, dirty, queue, latest>>,
         \A d \in Doc : d \in excused => d \in excused',
         \A d \in Doc, r \in Nat : Backed(d, r) => BackedNext(d, r),
         \A d \in Doc : rows'[d] # NoRow => rows'[d].rev <= latest[d]
  PROVE  Steady /\ CopiesKept /\ NewestKept /\ StoreBacked'
<1>1. \A d \in Doc : latest[d] \in Nat /\ \A n \in Name : copy[n][d] \in Nat
  BY Numbers
<1>2. Steady /\ CopiesKept /\ NewestKept
  BY <1>1 DEF Steady, CopiesKept, NewestKept
<1>3. queue' \subseteq excused'
  <2>1. queue \subseteq Doc
    BY FollowingAssumption DEF TypeInv, FollowOK
  <2> QED BY <2>1 DEF StoreBacked
<1>4. ASSUME NEW n \in Name, NEW d \in Doc, copy'[n][d] > 0, <<n, d>> \notin dirty'
      PROVE  Backed(d, copy[n][d])'
  <2>1. BackedNext(d, copy[n][d]) /\ copy'[n][d] = copy[n][d]
    BY <1>1, <1>4 DEF StoreBacked
  <2> QED BY <2>1 DEF Backed, BackedNext
<1>5. \A n \in Name, d \in Doc : copy'[n][d] <= latest'[d]
  BY DEF StoreBacked
<1> QED BY <1>2, <1>3, <1>4, <1>5 DEF StoreBacked

\* What is read to be sent is what there is.
LEMMA UnsentBounded ==
  ASSUME TypeInv, StoreBacked, NEW n \in Name, NEW ids
  PROVE  /\ Unsent(n, ids) \in Revs
         /\ \A d \in Doc : Unsent(n, ids)[d] <= latest[d]
<1>1. \A d \in Doc : latest[d] \in Nat /\ copy[n][d] \in Nat /\ copy[n][d] <= latest[d]
  BY Numbers DEF StoreBacked
<1> QED BY <1>1, UnsentTyped DEF Unsent

\* What is fetched is on the service.
LEMMA FeedBacked ==
  ASSUME TypeInv, StoreBacked, NEW n, NEW since, NEW own
  PROVE  /\ Feed(n, since, own) \in Revs
         /\ \A d \in Doc : Feed(n, since, own)[d] <= latest[d]
         /\ \A d \in Doc : Feed(n, since, own)[d] > 0 => Backed(d, Feed(n, since, own)[d])
<1>1. \A d \in Doc : latest[d] \in Nat /\ (rows[d] # NoRow => rows[d].rev \in Nat /\ rows[d].rev <= latest[d])
  BY Numbers DEF StoreBacked
<1>2. \A d \in Doc : \/ Feed(n, since, own)[d] = 0
                     \/ rows[d] # NoRow /\ Feed(n, since, own)[d] = rows[d].rev
  BY DEF Feed
<1> QED BY <1>1, <1>2, FeedTyped DEF Backed

LEMMA LossFetch ==
  ASSUME TypeInv, TypeInv', LossInv, NEW p \in Proc, NEW pc, NEW next \in {"apply", "subApply", "visitApply"},
         NEW own, Fetch(p, pc, next, own), pc \notin {"removePush", "removeSettle", "queueAll"}
  PROVE  LossInv'
<1> SUFFICES ASSUME NEW s, s = Feed(at[p].name, Since(p), own),
                    NEW u, u = [at[p] EXCEPT !.pc = next, !.sent = s]
             PROVE  LossInv'
  OBVIOUS
<1>1. Calm /\ Work(p, u) /\ at[p].pc = pc
  BY DEF Fetch, At, Calm, svc, storeVars, deleteVars, history, others
<1>2. \A d \in Doc : s[d] <= latest[d] /\ (s[d] > 0 => Backed(d, s[d]))
  BY FeedBacked DEF LossInv
<1>3. /\ u.pc = next /\ u.op = at[p].op /\ u.sure = at[p].sure /\ u.docs = at[p].docs /\ u.sent = s
  BY AtPlace DEF Task
<1>4. SentBacked(u)'
  BY <1>2, <1>3, <1>1 DEF SentBacked, Settling, Backed, Calm
<1>5. \A d \in Doc : u.sent[d] <= latest'[d]
  BY <1>1, <1>2, <1>3 DEF Calm
<1>6. Carries(at[p], u)
  BY <1>1, <1>3 DEF Carries
<1>7. TaskBacked(at[p]) /\ Steady
  BY <1>1, CalmKeeps DEF LossInv
<1>8. TaskBacked(u)'
  BY <1>4, <1>5, <1>6, <1>7, CarriedBacked
<1>9. SameWork(u, at'[p]) /\ \A q \in Proc : q # p => SameWork(at[q], at'[q])
  BY <1>1, OthersSame DEF SameWork
<1> QED BY <1>1, <1>8, <1>9, CalmStep

\* A page brings what the service has, and what it takes away the service has.
LEMMA PageKeeps ==
  ASSUME TypeInv, TypeInv', LossInv, NEW p \in Proc, NEW pc \in Answered \ Settling, NEW next,
         ApplyPage(p, pc, next)
  PROVE  Steady /\ CopiesKept /\ NewestKept /\ StoreBacked'
<1> SUFFICES ASSUME NEW n, n = at[p].name, NEW sent, sent = at[p].sent, NEW T, T = Taken(n, sent)
             PROVE  Steady /\ CopiesKept /\ NewestKept /\ StoreBacked'
  OBVIOUS
<1>1. /\ at[p].pc = pc /\ UNCHANGED <<rows, dirty, queue, latest, excused>>
      /\ copy' = [m \in Name |-> [d \in Doc |->
                    IF d \notin T THEN copy[m][d]
                    ELSE IF m = n THEN sent[d]
                    ELSE IF copy[n][d] = 0 THEN 0 ELSE copy[m][d]]]
  BY DEF ApplyPage, At, svc, deleteVars
<1>2. n \in Name /\ \A d \in Doc : sent[d] \in Nat /\ sent[d] <= latest[d] /\ latest[d] \in Nat
  <2>1. n \in Name
    BY <1>1, AtPlace DEF Nameless, Answered, Settling
  <2>2. TaskBacked(at[p])
    BY DEF LossInv
  <2> QED BY <2>1, <2>2, Numbers DEF TaskBacked, Within
<1>3. \A d \in T : sent[d] > 0 => Backed(d, sent[d])
  <2>1. TaskBacked(at[p]) /\ T \subseteq Doc
    BY DEF LossInv, Taken
  <2> QED BY <2>1, <1>1 DEF TaskBacked, SentBacked
<1>4. /\ T \subseteq Doc /\ \A d \in T : sent[d] > 0
      /\ \A d \in T : \/ copy[n][d] > 0 /\ sent[d] > copy[n][d]
                      \/ ~(copy[n][d] > 0) /\ \A m \in Name : <<m, d>> \notin dirty
  BY DEF Taken
<1>5. /\ \A m \in Name, d \in Doc : copy[m][d] \in Nat /\ copy[m][d] <= latest[d]
      /\ \A m \in Name, d \in Doc : copy[m][d] > 0 /\ <<m, d>> \notin dirty => Backed(d, copy[m][d])
  BY Numbers DEF LossInv, StoreBacked
<1>6. \A d \in Doc : \A r : BackedNext(d, r) <=> Backed(d, r)
  BY <1>1 DEF Backed, BackedNext
<1>7. ASSUME NEW m \in Name, NEW d \in Doc
      PROVE  /\ copy'[m][d] >= copy[m][d] \/ BackedNext(d, copy[m][d])
             /\ copy'[m][d] <= latest[d]
             /\ copy'[m][d] > 0 /\ <<m, d>> \notin dirty => Backed(d, copy'[m][d])
  <2>1. CASE d \notin T
    <3>1. copy'[m][d] = copy[m][d]
      BY <2>1, <1>1
    <3> QED BY <3>1, <1>5
  <2>2. CASE d \in T /\ m = n
    <3>1. copy'[m][d] = sent[d]
      BY <2>2, <1>1
    <3> QED BY <3>1, <2>2, <1>2, <1>3, <1>4, <1>5
  <2>3. CASE d \in T /\ m # n /\ copy[n][d] = 0
    <3>1. copy'[m][d] = 0
      BY <2>3, <1>1
    <3>2. <<m, d>> \notin dirty
      BY <2>3, <1>4
    <3> QED BY <3>1, <3>2, <1>2, <1>5, <1>6
  <2>4. CASE d \in T /\ m # n /\ copy[n][d] # 0
    <3>1. copy'[m][d] = copy[m][d]
      BY <2>4, <1>1
    <3> QED BY <3>1, <1>5
  <2> QED BY <2>1, <2>2, <2>3, <2>4
<1>8. Steady /\ NewestKept /\ CopiesKept
  <2>1. Steady
    BY <1>1, <1>2, <1>6 DEF Steady
  <2>2. NewestKept
    BY <1>1 DEF NewestKept
  <2>3. CopiesKept
    BY <1>7 DEF CopiesKept
  <2> QED BY <2>1, <2>2, <2>3
<1>9. StoreBacked'
  BY <1>1, <1>7 DEF LossInv, StoreBacked, Backed
<1> QED BY <1>8, <1>9

LEMMA LossPage ==
  ASSUME TypeInv, TypeInv', LossInv, NEW p \in Proc, NEW pc \in Answered \ Settling, NEW next,
         ApplyPage(p, pc, next),
         \/ next = Idle
         \/ \E q \in PC \ (Answered \cup {"mergeVerify", "mergeMove", "removePush"}) :
              next = [at[p] EXCEPT !.pc = q]
  PROVE  LossInv'
<1> SUFFICES ASSUME NEW u, u = [next EXCEPT !.sent = NoDocs] PROVE LossInv'
  OBVIOUS
<1>1. Steady /\ CopiesKept /\ NewestKept /\ StoreBacked'
  BY PageKeeps
<1>2. Work(p, u) /\ at[p].pc = pc
  BY DEF ApplyPage, At
<1>3. CASE next = Idle
  <2>1. u.docs = NoDocs /\ u.sent = NoDocs /\ u.pc # "mergeMove"
    BY <1>3 DEF Idle
  <2>2. TaskBacked(u)'
    BY <2>1, CleanNext
  <2> QED BY <2>2, <1>1, <1>2, OthersSame, LossSteps
<1>4. ASSUME NEW q \in PC \ (Answered \cup {"mergeVerify", "mergeMove", "removePush"}),
             next = [at[p] EXCEPT !.pc = q]
      PROVE  LossInv'
  <2>1. u.pc = q /\ u.op = at[p].op /\ u.sure = at[p].sure /\ u.docs = at[p].docs /\ u.sent = NoDocs
    BY <1>4, AtPlace DEF Task
  <2>2. Onward(at[p], u)
    BY <2>1, <1>2 DEF Onward, Carries, Answered, Settling
  <2>3. TaskBacked(at[p])
    BY DEF LossInv
  <2>4. TaskBacked(u)'
    BY <2>2, <2>3, <1>1, OnwardBacked
  <2> QED BY <2>4, <1>1, <1>2, OthersSame, LossSteps
<1> QED BY <1>3, <1>4

LEMMA LossFails ==
  ASSUME TypeInv, TypeInv', LossInv, NEW p \in Proc, NEW pcs, NEW next, Fails(p, pcs, next),
         pcs \cap {"removePush", "removeSettle", "queueAll"} = {},
         \/ next = Idle
         \/ \E q \in PC \ (Answered \cup {"mergeVerify", "mergeMove", "removePush"}) :
              next = [at[p] EXCEPT !.pc = q]
  PROVE  LossInv'
<1>1. Calm /\ Work(p, next) /\ at[p].pc \in pcs
  BY DEF Fails, Calm, svc, storeVars, deleteVars, history, others
<1>2. CASE next = Idle
  BY <1>1, <1>2, IdleClean, LossClean
<1>3. ASSUME NEW q \in PC \ (Answered \cup {"mergeVerify", "mergeMove", "removePush"}),
             next = [at[p] EXCEPT !.pc = q]
      PROVE  LossInv'
  <2>1. Onward(at[p], next)
    BY <1>1, <1>3, ThenOnward
  <2> QED BY <1>1, <2>1, LossOnward
<1> QED BY <1>2, <1>3

-----------------------------------------------------------------------------
LEMMA LossCreating ==
  ASSUME TypeInv, TypeInv', LossInv, NEW p \in Proc, Creating(p)
  PROVE  LossInv'
<1>1. ASSUME NEW n \in Name, Create(p, n) PROVE LossInv'
  <2> DEFINE r == [Idle EXCEPT !.pc = "uncreate", !.op = "create", !.name = n]
  <2>1. r \in Task /\ r.docs = NoDocs /\ r.sent = NoDocs /\ r.pc # "mergeMove"
    BY Revisions DEF Task, Idle, PC, Op
  <2> HIDE DEF r
  <2>2. Begin(p, r, {n}) /\ UNCHANGED <<rows, copy, dirty, queue>>
    BY <1>1 DEF Create, svc, deleteVars, r
  <2> QED BY <2>1, <2>2, LossBegin
<1>2. CASE ClearRedirect(p, "uncreate", "rejoin")
  <2>1. /\ Calm /\ Wanted(p, at[p].name, [at[p] EXCEPT !.pc = "rejoin"]) /\ at[p].pc = "uncreate"
    BY <1>2 DEF ClearRedirect, At, Calm, svc, storeVars, deleteVars, history, others
  <2>2. [at[p] EXCEPT !.pc = "rejoin"] \in Task /\ Onward(at[p], [at[p] EXCEPT !.pc = "rejoin"])
    BY <2>1, OnwardPlaces, ThenOnward
  <2> QED BY <2>1, <2>2, LossWanted
<1>3. CASE Rejoin(p)
  <2> SUFFICES ASSUME NEW u, u = IF at[p].name \in left THEN [at[p] EXCEPT !.pc = "resubscribe"] ELSE Idle
               PROVE  LossInv'
    OBVIOUS
  <2>1. Calm /\ Wanted(p, at[p].name, u) /\ at[p].pc = "rejoin"
    BY <1>3 DEF Rejoin, At, Calm, svc, storeVars, deleteVars, history, others
  <2>2. CASE at[p].name \in left
    <3>1. u = [at[p] EXCEPT !.pc = "resubscribe"]
      BY <2>2
    <3>2. "resubscribe" \in PC \ (Answered \cup {"mergeVerify", "mergeMove", "removePush"})
      BY OnwardPlaces
    <3>3. at[p].pc \notin {"removePush", "removeSettle", "queueAll"}
      BY <2>1
    <3>4. u \in Task
      BY <3>1, <3>2, <3>3, ThenOnward
    <3>5. Onward(at[p], u)
      BY <3>1, <3>2, <3>3, ThenOnward
    <3> QED BY <2>1, <3>4, <3>5, LossWanted
  <2>3. CASE at[p].name \notin left
    <3>1. u \in Task /\ u.docs = NoDocs /\ u.sent = NoDocs /\ u.pc # "mergeMove"
      BY <2>3, IdleClean
    <3> QED BY <2>1, <3>1, LossWanted
  <2> QED BY <2>2, <2>3
<1>4. CASE Subscribes(p, "resubscribe", {at[p].name}, [at[p] EXCEPT !.pc = "backfill"])
  <2>1. Calm /\ Work(p, [at[p] EXCEPT !.pc = "backfill"]) /\ at[p].pc = "resubscribe"
    BY <1>4 DEF Subscribes, At, Calm, svc, storeVars, deleteVars, history, others
  <2>2. Onward(at[p], [at[p] EXCEPT !.pc = "backfill"])
    BY <2>1, OnwardPlaces, ThenOnward
  <2> QED BY <2>1, <2>2, LossOnward
<1>5. CASE MarkBackfill(p)
  <2>1. Calm /\ Work(p, Idle)
    BY <1>5 DEF MarkBackfill, Calm, svc, storeVars, deleteVars
  <2> QED BY <2>1, IdleClean, LossClean
<1> QED BY <1>1, <1>2, <1>3, <1>4, <1>5 DEF Creating

LEMMA LossSubscribing ==
  ASSUME TypeInv, TypeInv', LossInv, NEW p \in Proc, Subscribing(p)
  PROVE  LossInv'
<1>1. ASSUME NEW n \in Name, Subscribe(p, n) PROVE LossInv'
  <2> DEFINE r == [Idle EXCEPT !.pc = "unredirect", !.op = "subscribe", !.name = n, !.whole = {n}]
  <2>1. r \in Task /\ r.docs = NoDocs /\ r.sent = NoDocs /\ r.pc # "mergeMove"
    BY Revisions DEF Task, Idle, PC, Op
  <2> HIDE DEF r
  <2>2. Begin(p, r, {n}) /\ UNCHANGED <<rows, copy, dirty, queue>>
    BY <1>1 DEF Subscribe, svc, storeVars, deleteVars, r
  <2> QED BY <2>1, <2>2, LossBegin
<1>2. ASSUME NEW n \in Name, Unsubscribe(p, n) PROVE LossInv'
  BY <1>2, LossStill DEF Unsubscribe, Calm, svc, storeVars, deleteVars
<1>3. CASE ClearRedirect(p, "unredirect", "unleave")
  <2>1. /\ Calm /\ Wanted(p, at[p].name, [at[p] EXCEPT !.pc = "unleave"]) /\ at[p].pc = "unredirect"
    BY <1>3 DEF ClearRedirect, At, Calm, svc, storeVars, deleteVars, history, others
  <2>2. [at[p] EXCEPT !.pc = "unleave"] \in Task /\ Onward(at[p], [at[p] EXCEPT !.pc = "unleave"])
    BY <2>1, OnwardPlaces, ThenOnward
  <2> QED BY <2>1, <2>2, LossWanted
<1>4. CASE ClearLeft(p)
  <2>1. /\ Calm /\ Wanted(p, at[p].name, [at[p] EXCEPT !.pc = "make"]) /\ at[p].pc = "unleave"
    BY <1>4 DEF ClearLeft, At, Calm, svc, storeVars, deleteVars, history, others
  <2>2. [at[p] EXCEPT !.pc = "make"] \in Task /\ Onward(at[p], [at[p] EXCEPT !.pc = "make"])
    BY <2>1, OnwardPlaces, ThenOnward
  <2> QED BY <2>1, <2>2, LossWanted
<1>5. CASE Make(p)
  <2> SUFFICES ASSUME NEW pc, pc = IF p \in Plugin THEN "subCycle" ELSE "subFetch" PROVE LossInv'
    OBVIOUS
  <2>1. Calm /\ Work(p, [at[p] EXCEPT !.pc = pc]) /\ at[p].pc = "make"
    BY <1>5 DEF Make, At, Then, Calm, svc, deleteVars, history, others
  <2>2. Onward(at[p], [at[p] EXCEPT !.pc = pc])
    BY <2>1, OnwardPlaces, ThenOnward
  <2> QED BY <2>1, <2>2, LossOnward
<1>6. CASE SubscribePull(p)
  <2>1. CASE Fetch(p, "subFetch", "subApply", FALSE)
    BY <2>1, LossFetch
  <2>2. "subCycle" \in PC \ (Answered \cup {"mergeVerify", "mergeMove", "removePush"})
        /\ "subApply" \in Answered \ Settling
    BY DEF PC, Answered, Settling
  <2>3. CASE Fails(p, {"subFetch"}, [at[p] EXCEPT !.pc = "subCycle"])
    BY <2>2, <2>3, LossFails
  <2>4. CASE Apply(p, "subApply", [at[p] EXCEPT !.pc = "subCycle"])
    BY <2>2, <2>4, LossPage DEF Apply
  <2> QED BY <1>6, <2>1, <2>3, <2>4 DEF SubscribePull
<1>7. CASE SubscribeCycle(p)
  <2> SUFFICES ASSUME NEW u, u = IF Cycling = {} THEN Fresh(p, "deletes") ELSE Idle PROVE LossInv'
    OBVIOUS
  <2>1. Calm /\ Work(p, u) /\ u.docs = NoDocs /\ u.sent = NoDocs /\ u.pc # "mergeMove"
    BY <1>7, FreshClean, IdleClean DEF SubscribeCycle, Calm, svc, storeVars, deleteVars, history, others
  <2> QED BY <2>1, LossClean
<1> QED BY <1>1, <1>2, <1>3, <1>4, <1>5, <1>6, <1>7 DEF Subscribing

LEMMA LossVisiting ==
  ASSUME TypeInv, TypeInv', LossInv, NEW p \in Proc, Visiting(p)
  PROVE  LossInv'
<1>0. /\ {"visitFollow", "visitDone"} \subseteq PC \ (Answered \cup {"mergeVerify", "mergeMove", "removePush"})
      /\ "visitApply" \in Answered \ Settling
  BY DEF PC, Answered, Settling
<1>1. ASSUME NEW n \in Name, Visit(p, n) PROVE LossInv'
  <2> SUFFICES ASSUME NEW whole, whole = IF n \in subscribed /\ n \notin pending THEN {} ELSE {n},
                      NEW marked, marked = pending \cap {n}, NEW from, from = pullPoint,
                      NEW r, r = [Idle EXCEPT !.pc = "visitFetch", !.op = "visit", !.name = n,
                                              !.from = from, !.whole = whole, !.marked = marked]
               PROVE  LossInv'
    OBVIOUS
  <2>1. whole \subseteq Name /\ marked \subseteq Name /\ from \in Nat
    BY DEF TypeInv, StoreOK, FollowOK
  <2>2. r \in Task /\ r.docs = NoDocs /\ r.sent = NoDocs /\ r.pc # "mergeMove"
    <3>1. {"visitFetch", "visitApply"} \subseteq PC /\ "visit" \in Op
      BY DEF PC, Op
    <3>2. Idle \in Task /\ Idle.docs = NoDocs /\ Idle.sent = NoDocs
      BY IdleClean
    <3> QED BY <2>1, <3>1, <3>2 DEF Task
  <2>3. Begin(p, r, {}) /\ UNCHANGED <<rows, copy, dirty, queue>>
    BY <1>1 DEF Visit, svc, storeVars, deleteVars
  <2> QED BY <2>2, <2>3, LossBegin
<1>2. CASE Fetch(p, "visitFetch", "visitApply", FALSE)
  BY <1>2, LossFetch
<1>3. CASE Apply(p, "visitApply", [at[p] EXCEPT !.pc = IF at[p].marked = {} THEN "visitFollow" ELSE "visitDone"])
  <2> SUFFICES ASSUME NEW pc, pc = IF at[p].marked = {} THEN "visitFollow" ELSE "visitDone" PROVE LossInv'
    OBVIOUS
  <2> QED BY <1>0, <1>3, LossPage DEF Apply
<1>4. CASE VisitTimesOut(p)
  BY <1>0, <1>4, LossFails, LossPage DEF VisitTimesOut
<1>5. CASE ClearBackfill(p, "visitDone", at[p].marked, [at[p] EXCEPT !.pc = "visitFollow", !.marked = {}])
  <2> SUFFICES ASSUME NEW u, u = [at[p] EXCEPT !.pc = "visitFollow", !.marked = {}] PROVE LossInv'
    OBVIOUS
  <2>1. Calm /\ Work(p, u) /\ at[p].pc = "visitDone"
    BY <1>5 DEF ClearBackfill, At, Calm, svc, storeVars, deleteVars, history, others
  <2>2. u.pc = "visitFollow" /\ u.op = at[p].op /\ u.sure = at[p].sure /\ u.docs = at[p].docs /\ u.sent = at[p].sent
    BY AtPlace DEF Task
  <2>3. Onward(at[p], u)
    BY <2>1, <2>2 DEF Onward, Carries, Answered, Settling
  <2> QED BY <2>1, <2>3, LossOnward
<1>6. CASE Subscribes(p, "visitFollow", at[p].whole, Idle)
  <2>1. Calm /\ Work(p, Idle)
    BY <1>6 DEF Subscribes, Calm, svc, storeVars, deleteVars, history, others
  <2> QED BY <2>1, IdleClean, LossClean
<1> QED BY <1>1, <1>2, <1>3, <1>4, <1>5, <1>6 DEF Visiting

\* A settled copy is on the service in the revision it has.
LEMMA SettleKeeps ==
  ASSUME TypeInv, TypeInv', LossInv, NEW n \in Name, NEW sent, Settle(n, sent),
         UNCHANGED <<rows, copy, queue, excused, latest>>,
         \A d \in Doc : sent[d] > 0 /\ d \notin Refused => Backed(d, sent[d])
  PROVE  /\ Steady /\ CopiesKept /\ NewestKept /\ StoreBacked'
         /\ \A d \in Doc : \A r : BackedNext(d, r) <=> Backed(d, r)
<1>1. \A d \in Doc : \A r : BackedNext(d, r) <=> Backed(d, r)
  BY DEF Backed, BackedNext
<1>2. \A d \in Doc : latest[d] \in Nat /\ \A m \in Name : copy[m][d] \in Nat
  BY Numbers
<1>3. Steady /\ CopiesKept /\ NewestKept
  BY <1>1, <1>2 DEF Steady, CopiesKept, NewestKept
<1>4. ASSUME NEW m \in Name, NEW d \in Doc, copy[m][d] > 0, <<m, d>> \notin dirty'
      PROVE  Backed(d, copy[m][d])
  <2>1. CASE <<m, d>> \notin dirty
    BY <2>1, <1>4 DEF LossInv, StoreBacked
  <2>2. CASE <<m, d>> \in dirty
    <3>1. <<m, d>> \in Copies(n, Accepted(Settled(n, sent)))
      BY <2>2, <1>4 DEF Settle
    <3>2. m = n /\ d \in Settled(n, sent) /\ d \notin Refused
      BY <3>1 DEF Copies, Accepted
    <3> QED BY <3>2 DEF Settled
  <2> QED BY <2>1, <2>2
<1>5. StoreBacked'
  BY <1>1, <1>4 DEF LossInv, StoreBacked, Backed, BackedNext
<1> QED BY <1>1, <1>3, <1>5

LEMMA SkipOnward ==
  ASSUME TypeInv, NEW p \in Proc, at[p].pc = "send", NEW n, NEW u \in Skips(p, n)
  PROVE  Onward(at[p], u)
<1>1. u.pc \in {"autoRead", "send"}
  BY SkipTask
<1> QED BY <1>1, SkipTask DEF Onward, Carries, Answered, Settling

LEMMA LossPush ==
  ASSUME TypeInv, TypeInv', LossInv, NEW p \in Proc, Push(p)
  PROVE  LossInv'
<1>0. TaskBacked(at[p]) /\ StoreBacked
  BY DEF LossInv
<1>1. CASE PushDeletes(p)
  <2> SUFFICES ASSUME NEW pc, pc \in {"list", "pull"}, Work(p, [at[p] EXCEPT !.pc = pc]) PROVE LossInv'
    BY <1>1 DEF PushDeletes, Then
  <2>1. /\ at[p].pc = "deletes" /\ UNCHANGED <<copy, dirty, excused, latest>> /\ queue' \subseteq queue
        /\ rows' = [d \in Doc |-> IF d \in queue THEN NoRow ELSE rows[d]]
    BY <1>1 DEF PushDeletes, At, storeVars, history, others
  <2>2. /\ \A d \in Doc, r \in Nat : Backed(d, r) => BackedNext(d, r)
        /\ \A d \in Doc : rows'[d] # NoRow => rows'[d].rev <= latest[d]
    BY <2>1, <1>0 DEF StoreBacked, Backed, BackedNext
  <2>3. \A d \in Doc : latest[d] \in Nat /\ \A n \in Name : copy[n][d] \in Nat
    BY Numbers
  <2>4. Steady /\ CopiesKept /\ NewestKept
    BY <2>1, <2>2, <2>3 DEF Steady, CopiesKept, NewestKept
  <2>5. ASSUME NEW n \in Name, NEW d \in Doc, copy'[n][d] > 0, <<n, d>> \notin dirty'
        PROVE  Backed(d, copy[n][d])'
    <3>1. BackedNext(d, copy[n][d]) /\ copy'[n][d] = copy[n][d]
      BY <2>1, <2>2, <2>3, <2>5, <1>0 DEF StoreBacked
    <3> QED BY <3>1 DEF Backed, BackedNext
  <2>6. StoreBacked'
    BY <2>1, <2>2, <2>5, <1>0 DEF StoreBacked
  <2>7. Onward(at[p], [at[p] EXCEPT !.pc = pc])
    BY <2>1, OnwardPlaces, ThenOnward
  <2> SUFFICES ASSUME NEW u, u = [at[p] EXCEPT !.pc = pc] PROVE LossInv'
    OBVIOUS
  <2>8. TaskBacked(u)'
    BY <1>0, <2>4, <2>7, OnwardBacked
  <2> QED BY <2>4, <2>6, <2>8, OthersSame, LossSteps
<1>2. CASE PushDeletesFails(p)
  BY <1>2, OnwardPlaces, LossFails DEF PushDeletesFails
<1>3. CASE ListCollections(p)
  <2> SUFFICES ASSUME NEW u, u = [at[p] EXCEPT !.pc = "send", !.todo = here] PROVE LossInv'
    OBVIOUS
  <2>1. Calm /\ Work(p, u) /\ at[p].pc = "list"
    BY <1>3 DEF ListCollections, At, Calm, svc, storeVars, deleteVars, history, others
  <2>2. u.pc = "send" /\ u.op = at[p].op /\ u.sure = at[p].sure /\ u.docs = at[p].docs /\ u.sent = at[p].sent
    BY AtPlace DEF Task
  <2>3. Onward(at[p], u)
    BY <2>1, <2>2 DEF Onward, Carries, Answered, Settling
  <2> QED BY <2>1, <2>3, LossOnward
<1>4. ASSUME NEW n \in Name, Send(p, n) PROVE LossInv'
  <2> SUFFICES ASSUME NEW sent, sent = Unsent(n, Doc), NEW u,
                      \/ u = [at[p] EXCEPT !.pc = "settle", !.name = n, !.sent = sent, !.todo = @ \ {n}]
                      \/ u \in Skips(p, n),
                      Work(p, u)
               PROVE  LossInv'
    BY <1>4 DEF Send
  <2>1. /\ at[p].pc = "send" /\ Upsert(n, sent) /\ UNCHANGED <<copy, dirty, queue, latest>>
    BY <1>4 DEF Send, At, storeVars, deleteVars, others
  <2>2. sent \in Revs /\ \A d \in Doc : sent[d] <= latest[d]
    BY <1>0, UnsentBounded
  <2>3. /\ \A d \in Doc : d \in excused => d \in excused'
        /\ \A d \in Doc, r \in Nat : Backed(d, r) => BackedNext(d, r)
        /\ \A d \in Doc : rows'[d] # NoRow => rows'[d].rev <= latest[d]
        /\ \A d \in Doc : sent[d] > 0 /\ d \notin Refused => BackedNext(d, sent[d])
    BY <1>0, <2>1, <2>2, UpsertKeeps
  <2>4. Steady /\ CopiesKept /\ NewestKept /\ StoreBacked'
    BY <1>0, <2>1, <2>3, SendKeeps
  <2>5. CASE u = [at[p] EXCEPT !.pc = "settle", !.name = n, !.sent = sent, !.todo = @ \ {n}]
    <3>1. u.pc = "settle" /\ u.op = at[p].op /\ u.sure = at[p].sure /\ u.docs = at[p].docs /\ u.sent = sent
      BY <2>5, AtPlace DEF Task
    <3>2. Carries(at[p], u)
      BY <2>1, <3>1 DEF Carries
    <3>3. SentBacked(u)'
      BY <2>3, <3>1 DEF SentBacked, Settling, Backed, BackedNext
    <3>4. \A d \in Doc : u.sent[d] <= latest'[d]
      BY <2>1, <2>2, <3>1
    <3>5. TaskBacked(u)'
      BY <1>0, <2>4, <3>2, <3>3, <3>4, CarriedBacked
    <3> QED BY <2>4, <3>5, OthersSame, LossSteps
  <2>6. CASE u \in Skips(p, n)
    <3>1. Onward(at[p], u)
      BY <2>1, <2>6, SkipOnward
    <3>2. TaskBacked(u)'
      BY <1>0, <2>4, <3>1, OnwardBacked
    <3> QED BY <2>4, <3>2, OthersSame, LossSteps
  <2> QED BY <2>5, <2>6
<1>5. CASE SendFails(p)
  <2>1. PICK n \in at[p].todo : \E u \in Skips(p, n) : Fails(p, {"send"}, u)
    BY <1>5 DEF SendFails
  <2>2. PICK u \in Skips(p, n) : Fails(p, {"send"}, u)
    BY <2>1
  <2>3. Calm /\ Work(p, u) /\ at[p].pc = "send"
    BY <2>2 DEF Fails, Calm, svc, storeVars, deleteVars, history, others
  <2> QED BY <2>3, SkipOnward, LossOnward
<1>6. CASE PushSettle(p)
  <2> SUFFICES ASSUME NEW all,
                      all = LET pushed == Accepted(Settled(at[p].name, at[p].sent))
                            IN  IF pushed = {} THEN at[p].all ELSE at[p].all \cup {at[p].name},
                      NEW u, u = [at[p] EXCEPT !.pc = "send", !.sent = NoDocs, !.name = Nowhere, !.all = all]
               PROVE  LossInv'
    OBVIOUS
  <2>1. /\ at[p].pc = "settle" /\ Settle(at[p].name, at[p].sent) /\ Work(p, u)
        /\ UNCHANGED <<rows, copy, queue, excused, latest>>
    BY <1>6 DEF PushSettle, At, svc, deleteVars, history, others
  <2>2. at[p].name \in Name /\ \A d \in Doc : at[p].sent[d] > 0 /\ d \notin Refused => Backed(d, at[p].sent[d])
    BY <1>0, <2>1, AtPlace DEF TaskBacked, SentBacked, Answered, Settling, Nameless
  <2>3. Steady /\ CopiesKept /\ NewestKept /\ StoreBacked'
    BY <2>1, <2>2, SettleKeeps
  <2>4. u.pc = "send" /\ u.op = at[p].op /\ u.sure = at[p].sure /\ u.docs = at[p].docs /\ u.sent = NoDocs
    BY AtPlace DEF Task
  <2>5. Onward(at[p], u)
    BY <2>1, <2>4 DEF Onward, Carries, Answered, Settling
  <2>6. TaskBacked(u)'
    BY <1>0, <2>3, <2>5, OnwardBacked
  <2> QED BY <2>1, <2>3, <2>6, OthersSame, LossSteps
<1>7. CASE SendDone(p)
  <2>1. Calm /\ Work(p, [at[p] EXCEPT !.pc = "autoRead"]) /\ at[p].pc = "send"
    BY <1>7 DEF SendDone, Then, At, Calm, svc, storeVars, deleteVars, history, others
  <2>2. Onward(at[p], [at[p] EXCEPT !.pc = "autoRead"])
    BY <2>1, OnwardPlaces, ThenOnward
  <2> QED BY <2>1, <2>2, LossOnward
<1>8. CASE AutoSubscribe(p)
  <2> SUFFICES ASSUME NEW u, \/ u = Fresh(p, "pull")
                             \/ u = [Fresh(p, "autoAdd") EXCEPT !.all = AutoSubscribes(p)],
                      Work(p, u)
               PROVE  LossInv'
    BY <1>8 DEF AutoSubscribe
  <2>1. Calm
    BY <1>8 DEF AutoSubscribe, Calm, svc, storeVars, deleteVars, history, others
  <2>2. u.docs = NoDocs /\ u.sent = NoDocs /\ u.pc # "mergeMove"
    BY DEF Fresh, Idle
  <2> QED BY <2>1, <2>2, LossClean
<1>9. CASE Subscribes(p, "autoAdd", at[p].all, Fresh(p, "pull"))
  <2>1. Calm /\ Work(p, Fresh(p, "pull"))
    BY <1>9 DEF Subscribes, Calm, svc, storeVars, deleteVars, history, others
  <2> QED BY <2>1, FreshClean, LossClean
<1> QED BY <1>1, <1>2, <1>3, <1>4, <1>5, <1>6, <1>7, <1>8, <1>9 DEF Push

LEMMA LossPull ==
  ASSUME TypeInv, TypeInv', LossInv, NEW p \in Proc, Pull(p)
  PROVE  LossInv'
<1>0. TaskBacked(at[p]) /\ StoreBacked
  BY DEF LossInv
<1>1. CASE StartPull(p)
  <2> SUFFICES ASSUME NEW pc, pc = IF pullPoint = 0 THEN "recover" ELSE "choose",
                      NEW u, u = [Fresh(p, pc) EXCEPT !.start = clock, !.from = pullPoint]
               PROVE  LossInv'
    OBVIOUS
  <2>1. Calm /\ Work(p, u)
    BY <1>1 DEF StartPull, Calm, svc, storeVars, deleteVars, history, others
  <2>2. u.docs = NoDocs /\ u.sent = NoDocs /\ u.pc # "mergeMove"
    BY DEF Fresh, Idle
  <2> QED BY <2>1, <2>2, LossClean
<1>2. CASE Recover(p)
  <2> SUFFICES ASSUME NEW all,
                      all = OfUser \ Unfollowed,
                      NEW u, u = [at[p] EXCEPT !.pc = "recoverAdd", !.all = all]
               PROVE  LossInv'
    OBVIOUS
  <2>1. Calm /\ Work(p, u) /\ at[p].pc = "recover"
    BY <1>2 DEF Recover, At, Calm, svc, storeVars, deleteVars, history, others
  <2>2. u.pc = "recoverAdd" /\ u.op = at[p].op /\ u.sure = at[p].sure /\ u.docs = at[p].docs /\ u.sent = at[p].sent
    BY AtPlace DEF Task
  <2>3. Onward(at[p], u)
    BY <2>1, <2>2 DEF Onward, Carries, Answered, Settling
  <2> QED BY <2>1, <2>3, LossOnward
<1>3. CASE Fails(p, {"recover", "fetch"}, Idle)
  BY <1>3, LossFails
<1>4. CASE Subscribes(p, "recoverAdd", at[p].all, [at[p] EXCEPT !.pc = "choose", !.all = {}])
  <2> SUFFICES ASSUME NEW u, u = [at[p] EXCEPT !.pc = "choose", !.all = {}] PROVE LossInv'
    OBVIOUS
  <2>1. Calm /\ Work(p, u) /\ at[p].pc = "recoverAdd"
    BY <1>4 DEF Subscribes, At, Calm, svc, storeVars, deleteVars, history, others
  <2>2. u.pc = "choose" /\ u.op = at[p].op /\ u.sure = at[p].sure /\ u.docs = at[p].docs /\ u.sent = at[p].sent
    BY AtPlace DEF Task
  <2>3. Onward(at[p], u)
    BY <2>1, <2>2 DEF Onward, Carries, Answered, Settling
  <2> QED BY <2>1, <2>3, LossOnward
<1>5. CASE Choose(p)
  <2> SUFFICES ASSUME NEW todo, NEW whole, NEW marked,
                      NEW u, u = [at[p] EXCEPT !.pc = "each", !.todo = todo, !.all = todo, !.whole = whole,
                                               !.marked = marked],
                      Work(p, u)
               PROVE  LossInv'
    BY <1>5 DEF Choose
  <2>1. Calm /\ at[p].pc = "choose"
    BY <1>5 DEF Choose, At, Calm, svc, deleteVars, history, others
  <2>2. u.pc = "each" /\ u.op = at[p].op /\ u.sure = at[p].sure /\ u.docs = at[p].docs /\ u.sent = at[p].sent
    BY AtPlace DEF Task
  <2>3. Onward(at[p], u)
    BY <2>1, <2>2 DEF Onward, Carries, Answered, Settling
  <2> QED BY <2>1, <2>3, LossOnward
<1>6. ASSUME NEW n \in Name, EachCollection(p, n) PROVE LossInv'
  <2> SUFFICES ASSUME NEW ids, NEW pc, pc = IF ids = {} THEN "fetch" ELSE "moveDrop",
                      NEW u, u = [at[p] EXCEPT !.pc = pc, !.ids = ids, !.name = n, !.todo = @ \ {n}],
                      Work(p, u)
               PROVE  LossInv'
    BY <1>6 DEF EachCollection
  <2>1. Calm /\ at[p].pc = "each"
    BY <1>6 DEF EachCollection, At, Calm, svc, storeVars, deleteVars, history, others
  <2>2. u.pc = pc /\ u.op = at[p].op /\ u.sure = at[p].sure /\ u.docs = at[p].docs /\ u.sent = at[p].sent
    BY AtPlace DEF Task
  <2>3. Onward(at[p], u)
    BY <2>1, <2>2 DEF Onward, Carries, Answered, Settling
  <2> QED BY <2>1, <2>3, LossOnward
<1>7. CASE MoveDrop(p)
  <2> SUFFICES ASSUME NEW n, n = at[p].name, NEW ids, ids = at[p].ids,
                      NEW u, u = [at[p] EXCEPT !.pc = "fetch", !.ids = {}]
               PROVE  LossInv'
    OBVIOUS
  <2>1. /\ at[p].pc = "moveDrop" /\ Work(p, u) /\ UNCHANGED <<rows, queue, latest>>
        /\ copy' = [copy EXCEPT ![n] = [d \in Doc |-> IF d \in ids THEN 0 ELSE copy[n][d]]]
        /\ dirty' = dirty \ Copies(n, ids)
        /\ excused' = excused \cup (ids \cap Dirty(n))
    BY <1>7 DEF MoveDrop, At, svc, deleteVars, others
  <2>2. n \in Name
    BY <2>1, AtPlace DEF Nameless
  <2>3. /\ \A m \in Name, d \in Doc : copy'[m][d] = IF m = n /\ d \in ids THEN 0 ELSE copy[m][d]
        /\ \A m \in Name, d \in Doc : copy[m][d] \in Nat /\ copy[m][d] <= latest[d] /\ latest[d] \in Nat
    <3>1. copy \in [Name -> Revs]
      BY StoreFacts
    <3>2. \A m \in Name, d \in Doc : copy[m][d] \in Nat /\ copy[m][d] <= latest[d] /\ latest[d] \in Nat
      BY <1>0, Numbers DEF StoreBacked
    <3> QED BY <2>1, <2>2, <3>1, <3>2
  <2>4. \A d \in Doc : \A r : Backed(d, r) => BackedNext(d, r)
    BY <2>1 DEF Backed, BackedNext
  <2>5. \A m \in Name, d \in Doc : <<m, d>> \notin dirty' => <<m, d>> \notin dirty \/ (m = n /\ d \in ids)
    BY <2>1 DEF Copies
  <2>6. Steady
    <3>1. \A d \in Doc : latest[d] \in Nat /\ (d \in excused => d \in excused')
      BY <2>1, Numbers
    <3> QED BY <2>1, <2>4, <3>1 DEF Steady
  <2>7. CopiesKept
    <3>1. ASSUME NEW d \in Doc, d \in ids
          PROVE  copy[n][d] = 0 \/ BackedNext(d, copy[n][d])
      <4>1. CASE <<n, d>> \in dirty
        BY <3>1, <4>1, <2>1 DEF Dirty, BackedNext
      <4>2. CASE <<n, d>> \notin dirty
        BY <3>1, <4>2, <2>2, <2>3, <2>4, <1>0 DEF StoreBacked
      <4> QED BY <4>1, <4>2
    <3> QED BY <3>1, <2>2, <2>3 DEF CopiesKept
  <2>8. NewestKept
    BY <2>1 DEF NewestKept
  <2>9. StoreBacked'
    <3>1. ASSUME NEW m \in Name, NEW d \in Doc, copy'[m][d] > 0, <<m, d>> \notin dirty'
          PROVE  BackedNext(d, copy'[m][d])
      <4>1. copy'[m][d] = copy[m][d] /\ <<m, d>> \notin dirty
        BY <3>1, <2>3, <2>5
      <4> QED BY <3>1, <4>1, <2>4, <1>0 DEF StoreBacked
    <3>2. \A m \in Name, d \in Doc : copy'[m][d] <= latest[d]
      BY <2>3
    <3> QED BY <3>1, <3>2, <2>1, <1>0 DEF StoreBacked, Backed, BackedNext
  <2>10. u.pc = "fetch" /\ u.op = at[p].op /\ u.sure = at[p].sure /\ u.docs = at[p].docs /\ u.sent = at[p].sent
    BY AtPlace DEF Task
  <2>11. Onward(at[p], u)
    BY <2>1, <2>10 DEF Onward, Carries, Answered, Settling
  <2>12. TaskBacked(u)'
    BY <1>0, <2>6, <2>11, OnwardBacked
  <2> QED BY <2>1, <2>6, <2>7, <2>8, <2>9, <2>12, OthersSame, LossSteps
<1>8. CASE Fetch(p, "fetch", "apply", Own(p))
  BY <1>8, LossFetch
<1>9. CASE Applied(p)
  <2> SUFFICES ASSUME NEW pc, pc = IF at[p].name \in at[p].marked THEN "clear" ELSE "each" PROVE LossInv'
    OBVIOUS
  <2>1. pc \in PC \ (Answered \cup {"mergeVerify", "mergeMove", "removePush"}) /\ "apply" \in Answered \ Settling
    BY OnwardPlaces DEF Answered, Settling
  <2>2. ApplyPage(p, "apply", [at[p] EXCEPT !.pc = pc])
    BY <1>9 DEF Applied, Apply
  <2> QED BY <2>1, <2>2, LossPage
<1>10. CASE PullClear(p)
  <2> SUFFICES ASSUME NEW u, u = [at[p] EXCEPT !.pc = "each", !.marked = @ \ {at[p].name}] PROVE LossInv'
    OBVIOUS
  <2>1. Calm /\ Work(p, u) /\ at[p].pc = "clear"
    BY <1>10 DEF PullClear, ClearBackfill, At, Calm, svc, storeVars, deleteVars, history, others
  <2>2. u.pc = "each" /\ u.op = at[p].op /\ u.sure = at[p].sure /\ u.docs = at[p].docs /\ u.sent = at[p].sent
    BY AtPlace DEF Task
  <2>3. Onward(at[p], u)
    BY <2>1, <2>2 DEF Onward, Carries, Answered, Settling
  <2> QED BY <2>1, <2>3, LossOnward
<1>11. CASE EndPull(p)
  <2>1. Calm /\ Work(p, Idle)
    BY <1>11 DEF EndPull, Calm, svc, storeVars, deleteVars, history, others
  <2> QED BY <2>1, IdleClean, LossClean
<1>12. CASE RecoverFails(p) \/ FetchFails(p)
  <2>1. PICK pc \in {"choose", "each"} : Work(p, [at[p] EXCEPT !.pc = pc])
    BY <1>12 DEF RecoverFails, FetchFails, Then
  <2>2. Calm /\ at[p].pc \in {"recover", "fetch"}
    BY <1>12 DEF RecoverFails, FetchFails, At, Calm, svc, storeVars, deleteVars
  <2>3. Onward(at[p], [at[p] EXCEPT !.pc = pc])
    BY <2>2, OnwardPlaces, ThenOnward
  <2> QED BY <2>1, <2>2, <2>3, LossOnward
<1> QED BY <1>1, <1>2, <1>3, <1>4, <1>5, <1>6, <1>7, <1>8, <1>9, <1>10, <1>11, <1>12 DEF Pull

\* A copy that is written, in a revision newer than any, is to be pushed.
LEMMA GrowKeeps ==
  ASSUME TypeInv, TypeInv', StoreBacked, NEW n \in Name, NEW d \in Doc, NEW r \in Nat, r > latest[d],
         copy' = [copy EXCEPT ![n][d] = r], latest' = [latest EXCEPT ![d] = r],
         dirty' = dirty \cup {<<n, d>>}, UNCHANGED <<rows, queue, excused>>
  PROVE  Steady /\ CopiesKept /\ NewestKept /\ StoreBacked'
<1>1. /\ \A e \in Doc : latest[e] \in Nat /\ (rows[e] # NoRow => rows[e].rev \in Nat /\ rows[e].rev <= latest[e])
      /\ \A m \in Name, e \in Doc : copy[m][e] \in Nat /\ copy[m][e] <= latest[e]
  BY Numbers DEF StoreBacked
<1>2. /\ \A e \in Doc : latest'[e] = IF e = d THEN r ELSE latest[e]
      /\ \A m \in Name, e \in Doc : copy'[m][e] = IF m = n /\ e = d THEN r ELSE copy[m][e]
  BY StoreFacts DEF Revs
<1>3. \A e \in Doc : \A s : BackedNext(e, s) <=> Backed(e, s)
  BY DEF Backed, BackedNext
<1>4. Steady
  <2>1. \A e \in Doc : latest'[e] >= latest[e] /\ (e \in excused => e \in excused')
    BY <1>1, <1>2
  <2> QED BY <2>1, <1>3 DEF Steady
<1>5. CopiesKept /\ NewestKept
  <2>1. \A m \in Name, e \in Doc : copy'[m][e] >= copy[m][e]
    BY <1>1, <1>2
  <2>2. \A e \in Doc : latest'[e] = latest[e] \/ \E m \in Name : copy'[m][e] = latest'[e]
    BY <1>2
  <2> QED BY <2>1, <2>2 DEF CopiesKept, NewestKept
<1>6. StoreBacked'
  <2>1. \A e \in Doc : rows'[e] # NoRow => rows'[e].rev <= latest'[e]
    BY <1>1, <1>2
  <2>2. ASSUME NEW m \in Name, NEW e \in Doc
        PROVE  /\ copy'[m][e] <= latest'[e]
               /\ copy'[m][e] > 0 /\ <<m, e>> \notin dirty' => BackedNext(e, copy'[m][e])
    <3>1. CASE m = n /\ e = d
      BY <3>1, <1>1, <1>2
    <3>2. CASE ~(m = n /\ e = d)
      <4>1. copy'[m][e] = copy[m][e] /\ copy[m][e] <= latest'[e]
        BY <3>2, <1>1, <1>2
      <4>2. copy[m][e] > 0 /\ <<m, e>> \notin dirty => Backed(e, copy[m][e])
        BY DEF StoreBacked
      <4> QED BY <4>1, <4>2, <1>3
    <3> QED BY <3>1, <3>2
  <2> QED BY <2>1, <2>2 DEF StoreBacked, Backed, BackedNext
<1> QED BY <1>4, <1>5, <1>6

LEMMA LossWriting ==
  ASSUME TypeInv, TypeInv', LossInv, NEW p \in Proc, Writing(p)
  PROVE  LossInv'
<1>1. ASSUME NEW n \in Name, Write(p, n) PROVE LossInv'
  <2> SUFFICES ASSUME NEW t, t = Resolve(n), NEW r, r = [Idle EXCEPT !.pc = "add", !.op = "write", !.name = t]
               PROVE  LossInv'
    OBVIOUS
  <2>1. t \in Name
    BY ResolveTyped DEF TypeInv
  <2>2. r \in Task /\ r.docs = NoDocs /\ r.sent = NoDocs /\ r.pc # "mergeMove"
    <3>1. "add" \in PC /\ "write" \in Op
      BY DEF PC, Op
    <3>2. Idle \in Task /\ Idle.docs = NoDocs /\ Idle.sent = NoDocs
      BY IdleClean
    <3> QED BY <2>1, <3>1, <3>2 DEF Task
  <2>3. Begin(p, r, {}) /\ UNCHANGED <<rows, copy, dirty, queue>>
    BY <1>1 DEF Write, svc, storeVars, deleteVars
  <2> QED BY <2>2, <2>3, LossBegin
<1>2. ASSUME NEW d \in Doc, Add(p, d) PROVE LossInv'
  <2> SUFFICES ASSUME NEW n, n = at[p].name PROVE LossInv'
    OBVIOUS
  <2>1. /\ n \in Name /\ Work(p, Idle) /\ UNCHANGED <<rows, queue, excused>> /\ latest[d] = 0
        /\ copy' = [copy EXCEPT ![n][d] = 1] /\ latest' = [latest EXCEPT ![d] = 1]
        /\ dirty' = dirty \cup {<<n, d>>}
    BY <1>2, AtPlace DEF Add, At, Nameless, svc, deleteVars
  <2>2. Steady /\ CopiesKept /\ NewestKept /\ StoreBacked'
    <3>1. 1 \in Nat /\ 1 > latest[d] /\ StoreBacked
      BY <2>1 DEF LossInv
    <3> QED BY <2>1, <3>1, GrowKeeps
  <2>3. TaskBacked(Idle)'
    BY IdleClean, CleanNext
  <2> QED BY <2>1, <2>2, <2>3, OthersSame, LossSteps
<1> QED BY <1>1, <1>2 DEF Writing

LEMMA LossEdit ==
  ASSUME TypeInv, TypeInv', LossInv, NEW n \in Name, NEW d \in Doc, Edit(n, d)
  PROVE  LossInv'
<1>1. /\ UNCHANGED <<at, rows, queue, excused>> /\ latest[d] = 1
      /\ copy' = [copy EXCEPT ![n][d] = 2] /\ latest' = [latest EXCEPT ![d] = 2]
      /\ dirty' = dirty \cup {<<n, d>>}
  BY DEF Edit, svc, deleteVars
<1>2. Steady /\ CopiesKept /\ NewestKept /\ StoreBacked'
  <2>1. 2 \in Nat /\ 2 > latest[d] /\ StoreBacked
    BY <1>1 DEF LossInv
  <2> QED BY <1>1, <2>1, GrowKeeps
<1> QED BY <1>1, <1>2, LossOutside

LEMMA LossTeammate ==
  ASSUME TypeInv, TypeInv', LossInv, NEW n \in Name, NEW d \in Doc, TeammateStores(d, n)
  PROVE  LossInv'
<1> SUFFICES ASSUME NEW row, row = [in |-> n, rev |-> latest'[d], at |-> clock + 1, echo |-> FALSE]
             PROVE  LossInv'
  OBVIOUS
<1>1. /\ latest' = [latest EXCEPT ![d] = @ + 1] /\ rows' = [rows EXCEPT ![d] = row]
      /\ UNCHANGED <<at, copy, dirty, queue, excused>>
  BY DEF TeammateStores, storeVars, deleteVars
<1>2. /\ \A e \in Doc : latest[e] \in Nat /\ (rows[e] # NoRow => rows[e].rev \in Nat /\ rows[e].rev <= latest[e])
      /\ \A m \in Name, e \in Doc : copy[m][e] \in Nat /\ copy[m][e] <= latest[e]
      /\ StoreBacked
  BY Numbers DEF LossInv, StoreBacked
<1>3. latest'[d] = latest[d] + 1 /\ \A e \in Doc : latest'[e] = IF e = d THEN latest[d] + 1 ELSE latest[e]
  BY <1>1, StoreFacts DEF Revs
<1>4. row \in Row /\ row # NoRow /\ row.rev = latest[d] + 1
  <2>1. latest'[d] \in Nat /\ clock + 1 \in Nat
    BY <1>2, <1>3, Clocked
  <2>2. row \in Row
    BY <2>1 DEF Row
  <2> QED BY <1>3, <2>2, RowAssumption
<1>5. \A e \in Doc : rows'[e] = IF e = d THEN row ELSE rows[e]
  BY <1>1 DEF TypeInv, StoreOK
<1>6. ASSUME NEW e \in Doc, NEW r \in Nat, Backed(e, r) PROVE BackedNext(e, r)
  <2>1. CASE e = d
    BY <2>1, <1>1, <1>2, <1>4, <1>5, <1>6 DEF Backed, BackedNext
  <2>2. CASE e # d
    BY <2>2, <1>1, <1>5, <1>6 DEF Backed, BackedNext
  <2> QED BY <2>1, <2>2
<1>7. Steady
  <2>1. \A e \in Doc : latest'[e] >= latest[e] /\ (e \in excused => e \in excused')
    BY <1>1, <1>2, <1>3
  <2> QED BY <2>1, <1>6 DEF Steady
<1>8. CopiesKept /\ NewestKept
  <2>1. \A m \in Name, e \in Doc : copy'[m][e] >= copy[m][e]
    BY <1>1, <1>2
  <2>2. \A e \in Doc : latest'[e] = latest[e] \/ (rows'[e] # NoRow /\ rows'[e].rev = latest'[e])
    BY <1>3, <1>4, <1>5
  <2> QED BY <2>1, <2>2 DEF CopiesKept, NewestKept
<1>9. StoreBacked'
  <2>1. queue' \subseteq excused'
    BY <1>1, <1>2 DEF StoreBacked
  <2>2. \A e \in Doc : rows'[e] # NoRow => rows'[e].rev <= latest'[e]
    BY <1>2, <1>3, <1>4, <1>5
  <2>3. ASSUME NEW m \in Name, NEW e \in Doc
        PROVE  /\ copy'[m][e] <= latest'[e]
               /\ copy'[m][e] > 0 /\ <<m, e>> \notin dirty' => BackedNext(e, copy'[m][e])
    <3>1. copy'[m][e] = copy[m][e]
      BY <1>1
    <3>2. copy[m][e] <= latest'[e]
      BY <1>2, <1>3
    <3>3. copy[m][e] > 0 /\ <<m, e>> \notin dirty => BackedNext(e, copy[m][e])
      BY <1>2, <1>6 DEF StoreBacked
    <3> QED BY <3>1, <3>2, <3>3, <1>1
  <2> QED BY <2>1, <2>2, <2>3 DEF StoreBacked, Backed, BackedNext
<1> QED BY <1>1, <1>7, <1>8, <1>9, LossOutside

LEMMA LossCycle ==
  ASSUME TypeInv, TypeInv', LossInv, NEW p \in Proc, StartCycle(p) \/ Crash(p)
  PROVE  LossInv'
<1>1. CASE StartCycle(p)
  <2> DEFINE r == [Idle EXCEPT !.pc = "deletes", !.op = "cycle"]
  <2>1. r \in Task /\ r.docs = NoDocs /\ r.sent = NoDocs /\ r.pc # "mergeMove"
    BY Revisions DEF Task, Idle, PC, Op
  <2> HIDE DEF r
  <2>2. Begin(p, r, {}) /\ UNCHANGED <<rows, copy, dirty, queue>>
    BY <1>1 DEF StartCycle, svc, storeVars, deleteVars, r
  <2> QED BY <2>1, <2>2, LossBegin
<1>2. CASE Crash(p)
  <2>1. Calm /\ Work(p, Idle)
    BY <1>2 DEF Crash, Calm, svc, storeVars, deleteVars, history, others
  <2> QED BY <2>1, IdleClean, LossClean
<1> QED BY <1>1, <1>2

-----------------------------------------------------------------------------
\* A request that reached the service, or did not.
LEMMA RequestKeeps ==
  ASSUME TypeInv, TypeInv', StoreBacked, NEW n \in Name, NEW ids,
         Upsert(n, Unsent(n, ids)) \/ UNCHANGED <<rows, excused>>,
         UNCHANGED <<copy, dirty, queue, latest>>
  PROVE  Steady /\ CopiesKept /\ NewestKept /\ StoreBacked'
<1> SUFFICES ASSUME NEW sent, sent = Unsent(n, ids) PROVE Steady /\ CopiesKept /\ NewestKept /\ StoreBacked'
  OBVIOUS
<1>1. CASE Upsert(n, sent)
  <2>1. sent \in Revs /\ \A d \in Doc : sent[d] <= latest[d]
    BY UnsentBounded
  <2>2. /\ \A d \in Doc : d \in excused => d \in excused'
        /\ \A d \in Doc, r \in Nat : Backed(d, r) => BackedNext(d, r)
        /\ \A d \in Doc : rows'[d] # NoRow => rows'[d].rev <= latest[d]
    BY <1>1, <2>1, UpsertKeeps
  <2> QED BY <2>2, SendKeeps
<1>2. CASE UNCHANGED <<rows, excused>>
  <2>1. Calm
    BY <1>2 DEF Calm
  <2> QED BY <2>1, CalmKeeps
<1> QED BY <1>1, <1>2

LEMMA LossRemove ==
  ASSUME TypeInv, TypeInv', LossInv, NEW p \in Proc, NEW n \in Name, NEW all \in BOOLEAN,
         NEW sure \in BOOLEAN, Remove(p, n, all, sure)
  PROVE  LossInv'
<1> SUFFICES ASSUME NEW pc, pc = IF all THEN "queueAll" ELSE IF Pushable(n) = {} THEN "unfollow" ELSE "removePush",
                    NEW op, op = IF all THEN "removeAll" ELSE "remove",
                    NEW ids, ids = Pushable(n), NEW docs, docs = copy[n],
                    NEW r, r = [Idle EXCEPT !.pc = pc, !.op = op, !.sure = sure, !.name = n, !.docs = docs,
                                            !.ids = ids],
                    NEW u, u = [r EXCEPT !.away = Unfollowed \ {}]
             PROVE  LossInv'
  OBVIOUS
<1>1. Work(p, u) /\ Calm
  BY DEF Remove, Begin, Calm, history, others, svc, storeVars, deleteVars
<1>2. /\ u.pc = pc /\ u.op = op /\ u.sure = sure /\ u.docs = docs /\ u.ids = ids /\ u.sent = NoDocs
  BY DEF Idle
<1>3. StoreBacked /\ Steady /\ \A d \in Doc : \A s : BackedNext(d, s) <=> Backed(d, s)
  BY <1>1, CalmKeeps DEF LossInv
<1>4. \A d \in Doc : docs[d] <= latest'[d] /\ NoDocs[d] = 0 /\ latest'[d] \in Nat
  BY <1>1, <1>3, Numbers DEF StoreBacked, Calm, NoDocs
<1>5. Within(u)'
  BY <1>2, <1>4 DEF Within
<1>6. SentBacked(u)' /\ RemoveAllExcused(u)' /\ MergeBacked(u)'
  BY <1>2 DEF SentBacked, Answered, Settling, RemoveAllExcused, MergeBacked, Moving
<1>7. RemoveBacked(u)'
  <2> SUFFICES ASSUME op = "remove", ~sure, NEW d \in Doc, docs[d] > 0, pc = "removePush" => d \notin ids
               PROVE  BackedNext(d, docs[d])
    BY <1>2 DEF RemoveBacked, Backed, BackedNext
  <2>1. ~all /\ d \notin Pushable(n)
    OBVIOUS
  <2>2. <<n, d>> \notin rejected
    <3>1. Copies(n, In(n)) \cap rejected = {}
      BY <2>1 DEF Remove
    <3> QED BY <3>1 DEF Copies, In
  <2>3. <<n, d>> \notin dirty
    BY <2>1, <2>2 DEF Pushable, Dirty
  <2> QED BY <2>3, <1>3 DEF StoreBacked
<1>8. TaskBacked(u)'
  BY <1>5, <1>6, <1>7 DEF TaskBacked
<1>9. SameWork(u, at'[p]) /\ \A q \in Proc : q # p => SameWork(at[q], at'[q])
  BY <1>1, OthersSame DEF SameWork
<1> QED BY <1>1, <1>8, <1>9, CalmStep

\* What a step drops is on the service, or the user confirmed it.
LEMMA LossDrop ==
  ASSUME TypeInv, TypeInv', LossInv, NEW p \in Proc, Drop(p)
  PROVE  LossInv'
<1> SUFFICES ASSUME NEW n, n = at[p].name,
                    NEW X, X = {d \in In(n) : \/ at[p].sure \/ at[p].op = "merge"
                                              \/ copy[n][d] # at[p].docs[d]}
             PROVE  LossInv'
  OBVIOUS
<1>1. /\ at[p].pc = "drop" /\ UNCHANGED <<rows, queue, latest>>
      /\ copy' = [copy EXCEPT ![n] = NoDocs] /\ dirty' = dirty \ Copies(n, Doc)
      /\ excused' = excused \cup X
  BY DEF Drop, At, svc, deleteVars
<1>2. n \in Name
  BY <1>1, AtPlace DEF Nameless
<1>3. /\ \A m \in Name, d \in Doc : copy'[m][d] = IF m = n THEN 0 ELSE copy[m][d]
      /\ \A m \in Name, d \in Doc : copy[m][d] \in Nat /\ copy[m][d] <= latest[d]
      /\ \A d \in Doc : latest[d] \in Nat
  <2>1. copy \in [Name -> Revs]
    BY StoreFacts
  <2>2. \A m \in Name, d \in Doc : copy[m][d] \in Nat /\ copy[m][d] <= latest[d]
    BY Numbers DEF LossInv, StoreBacked
  <2>3. \A d \in Doc : NoDocs[d] = 0
    BY DEF NoDocs
  <2> QED BY <1>1, <1>2, <2>1, <2>2, <2>3, Numbers
<1>4. \A d \in Doc : \A r : Backed(d, r) => BackedNext(d, r)
  BY <1>1 DEF Backed, BackedNext
<1>5. Steady
  <2>1. \A d \in Doc : latest[d] \in Nat /\ (d \in excused => d \in excused')
    BY <1>1, Numbers
  <2> QED BY <1>1, <1>4, <2>1 DEF Steady
<1>6. CopiesKept
  <2>1. ASSUME NEW d \in Doc, copy[n][d] > 0
        PROVE  BackedNext(d, copy[n][d])
    <3>1. CASE d \in X
      BY <3>1, <1>1 DEF BackedNext
    <3>2. CASE d \notin X
      <4>1. ~at[p].sure /\ at[p].op # "merge" /\ copy[n][d] = at[p].docs[d]
        BY <3>2, <2>1 DEF In
      <4>2. at[p].op \in {"remove", "removeAll"}
        BY <1>1, <4>1, AtPlace DEF TaskOK, OnItsWay, Task, Op, Pushing, Pulling
      <4>3. TaskBacked(at[p])
        BY DEF LossInv
      <4>4. Backed(d, at[p].docs[d])
        BY <1>1, <2>1, <4>1, <4>2, <4>3 DEF TaskBacked, RemoveBacked, RemoveAllExcused, Backed
      <4> QED BY <4>1, <4>4, <1>4
    <3> QED BY <3>1, <3>2
  <2> QED BY <2>1, <1>3 DEF CopiesKept
<1>7. NewestKept
  BY <1>1 DEF NewestKept
<1>8. StoreBacked'
  <2>1. ASSUME NEW m \in Name, NEW d \in Doc, copy'[m][d] > 0, <<m, d>> \notin dirty'
        PROVE  BackedNext(d, copy'[m][d])
    <3>1. m # n /\ copy'[m][d] = copy[m][d] /\ <<m, d>> \notin dirty
      BY <2>1, <1>1, <1>3 DEF Copies
    <3> QED BY <2>1, <3>1, <1>4 DEF LossInv, StoreBacked
  <2>2. \A m \in Name, d \in Doc : copy'[m][d] <= latest[d]
    BY <1>3
  <2>3. queue' \subseteq excused' /\ \A d \in Doc : rows'[d] # NoRow => rows'[d].rev <= latest'[d]
    BY <1>1 DEF LossInv, StoreBacked
  <2> QED BY <2>1, <2>2, <2>3, <1>1 DEF StoreBacked, Backed, BackedNext
<1>9. CASE Work(p, Idle)
  <2>1. TaskBacked(Idle)'
    BY IdleClean, CleanNext
  <2> QED BY <1>5, <1>6, <1>7, <1>8, <1>9, <2>1, OthersSame, LossSteps
<1>10. CASE Then(p, "redirect")
  <2> SUFFICES ASSUME NEW u, u = [at[p] EXCEPT !.pc = "redirect"] PROVE LossInv'
    OBVIOUS
  <2>1. Work(p, u)
    BY <1>10 DEF Then
  <2>2. Onward(at[p], u)
    BY <1>1, OnwardPlaces, ThenOnward
  <2>3. TaskBacked(at[p])
    BY DEF LossInv
  <2>4. TaskBacked(u)'
    BY <1>5, <2>2, <2>3, OnwardBacked
  <2> QED BY <1>5, <1>6, <1>7, <1>8, <2>1, <2>4, OthersSame, LossSteps
<1> QED BY <1>9, <1>10 DEF Drop

LEMMA LossRemoveSettle ==
  ASSUME TypeInv, TypeInv', LossInv, NEW p \in Proc, RemoveSettle(p)
  PROVE  LossInv'
<1> SUFFICES ASSUME NEW n, n = at[p].name, NEW ids, ids = at[p].ids,
                    NEW docs, docs = [d \in Doc |-> IF d \in ids THEN copy[n][d] ELSE at[p].docs[d]],
                    NEW u, u = [at[p] EXCEPT !.pc = "unfollow", !.sent = NoDocs, !.docs = docs]
             PROVE  LossInv'
  OBVIOUS
<1>1. /\ at[p].pc = "removeSettle" /\ Settle(n, at[p].sent)
      /\ UNCHANGED <<rows, copy, queue, excused, latest>>
  BY DEF RemoveSettle, At, svc, deleteVars, history, others
<1>2. /\ n \in Name /\ TaskBacked(at[p]) /\ at[p].op = "remove"
      /\ \A d \in Doc : at[p].sent[d] > 0 /\ d \notin Refused => Backed(d, at[p].sent[d])
  <2>1. TaskBacked(at[p])
    BY DEF LossInv
  <2>2. n \in Name /\ at[p].op = "remove"
    BY <1>1, AtPlace DEF TaskOK, OnItsWay, Task, Op, Pushing, Pulling, Nameless
  <2> QED BY <1>1, <2>1, <2>2 DEF TaskBacked, SentBacked, Answered, Settling
<1>3. /\ Steady /\ CopiesKept /\ NewestKept /\ StoreBacked'
      /\ \A d \in Doc : \A r : BackedNext(d, r) <=> Backed(d, r)
  BY <1>1, <1>2, SettleKeeps
<1>4. CASE (at[p].sure \/ Missing(n, ids) = {}) /\ Work(p, u)
  <2>1. u.pc = "unfollow" /\ u.op = "remove" /\ u.sure = at[p].sure /\ u.docs = docs /\ u.sent = NoDocs
    BY <1>2, AtPlace DEF Task
  <2>2. Within(u)'
    <3>1. \A d \in Doc : docs[d] <= latest[d] /\ NoDocs[d] = 0 /\ latest[d] \in Nat
      BY <1>2, Numbers DEF TaskBacked, Within, NoDocs, LossInv, StoreBacked
    <3> QED BY <1>1, <2>1, <3>1 DEF Within
  <2>3. SentBacked(u)' /\ RemoveAllExcused(u)' /\ MergeBacked(u)'
    BY <2>1 DEF SentBacked, Answered, Settling, RemoveAllExcused, MergeBacked, Moving
  <2>4. RemoveBacked(u)'
    <3> SUFFICES ASSUME ~at[p].sure, NEW d \in Doc, docs[d] > 0 PROVE BackedNext(d, docs[d])
      BY <2>1 DEF RemoveBacked, Backed, BackedNext
    <3>1. CASE d \in ids
      <4>1. <<n, d>> \notin dirty' /\ docs[d] = copy[n][d] /\ copy'[n][d] = copy[n][d]
        BY <3>1, <1>1, <1>4 DEF Missing
      <4> QED BY <4>1, <1>2, <1>3 DEF StoreBacked, Backed, BackedNext
    <3>2. CASE d \notin ids
      <4>1. docs[d] = at[p].docs[d]
        BY <3>2
      <4>2. Backed(d, at[p].docs[d])
        BY <3>2, <4>1, <1>1, <1>2 DEF TaskBacked, RemoveBacked
      <4> QED BY <4>1, <4>2, <1>3
    <3> QED BY <3>1, <3>2
  <2>5. TaskBacked(u)'
    BY <2>2, <2>3, <2>4 DEF TaskBacked
  <2> QED BY <1>3, <1>4, <2>5, OthersSame, LossSteps
<1>5. CASE Work(p, Idle)
  <2>1. TaskBacked(Idle)'
    BY IdleClean, CleanNext
  <2> QED BY <1>3, <1>5, <2>1, OthersSame, LossSteps
<1> QED BY <1>4, <1>5 DEF RemoveSettle

LEMMA LossRemoving ==
  ASSUME TypeInv, TypeInv', LossInv, NEW p \in Proc, Removing(p)
  PROVE  LossInv'
<1>0. TaskBacked(at[p]) /\ StoreBacked
  BY DEF LossInv
<1>1. CASE QueueAll(p)
  <2> SUFFICES ASSUME NEW ds, ds = {d \in Doc : at[p].docs[d] > 0},
                      NEW u, u = [at[p] EXCEPT !.pc = "unfollow"]
               PROVE  LossInv'
    OBVIOUS
  <2>1. /\ at[p].pc = "queueAll" /\ Work(p, u) /\ UNCHANGED <<rows, copy, dirty, latest>>
        /\ queue' = queue \cup OwnOf(ds) /\ excused' = excused \cup ds
    BY <1>1 DEF QueueAll, At, Then, svc, storeVars, others
  <2>2. \A d \in Doc, r \in Nat : Backed(d, r) => BackedNext(d, r)
    BY <2>1 DEF Backed, BackedNext
  <2>3. \A d \in Doc : latest[d] \in Nat /\ \A m \in Name : copy[m][d] \in Nat
    BY Numbers
  <2>4. Steady /\ CopiesKept /\ NewestKept
    BY <2>1, <2>2, <2>3 DEF Steady, CopiesKept, NewestKept
  <2>5. StoreBacked'
    <3>1. queue' \subseteq excused'
      BY <2>1, <1>0 DEF StoreBacked, OwnOf
    <3>2. ASSUME NEW m \in Name, NEW d \in Doc, copy'[m][d] > 0, <<m, d>> \notin dirty'
          PROVE  BackedNext(d, copy'[m][d])
      BY <3>2, <2>1, <2>2, <2>3, <1>0 DEF StoreBacked
    <3> QED BY <3>1, <3>2, <2>1, <1>0 DEF StoreBacked, Backed, BackedNext
  <2>6. /\ u.pc = "unfollow" /\ u.op = at[p].op /\ u.sure = at[p].sure /\ u.docs = at[p].docs
        /\ u.sent = at[p].sent /\ at[p].op = "removeAll"
    <3>1. at[p].op = "removeAll"
      BY <2>1, AtPlace DEF TaskOK, OnItsWay, Task, Op, Pushing, Pulling
    <3> QED BY <3>1, AtPlace DEF Task
  <2>7. Within(u)'
    BY <2>1, <2>6, <1>0 DEF TaskBacked, Within
  <2>8. SentBacked(u)' /\ RemoveBacked(u)' /\ MergeBacked(u)'
    BY <2>6 DEF SentBacked, Answered, Settling, RemoveBacked, MergeBacked, Moving
  <2>9. RemoveAllExcused(u)'
    BY <2>1, <2>6 DEF RemoveAllExcused
  <2>10. TaskBacked(u)'
    BY <2>7, <2>8, <2>9 DEF TaskBacked
  <2> QED BY <2>1, <2>4, <2>5, <2>10, OthersSame, LossSteps
<1>2. CASE RemovePush(p)
  <2> SUFFICES ASSUME NEW n, n = at[p].name, NEW sent, sent = Unsent(n, at[p].ids),
                      NEW u, u = [at[p] EXCEPT !.pc = "removeSettle", !.sent = sent]
               PROVE  LossInv'
    OBVIOUS
  <2>1. /\ at[p].pc = "removePush" /\ Upsert(n, sent) /\ Work(p, u)
        /\ UNCHANGED <<copy, dirty, queue, latest>>
    BY <1>2 DEF RemovePush, At, storeVars, deleteVars, others
  <2>2. n \in Name /\ at[p].op = "remove"
    BY <2>1, AtPlace DEF TaskOK, OnItsWay, Task, Op, Pushing, Pulling, Nameless
  <2>3. sent \in Revs /\ \A d \in Doc : sent[d] <= latest[d]
    BY <1>0, <2>2, UnsentBounded
  <2>4. /\ \A d \in Doc : d \in excused => d \in excused'
        /\ \A d \in Doc, r \in Nat : Backed(d, r) => BackedNext(d, r)
        /\ \A d \in Doc : rows'[d] # NoRow => rows'[d].rev <= latest[d]
        /\ \A d \in Doc : sent[d] > 0 /\ d \notin Refused => BackedNext(d, sent[d])
    BY <1>0, <2>1, <2>2, <2>3, UpsertKeeps
  <2>5. Steady /\ CopiesKept /\ NewestKept /\ StoreBacked'
    BY <1>0, <2>1, <2>4, SendKeeps
  <2>6. /\ u.pc = "removeSettle" /\ u.op = "remove" /\ u.sure = at[p].sure /\ u.docs = at[p].docs
        /\ u.sent = sent /\ u.ids = at[p].ids
    BY <2>2, AtPlace DEF Task
  <2>7. Within(u)'
    BY <2>1, <2>3, <2>6, <1>0 DEF TaskBacked, Within
  <2>8. SentBacked(u)' /\ RemoveAllExcused(u)' /\ MergeBacked(u)'
    BY <2>4, <2>6 DEF SentBacked, Settling, RemoveAllExcused, MergeBacked, Moving, Backed, BackedNext
  <2>9. RemoveBacked(u)'
    <3>1. \A d \in Doc : at[p].docs[d] \in Nat
      BY Numbers
    <3> SUFFICES ASSUME ~at[p].sure, NEW d \in Doc, at[p].docs[d] > 0, d \notin at[p].ids
                 PROVE  BackedNext(d, at[p].docs[d])
      BY <2>6 DEF RemoveBacked, Backed, BackedNext
    <3>2. Backed(d, at[p].docs[d])
      BY <2>1, <2>2, <1>0 DEF TaskBacked, RemoveBacked
    <3> QED BY <3>1, <3>2, <2>4
  <2>10. TaskBacked(u)'
    BY <2>7, <2>8, <2>9 DEF TaskBacked
  <2> QED BY <2>1, <2>5, <2>10, OthersSame, LossSteps
<1>3. CASE RemovePushFails(p)
  <2>1. /\ at[p].pc = "removePush" /\ UNCHANGED <<copy, dirty, queue, latest>>
        /\ Upsert(at[p].name, Unsent(at[p].name, at[p].ids)) \/ UNCHANGED <<rows, excused>>
    BY <1>3 DEF RemovePushFails, At, svc, storeVars, deleteVars, others
  <2>2. at[p].name \in Name
    BY <2>1, AtPlace DEF Nameless
  <2>3. Steady /\ CopiesKept /\ NewestKept /\ StoreBacked'
    BY <1>0, <2>1, <2>2, RequestKeeps
  <2>4. CASE at[p].sure
    <3> SUFFICES ASSUME NEW u, u = [at[p] EXCEPT !.pc = "unfollow"] PROVE LossInv'
      OBVIOUS
    <3>1. Work(p, u)
      BY <1>3, <2>4 DEF RemovePushFails, Then
    <3>2. u.pc = "unfollow" /\ u.op = at[p].op /\ u.sure = at[p].sure /\ u.docs = at[p].docs /\ u.sent = at[p].sent
      BY AtPlace DEF Task
    <3>3. Onward(at[p], u)
      BY <2>1, <2>4, <3>2 DEF Onward, Carries, Answered, Settling
    <3>4. TaskBacked(u)'
      BY <1>0, <2>3, <3>3, OnwardBacked
    <3> QED BY <2>3, <3>1, <3>4, OthersSame, LossSteps
  <2>5. CASE ~at[p].sure
    <3>1. Work(p, Idle)
      BY <1>3, <2>5 DEF RemovePushFails
    <3>2. TaskBacked(Idle)'
      BY IdleClean, CleanNext
    <3> QED BY <2>3, <3>1, <3>2, OthersSame, LossSteps
  <2> QED BY <2>4, <2>5
<1>4. CASE Unfollow(p)
  <2> SUFFICES ASSUME NEW pc, pc = IF at[p].op = "remove" THEN "leave" ELSE "drop" PROVE LossInv'
    OBVIOUS
  <2>1. Calm /\ Work(p, [at[p] EXCEPT !.pc = pc]) /\ at[p].pc = "unfollow"
    BY <1>4 DEF Unfollow, Then, At, Calm, svc, storeVars, deleteVars
  <2>2. Onward(at[p], [at[p] EXCEPT !.pc = pc])
    BY <2>1, OnwardPlaces, ThenOnward
  <2> QED BY <2>1, <2>2, LossOnward
<1>5. CASE Leave(p)
  <2>1. Calm /\ Work(p, [at[p] EXCEPT !.pc = "drop"]) /\ at[p].pc = "leave"
    BY <1>5 DEF Leave, Then, At, Calm, svc, storeVars, deleteVars
  <2>2. Onward(at[p], [at[p] EXCEPT !.pc = "drop"])
    BY <2>1, OnwardPlaces, ThenOnward
  <2> QED BY <2>1, <2>2, LossOnward
<1> QED BY <1>1, <1>2, <1>3, <1>4, <1>5, LossRemove, LossRemoveSettle, LossDrop DEF Removing

LEMMA LossMergeBegin ==
  ASSUME TypeInv, TypeInv', LossInv, NEW p \in Proc, NEW from \in Name, NEW into \in Name, Merge(p, from, into)
  PROVE  LossInv'
<1> SUFFICES ASSUME NEW pc, pc = IF In(from) = {} THEN "mergeRemove" ELSE "mergeCopy",
                    NEW sent, sent = Unsent(from, Doc), NEW docs, docs = copy[from],
                    NEW r, r = [Idle EXCEPT !.pc = pc, !.op = "merge", !.name = from, !.into = into,
                                            !.docs = docs, !.sent = sent],
                    NEW u, u = [r EXCEPT !.away = Unfollowed \ {into}]
             PROVE  LossInv'
  OBVIOUS
<1>1. Work(p, u) /\ Calm
  BY DEF Merge, Begin, Calm, history, others, svc, storeVars, deleteVars
<1>2. u.pc = pc /\ u.op = "merge" /\ u.docs = docs /\ u.sent = sent
  BY DEF Idle
<1>3. \A d \in Doc : docs[d] <= latest'[d] /\ sent[d] <= latest'[d]
  BY <1>1, UnsentBounded DEF LossInv, StoreBacked, Calm
<1>4. TaskBacked(u)'
  BY <1>2, <1>3 DEF TaskBacked, Within, SentBacked, Answered, Settling, RemoveBacked, RemoveAllExcused,
     MergeBacked, Moving
<1>5. SameWork(u, at'[p]) /\ \A q \in Proc : q # p => SameWork(at[q], at'[q])
  BY <1>1, OthersSame DEF SameWork
<1> QED BY <1>1, <1>4, <1>5, CalmStep

LEMMA LossMergeCopy ==
  ASSUME TypeInv, TypeInv', LossInv, NEW p \in Proc, MergeCopy(p)
  PROVE  LossInv'
<1> SUFFICES ASSUME NEW n, n = at[p].into, NEW docs, docs = at[p].docs,
                    NEW M, M = Moved(p), NEW ids, ids = In(n),
                    NEW u, u = [at[p] EXCEPT !.pc = "mergeVerify", !.ids = ids]
             PROVE  LossInv'
  OBVIOUS
<1>1. /\ at[p].pc = "mergeCopy" /\ Work(p, u) /\ UNCHANGED <<rows, queue, latest>>
      /\ copy' = [copy EXCEPT ![n] = [d \in Doc |-> IF d \in M THEN docs[d] ELSE copy[n][d]]]
      /\ dirty' = dirty \cup Copies(n, M)
      /\ excused' = excused \cup {d \in M : copy[n][d] > docs[d]}
  BY DEF MergeCopy, At, svc, deleteVars, others
<1>2. n \in Name /\ at[p].op = "merge" /\ TaskBacked(at[p]) /\ StoreBacked
  BY <1>1, AtPlace, Merges DEF LossInv
<1>3. /\ \A m \in Name, d \in Doc : copy'[m][d] = IF m = n /\ d \in M THEN docs[d] ELSE copy[m][d]
      /\ \A m \in Name, d \in Doc : copy[m][d] \in Nat /\ copy[m][d] <= latest[d]
      /\ \A d \in Doc : latest[d] \in Nat /\ docs[d] \in Nat /\ docs[d] <= latest[d]
      /\ \A d \in Doc : d \in M <=> docs[d] > 0
  <2>1. copy \in [Name -> Revs]
    BY StoreFacts
  <2>2. \A m \in Name, d \in Doc : copy[m][d] \in Nat /\ copy[m][d] <= latest[d]
    BY <1>2, Numbers DEF StoreBacked
  <2>3. \A d \in Doc : latest[d] \in Nat /\ docs[d] \in Nat /\ docs[d] <= latest[d]
    BY <1>2, Numbers DEF TaskBacked, Within
  <2>4. \A d \in Doc : d \in M <=> docs[d] > 0
    BY DEF Moved
  <2> QED BY <1>1, <1>2, <2>1, <2>2, <2>3, <2>4
<1>4. \A d \in Doc : \A r : Backed(d, r) => BackedNext(d, r)
  BY <1>1 DEF Backed, BackedNext
<1>5. Steady
  <2>1. \A d \in Doc : latest'[d] >= latest[d] /\ (d \in excused => d \in excused')
    BY <1>1, <1>3
  <2> QED BY <1>4, <2>1 DEF Steady
<1>6. CopiesKept
  <2>1. ASSUME NEW m \in Name, NEW d \in Doc PROVE copy'[m][d] >= copy[m][d] \/ BackedNext(d, copy[m][d])
    <3>1. CASE m = n /\ d \in M /\ copy[n][d] > docs[d]
      BY <3>1, <1>1 DEF BackedNext
    <3>2. CASE ~(m = n /\ d \in M /\ copy[n][d] > docs[d])
      BY <3>2, <1>3
    <3> QED BY <3>1, <3>2
  <2> QED BY <2>1 DEF CopiesKept
<1>7. NewestKept
  BY <1>1 DEF NewestKept
<1>8. StoreBacked'
  <2>1. ASSUME NEW m \in Name, NEW d \in Doc, copy'[m][d] > 0, <<m, d>> \notin dirty'
        PROVE  BackedNext(d, copy'[m][d])
    <3>1. ~(m = n /\ d \in M) /\ <<m, d>> \notin dirty
      BY <2>1, <1>1 DEF Copies
    <3> QED BY <2>1, <3>1, <1>2, <1>3, <1>4 DEF StoreBacked
  <2>2. \A m \in Name, d \in Doc : copy'[m][d] <= latest[d]
    BY <1>3
  <2>3. queue' \subseteq excused' /\ \A d \in Doc : rows'[d] # NoRow => rows'[d].rev <= latest'[d]
    BY <1>1, <1>2 DEF StoreBacked
  <2> QED BY <2>1, <2>2, <2>3, <1>1 DEF StoreBacked, Backed, BackedNext
<1>9. u.pc = "mergeVerify" /\ u.op = "merge" /\ u.docs = docs /\ u.sent = at[p].sent /\ u.into = n
  BY <1>2, AtPlace DEF Task
<1>10. Within(u)'
  BY <1>1, <1>2, <1>9 DEF TaskBacked, Within
<1>11. SentBacked(u)' /\ RemoveBacked(u)' /\ RemoveAllExcused(u)'
  BY <1>9 DEF SentBacked, Answered, Settling, RemoveBacked, RemoveAllExcused
<1>12. MergeBacked(u)'
  <2>1. \A d \in Doc : docs[d] > 0 => copy'[n][d] >= docs[d]
    BY <1>2, <1>3
  <2> QED BY <1>9, <2>1 DEF MergeBacked, Moving
<1>13. TaskBacked(u)'
  BY <1>10, <1>11, <1>12 DEF TaskBacked
<1> QED BY <1>1, <1>5, <1>6, <1>7, <1>8, <1>13, OthersSame, LossSteps

\* Under its lock: the copy that goes is in the target, or on the service, or
\* another merge relies on it.
LEMMA LossMergeMove ==
  ASSUME TypeInv, TypeInv', LossInv, NEW p \in Proc, NEW d \in Doc, MergeMove(p, d)
  PROVE  LossInv'
<1> SUFFICES ASSUME NEW f, f = at[p].name, NEW n, n = at[p].into, NEW docs, docs = at[p].docs,
                    NEW again \in BOOLEAN,
                    again = (copy[f][d] > 0 /\ (copy[f][d] # docs[d] \/ Unsent(f, {d})[d] # at[p].sent[d])),
                    NEW to, to = IF again THEN copy[f][d] ELSE copy[n][d],
                    NEW ids, ids = at[p].ids \ {d},
                    NEW pc, pc = IF at[p].ids = {d} THEN "mergeCheck" ELSE at[p].pc,
                    NEW u, u = [at[p] EXCEPT !.ids = ids, !.pc = pc]
             PROVE  LossInv'
  OBVIOUS
<1>1. /\ at[p].pc = "mergeMove" /\ d \in at[p].ids
      /\ copy' = [copy EXCEPT ![f][d] = 0, ![n][d] = to]
      /\ dirty' = (dirty \ {<<f, d>>}) \cup (IF again THEN {<<n, d>>} ELSE {})
      /\ excused' = excused \cup {e \in {d} : copy[n][d] > to \/ d \in MovingInto(f)}
      /\ UNCHANGED <<rows, queue, latest>>
  BY DEF MergeMove, At, svc, deleteVars
<1>2. Work(p, u)
  BY DEF MergeMove
<1>3. /\ f \in Name /\ n \in Name /\ f # n /\ at[p].op = "merge"
      /\ TaskBacked(at[p]) /\ StoreBacked
  BY <1>1, AtPlace, Merges DEF LossInv
<1>4. /\ \A m \in Name, e \in Doc : copy[m][e] \in Nat /\ copy[m][e] <= latest[e]
      /\ \A e \in Doc : latest[e] \in Nat /\ docs[e] \in Nat /\ docs[e] <= latest[e] /\ at[p].sent[e] <= latest[e]
  BY <1>3, Numbers DEF StoreBacked, TaskBacked, Within
<1>5. \A m \in Name, e \in Doc :
        copy'[m][e] = IF e = d /\ m = f THEN 0 ELSE IF e = d /\ m = n THEN to ELSE copy[m][e]
  <2>1. copy \in [Name -> Revs]
    BY StoreFacts
  <2> QED BY <1>1, <1>3, <2>1 DEF Revs
<1>6. \A e \in Doc : \A r : Backed(e, r) => BackedNext(e, r)
  BY <1>1 DEF Backed, BackedNext
<1>7. Steady
  <2>1. \A e \in Doc : latest'[e] >= latest[e] /\ (e \in excused => e \in excused')
    BY <1>1, <1>4
  <2> QED BY <1>6, <2>1 DEF Steady
<1>8. docs[d] > 0 /\ (Backed(d, docs[d]) \/ copy[n][d] >= docs[d])
  <2>1. docs[d] > 0
    BY <1>1, <1>3 DEF TaskBacked, MergeBacked
  <2>2. Moving(at[p], d)
    BY <1>1, <2>1 DEF Moving
  <2> QED BY <1>3, <2>1, <2>2 DEF TaskBacked, MergeBacked
<1>9. CopiesKept
  <2> SUFFICES ASSUME NEW m \in Name, NEW e \in Doc
               PROVE  \/ copy'[m][e] >= copy[m][e]
                      \/ BackedNext(e, copy[m][e])
                      \/ e \notin MovingInto(m) /\ \E k \in Name : copy'[k][e] >= copy[m][e]
    BY DEF CopiesKept
  <2>1. CASE ~(e = d /\ m \in {f, n})
    <3>1. copy'[m][e] = copy[m][e]
      BY <2>1, <1>5
    <3> QED BY <3>1, <1>4
  <2>2. CASE e = d /\ m = n
    <3>1. copy'[m][e] = to
      BY <2>2, <1>3, <1>5
    <3>2. CASE copy[n][d] > to
      BY <3>2, <2>2, <1>1 DEF BackedNext
    <3>3. CASE ~(copy[n][d] > to)
      BY <3>1, <3>3, <2>2, <1>3, <1>4
    <3> QED BY <3>2, <3>3
  <2>3. CASE e = d /\ m = f
    <3>1. CASE d \in MovingInto(f)
      BY <3>1, <2>3, <1>1 DEF BackedNext
    <3>2. CASE copy[f][d] = 0
      BY <3>2, <2>3, <1>3, <1>5
    <3>3. CASE d \notin MovingInto(f) /\ copy[f][d] > 0 /\ again
      <4>1. copy'[n][d] = copy[f][d]
        BY <3>3, <1>3, <1>5
      <4> QED BY <4>1, <3>3, <2>3, <1>3, <1>4
    <3>4. CASE d \notin MovingInto(f) /\ copy[f][d] > 0 /\ ~again
      <4>1. copy[f][d] = docs[d] /\ copy'[n][d] = copy[n][d]
        BY <3>4, <1>3, <1>5
      <4> QED BY <4>1, <3>4, <2>3, <1>3, <1>6, <1>8
    <3> QED BY <3>1, <3>2, <3>3, <3>4, <1>3, <1>4
  <2> QED BY <2>1, <2>2, <2>3
<1>10. NewestKept
  BY <1>1 DEF NewestKept
<1>11. StoreBacked'
  <2>1. ASSUME NEW m \in Name, NEW e \in Doc, copy'[m][e] > 0, <<m, e>> \notin dirty'
        PROVE  BackedNext(e, copy'[m][e])
    <3>1. ~(e = d /\ m = f)
      BY <2>1, <1>5
    <3>2. copy'[m][e] = copy[m][e]
      <4>1. CASE e = d /\ m = n
        <5>1. ~again
          BY <2>1, <4>1, <1>1
        <5> QED BY <4>1, <5>1, <1>3, <1>5
      <4>2. CASE ~(e = d /\ m = n)
        BY <3>1, <4>2, <1>5
      <4> QED BY <4>1, <4>2
    <3>3. <<m, e>> \notin dirty
      BY <2>1, <3>1, <1>1
    <3> QED BY <2>1, <3>2, <3>3, <1>3, <1>6 DEF StoreBacked
  <2>2. \A m \in Name, e \in Doc : copy'[m][e] <= latest[e]
    BY <1>3, <1>4, <1>5
  <2>3. queue' \subseteq excused' /\ \A e \in Doc : rows'[e] # NoRow => rows'[e].rev <= latest'[e]
    BY <1>1, <1>3 DEF StoreBacked
  <2> QED BY <2>1, <2>2, <2>3, <1>1 DEF StoreBacked, Backed, BackedNext
<1>12. /\ u.pc = pc /\ u.ids = ids /\ u.op = "merge" /\ u.docs = docs /\ u.sent = at[p].sent /\ u.into = n
       /\ pc \in {"mergeMove", "mergeCheck"}
  BY <1>1, <1>3, AtPlace DEF Task
<1>13. Within(u)'
  BY <1>1, <1>4, <1>12 DEF Within
<1>14. SentBacked(u)' /\ RemoveBacked(u)' /\ RemoveAllExcused(u)'
  BY <1>12 DEF SentBacked, Answered, Settling, RemoveBacked, RemoveAllExcused
<1>15. MergeBacked(u)'
  <2>1. ids \subseteq at[p].ids /\ ids \subseteq Doc /\ d \notin ids
    BY AtPlace
  <2>2. \A e \in at[p].ids : docs[e] > 0
    BY <1>1, <1>3 DEF TaskBacked, MergeBacked
  <2>3. ASSUME NEW e \in ids PROVE BackedNext(e, docs[e]) \/ copy'[n][e] >= docs[e]
    <3>1. e \in Doc /\ Moving(at[p], e)
      BY <2>1, <2>2, <2>3, <1>1 DEF Moving
    <3>2. Backed(e, docs[e]) \/ copy[n][e] >= docs[e]
      BY <3>1, <1>3 DEF TaskBacked, MergeBacked
    <3>3. copy'[n][e] = copy[n][e]
      BY <3>1, <2>1, <2>3, <1>3, <1>5
    <3> QED BY <3>1, <3>2, <3>3, <1>6
  <2> QED BY <1>12, <2>1, <2>2, <2>3 DEF MergeBacked, Moving, Backed, BackedNext
<1>16. TaskBacked(u)'
  BY <1>13, <1>14, <1>15 DEF TaskBacked
<1> QED BY <1>2, <1>7, <1>9, <1>10, <1>11, <1>16, OthersSame, LossSteps

LEMMA LossMerging ==
  ASSUME TypeInv, TypeInv', LossInv, NEW p \in Proc, Merging(p)
  PROVE  LossInv'
<1>0. TaskBacked(at[p]) /\ StoreBacked
  BY DEF LossInv
<1>1. CASE MergeVerify(p)
  <2>0. Calm /\ at[p].pc = "mergeVerify"
    BY <1>1 DEF MergeVerify, At, Calm, svc, storeVars, deleteVars, history, others
  <2>1. CASE Work(p, Idle)
    BY <2>0, <2>1, IdleClean, LossClean
  <2> SUFFICES ASSUME NEW ids, ids = Moved(p), NEW u, u = [at[p] EXCEPT !.pc = "mergeMove", !.ids = ids],
                      Work(p, u)
               PROVE  LossInv'
    BY <1>1, <2>1 DEF MergeVerify
  <2>2. /\ u.pc = "mergeMove" /\ u.ids = ids /\ u.op = "merge" /\ u.docs = at[p].docs /\ u.sent = at[p].sent
        /\ u.into = at[p].into /\ at[p].op = "merge"
    BY <2>0, AtPlace, Merges DEF Task
  <2>3. Within(u)'
    BY <2>0, <2>2, <1>0 DEF Within, TaskBacked, Calm
  <2>4. SentBacked(u)' /\ RemoveBacked(u)' /\ RemoveAllExcused(u)'
    BY <2>2 DEF SentBacked, Answered, Settling, RemoveBacked, RemoveAllExcused
  <2>5. MergeBacked(u)'
    <3>1. \A d \in Doc : at[p].docs[d] > 0 => Backed(d, at[p].docs[d]) \/ copy[at[p].into][d] >= at[p].docs[d]
      BY <2>0, <1>0 DEF TaskBacked, MergeBacked, Moving
    <3>2. \A d \in ids : at[p].docs[d] > 0
      BY DEF Moved
    <3> QED BY <2>0, <2>2, <3>1, <3>2 DEF MergeBacked, Moving, Backed, Calm
  <2>6. TaskBacked(u)'
    BY <2>3, <2>4, <2>5 DEF TaskBacked
  <2>7. SameWork(u, at'[p]) /\ \A q \in Proc : q # p => SameWork(at[q], at'[q])
    BY OthersSame DEF SameWork
  <2> QED BY <2>0, <2>6, <2>7, CalmStep
<1>2. CASE MergeCheck(p)
  <2>0. Calm /\ at[p].pc = "mergeCheck"
    BY <1>2 DEF MergeCheck, At, Calm, svc, storeVars, deleteVars, history, others
  <2>1. CASE Work(p, Idle)
    BY <2>0, <2>1, IdleClean, LossClean
  <2>2. CASE Work(p, [at[p] EXCEPT !.pc = "mergeRemove"])
    <3>1. Onward(at[p], [at[p] EXCEPT !.pc = "mergeRemove"])
      BY <2>0, OnwardPlaces, ThenOnward
    <3> QED BY <2>0, <2>2, <3>1, LossOnward
  <2> QED BY <1>2, <2>1, <2>2 DEF MergeCheck, Then
<1>3. CASE MergeRemove(p)
  <2> SUFFICES ASSUME NEW u, u = [at[p] EXCEPT !.pc = "unfollow"] PROVE LossInv'
    OBVIOUS
  <2>1. /\ at[p].pc = "mergeRemove" /\ UNCHANGED <<copy, dirty, queue, latest>> /\ Work(p, u)
        /\ Upsert(at[p].name, Unsent(at[p].name, Doc)) \/ UNCHANGED <<rows, excused>>
    BY <1>3 DEF MergeRemove, Then, At, svc, storeVars, deleteVars, others
  <2>2. at[p].name \in Name
    BY <2>1, AtPlace DEF Nameless
  <2>3. Steady /\ CopiesKept /\ NewestKept /\ StoreBacked'
    BY <1>0, <2>1, <2>2, RequestKeeps
  <2>4. Onward(at[p], u)
    BY <2>1, OnwardPlaces, ThenOnward
  <2>5. TaskBacked(u)'
    BY <1>0, <2>3, <2>4, OnwardBacked
  <2> QED BY <2>1, <2>3, <2>5, OthersSame, LossSteps
<1>4. CASE MergeRedirect(p)
  <2>1. Calm /\ Wanted(p, at[p].into, Idle)
    BY <1>4 DEF MergeRedirect, Calm, svc, storeVars, deleteVars
  <2> QED BY <2>1, IdleClean, LossWanted
<1> QED BY <1>1, <1>2, <1>3, <1>4, LossMergeBegin, LossMergeCopy, LossMergeMove DEF Merging

LEMMA LossInit == Init => LossInv
<1> SUFFICES ASSUME Init PROVE LossInv
  OBVIOUS
<1>0. \A d \in Doc : NoDocs[d] = 0
  BY DEF NoDocs
<1>1. StoreBacked
  <2>1. ASSUME NEW n \in Name, NEW d \in Doc
        PROVE  copy[n][d] <= latest[d] /\ (copy[n][d] > 0 => Backed(d, copy[n][d]))
    <3>1. CASE Home[d] = Nowhere
      <4>1. copy[n][d] = 0 /\ latest[d] = 0
        BY <3>1, FollowingAssumption DEF Init
      <4> QED BY <4>1
    <3>2. CASE Home[d] # Nowhere
      <4>1. rows[d] = [in |-> Home[d], rev |-> 1, at |-> 1, echo |-> d \in Mine] /\ latest[d] = 1
        BY <3>2 DEF Init
      <4>2. rows[d] \in Row
        BY <3>2, <4>1, FollowingAssumption DEF Row
      <4>3. rows[d] # NoRow /\ rows[d].rev = 1
        BY <4>1, <4>2, RowAssumption
      <4>4. copy[n][d] \in {0, 1}
        BY DEF Init
      <4> QED BY <4>1, <4>3, <4>4 DEF Backed
    <3> QED BY <3>1, <3>2
  <2>2. queue \subseteq excused
    BY DEF Init
  <2>3. \A d \in Doc : rows[d] # NoRow => rows[d].rev <= latest[d]
    BY DEF Init
  <2> QED BY <2>1, <2>2, <2>3 DEF StoreBacked
<1>2. ASSUME NEW p \in Proc PROVE TaskBacked(at[p])
  <2>1. at[p].docs = NoDocs /\ at[p].sent = NoDocs /\ at[p].pc # "mergeMove"
    BY IdleClean DEF Init
  <2>2. \A d \in Doc : latest[d] \in Nat
    BY DEF Init
  <2> QED BY <2>1, <2>2, CleanBacked
<1>3. NothingLost
  <2>1. ASSUME NEW d \in Doc, latest[d] # 0 PROVE rows[d] # NoRow /\ rows[d].rev = latest[d]
    <3>1. Home[d] # Nowhere /\ latest[d] = 1
      BY <2>1 DEF Init
    <3>2. rows[d] = [in |-> Home[d], rev |-> 1, at |-> 1, echo |-> d \in Mine]
      BY <3>1 DEF Init
    <3>3. rows[d] \in Row
      BY <3>1, <3>2, FollowingAssumption DEF Row
    <3> QED BY <3>1, <3>2, <3>3, RowAssumption
  <2> QED BY <2>1 DEF NothingLost
<1> QED BY <1>1, <1>2, <1>3 DEF LossInv

LEMMA LossStep == TypeInv /\ LossInv /\ [Next]_vars => LossInv'
<1> SUFFICES ASSUME TypeInv, LossInv, [Next]_vars PROVE LossInv'
  OBVIOUS
<1>0. TypeInv'
  BY TypeStep
<1>1. ASSUME NEW p \in Session, Creating(p) \/ Subscribing(p) \/ Removing(p) \/ Merging(p) \/ Writing(p)
      PROVE  LossInv'
  <2>1. p \in Proc
    BY DEF Proc
  <2> QED BY <1>0, <1>1, <2>1, LossCreating, LossSubscribing, LossRemoving, LossMerging, LossWriting
<1>2. ASSUME NEW p \in Cycle, StartCycle(p) PROVE LossInv'
  BY <1>0, <1>2, LossCycle DEF Proc
<1>3. ASSUME NEW p \in Cycle \cup Session, Push(p) \/ Pull(p) PROVE LossInv'
  BY <1>0, <1>3, LossPush, LossPull DEF Proc
<1>4. ASSUME NEW p \in Hook, Visiting(p) PROVE LossInv'
  BY <1>0, <1>4, LossVisiting DEF Proc
<1>5. ASSUME NEW p \in Proc, Crash(p) PROVE LossInv'
  BY <1>0, <1>5, LossCycle
<1>6. ASSUME NEW n \in Name, NEW d \in Doc, Edit(n, d) \/ TeammateStores(d, n) PROVE LossInv'
  BY <1>0, <1>6, LossEdit, LossTeammate
<1>7. CASE UNCHANGED vars
  <2>1. Calm /\ UNCHANGED at
    BY <1>7 DEF vars, Calm, storeVars, deleteVars, history, others
  <2> QED BY <1>0, <2>1, LossStill
<1> QED BY <1>1, <1>2, <1>3, <1>4, <1>5, <1>6, <1>7 DEF Next

\* Removing a collection, merging it, moving documents out, pushing, pulling
\* and crashing at any point lose no document: its newest revision is on the
\* service or in the store, but for what the user confirmed deleting and the
\* cases Following lists (removeCollection's push before it deletes,
\* mergeCollections' checked copies, dropMovedOut).
THEOREM NothingIsLost == Spec => []NothingLost
<1>1. Init => TypeInv /\ LossInv
  BY TypeInit, LossInit
<1>2. TypeInv /\ LossInv /\ [Next]_vars => (TypeInv /\ LossInv)'
  BY TypeStep, LossStep
<1>3. LossInv => NothingLost
  BY DEF LossInv
<1> QED BY <1>1, <1>2, <1>3, PTL DEF Spec

-----------------------------------------------------------------------------
(* History that was left comes back.                                       *)


-----------------------------------------------------------------------------
(* History that was left comes back.                                       *)

LEMMA WorksAlone ==
  ASSUME TypeInv, NEW p \in Proc, NEW r, Work(p, r)
  PROVE  at'[p] = r /\ Alone(p)
<1>1. at \in [Proc -> Task]
  BY DEF TypeInv, TasksOK
<1> QED BY <1>1 DEF Alone, SamePull, SameWork, Work

LEMMA WantsAlone ==
  ASSUME TypeInv, NEW p \in Proc, NEW r \in Task, NEW n, Wanted(p, n, r)
  PROVE  SamePull(r, at'[p]) /\ Alone(p)
<1>1. at \in [Proc -> Task]
  BY DEF TypeInv, TasksOK
<1>2. /\ at'[p] = [r EXCEPT !.away = @ \ {n}]
      /\ \A q \in Proc : q # p => at'[q] = [at[q] EXCEPT !.away = @ \ {n}]
  BY <1>1, Wants
<1>3. \A t \in Task : SamePull(t, [t EXCEPT !.away = @ \ {n}])
  BY AwayOnly DEF SamePull, SameWork
<1> QED BY <1>1, <1>2, <1>3 DEF Alone

\* The moments in question are past.
LEMMA Moments ==
  ASSUME TypeInv
  PROVE  /\ clock \in Nat /\ pullPoint \in Nat /\ pullPoint <= clock
         /\ \A p \in Proc : at[p].start \in Nat /\ at[p].start <= clock
<1>1. clock \in Nat /\ pullPoint \in 0..clock
  BY DEF TypeInv, StoreOK
<1> QED BY <1>1, AtPlace

LEMMA CoveredKept ==
  ASSUME TypeInv, DueKept, CopyKept, NEW n \in Name, n \in owed', NEW t \in Nat, t <= clock, Moment(t), NEW S,
         Covered(n, t, S)
  PROVE  Covered(n, t, S)'
<1> SUFFICES ASSUME NEW d \in Doc, Due(d, n, t)' PROVE copy'[n][d] > 0 \/ d \in S
  BY DEF Covered
<1>1. Due(d, n, t)
  BY DEF DueKept
<1>2. copy[n][d] > 0 \/ d \in S
  BY <1>1 DEF Covered
<1> QED BY <1>2 DEF CopyKept

LEMMA SeenKept ==
  ASSUME TypeInv, DueKept, CopyKept, NEW n \in Name, n \in owed', NEW k, NEW m, SamePull(k, m),
         k.start \in Nat, k.start <= clock, k.pc \in EachOf => Moment(k.start), NEW S, Seen(k, n, S)
  PROVE  Seen(m, n, S)'
<1> SUFFICES ASSUME NEW X, X = IF k.name = n /\ k.pc = "apply" THEN S \cup Fetched(k) ELSE S,
                    NEW t, t = k.start
             PROVE  Seen(m, n, S)'
  OBVIOUS
<1>1. Moment(t) /\ Covered(n, t, X) => Covered(n, t, X)'
  BY CoveredKept
<1>2. Fetched(m) = Fetched(k)
  BY DEF Fetched, SamePull, SameWork
<1>3. X = IF m.name = n /\ m.pc = "apply" THEN S \cup Fetched(m) ELSE S
  BY <1>2 DEF SamePull, SameWork
<1> QED BY <1>1, <1>3 DEF Seen, SamePull, SameWork

\* A step of p, to work u.
LEMMA HistStep ==
  ASSUME TypeInv, TypeInv', HistInv, NEW p \in Proc, DueKept, CopyKept, Stamped', Followed',
         UNCHANGED pullPoint, Alone(p), NEW u, u = at'[p],
         u.pc \in Pushing \cup Pulling => p \in Cycling \/ Cycling = {},
         PullOK(u)',
         \A n \in owed' : /\ n \notin pending' => n \in owed /\ Whole(n, {})
                          /\ n \in owed \/ \A q \in Proc : ~Clearing(at[q], n)
                          /\ \A S \in SUBSET Doc : Whole(n, S) => Seen(u, n, S)'
                          /\ Clearing(u, n) => Whole(n, Bringing(u)) \/ Whole(n, Bringing(u))'
  PROVE  HistInv'
<1>0. owed' \subseteq Name
  BY DEF TypeInv, HistoryOK
<1>1. \A q \in Proc : q # p => at'[q].pc = at[q].pc
  BY DEF Alone, SamePull, SameWork
<1>2. OneCycle'
  <2> SUFFICES ASSUME NEW q \in Proc, NEW r \in Proc, q \in Cycling', r \in Cycling', q # r PROVE FALSE
    BY DEF OneCycle, Cycling
  <2>1. \A x \in Proc : x # p => (x \in Cycling' <=> x \in Cycling)
    BY <1>1 DEF Cycling
  <2>2. p \in Cycling' => p \in Cycling \/ Cycling = {}
    BY DEF Cycling
  <2> QED BY <2>1, <2>2 DEF HistInv, OneCycle
<1>3. \A q \in Proc : PullOK(at[q])'
  <2> SUFFICES ASSUME NEW q \in Proc PROVE PullOK(at[q])'
    OBVIOUS
  <2>1. CASE q = p
    BY <2>1 DEF PullOK, Due
  <2>2. CASE q # p
    <3> SUFFICES ASSUME NEW k, k = at[q], NEW m, m = at'[q] PROVE PullOK(m)'
      BY DEF PullOK, Due
    <3>1. SamePull(k, m) /\ PullOK(k)
      BY <2>2 DEF Alone, HistInv
    <3>2. k.pc = "moveDrop" => \A d \in k.ids : ~Due(d, k.name, k.start)'
      <4>1. k.ids \subseteq Doc /\ k.start \in Nat /\ k.start <= clock /\ (k.pc = "moveDrop" => k.name \in Name)
        BY AtPlace, Moments DEF Nameless
      <4> QED BY <3>1, <4>1 DEF DueKept, PullOK
    <3> QED BY <3>1, <3>2 DEF PullOK, SamePull, SameWork, Due
  <2> QED BY <2>1, <2>2
<1>4. ASSUME NEW n \in owed', NEW S \in SUBSET Doc, Whole(n, S) PROVE Whole(n, S)'
  <2>1. n \in Name
    BY <1>0
  <2>2. Covered(n, pullPoint, S)'
    <3> SUFFICES ASSUME NEW t, t = pullPoint PROVE Covered(n, t, S)'
      BY DEF Covered, Due
    <3>1. t \in Nat /\ t <= clock /\ Moment(t) /\ Covered(n, t, S)
      BY <1>4, Moments DEF Whole, Moment
    <3> QED BY <2>1, <3>1, CoveredKept
  <2>3. ASSUME NEW q \in Proc PROVE Seen(at[q], n, S)'
    <3> SUFFICES ASSUME NEW k, k = at[q], NEW m, m = at'[q] PROVE Seen(m, n, S)'
      BY DEF Seen, Covered, Due
    <3>1. CASE q = p
      BY <3>1, <1>4
    <3>2. CASE q # p
      <4>1. /\ SamePull(k, m) /\ Seen(k, n, S) /\ k.start \in Nat /\ k.start <= clock
            /\ k.pc \in EachOf => Moment(k.start)
        BY <3>2, <1>4, Moments DEF Alone, Whole, Moment
      <4> QED BY <2>1, <4>1, SeenKept
    <3> QED BY <3>1, <3>2
  <2> QED BY <2>2, <2>3 DEF Whole
<1>5. \A k : Bringing(k) \in SUBSET Doc
  BY DEF Bringing, Fetched
<1>6. Marked'
  <2> SUFFICES ASSUME NEW n \in owed'
               PROVE  /\ n \notin pending' => Whole(n, {})'
                      /\ \A q \in Proc : Clearing(at'[q], n) => Whole(n, Bringing(at[q]))'
    BY DEF Marked
  <2>1. n \notin pending' => Whole(n, {})'
    BY <1>4
  <2>2. ASSUME NEW q \in Proc, Clearing(at'[q], n) PROVE Whole(n, Bringing(at[q]))'
    <3> SUFFICES ASSUME NEW k, k = at[q], NEW m, m = at'[q], NEW S, S = Bringing(m) PROVE Whole(n, S)'
      BY DEF Whole, Covered, Seen, Due
    <3>1. CASE q = p
      BY <3>1, <2>2, <1>4, <1>5
    <3>2. CASE q # p
      <4>1. SamePull(k, m)
        BY <3>2 DEF Alone
      <4>2. Clearing(k, n) /\ S = Bringing(k)
        BY <2>2, <4>1 DEF Clearing, Bringing, Fetched, SamePull, SameWork
      <4>3. Whole(n, S)
        BY <4>2 DEF HistInv, Marked
      <4> QED BY <4>3, <1>4, <1>5
    <3> QED BY <3>1, <3>2
  <2> QED BY <2>1, <2>2
<1> QED BY <1>2, <1>3, <1>6 DEF HistInv

-----------------------------------------------------------------------------
\* Work that neither pulls history nor is about to clear a mark.
Apart(u) ==
  /\ u.pc \notin (Pulling \ {"pull"}) \cup {"visitApply", "visitDone"}
  /\ u.op = "visit" => u.marked \subseteq u.whole \cap {u.name}

\* A cycle that goes on, or starts when there is none.
Cycles(p, u) == u.pc \in Pushing \cup Pulling => p \in Cycling \/ Cycling = {}

LEMMA HistApart ==
  ASSUME TypeInv, TypeInv', HistInv, NEW p \in Proc, DueKept, CopyKept, Stamped', Followed',
         UNCHANGED <<pullPoint, pending>>, owed' \subseteq owed, Alone(p),
         NEW u, u = at'[p], Apart(u), Cycles(p, u)
  PROVE  HistInv'
<1>1. PullOK(u)'
  BY DEF PullOK, Apart, EachOf, Pulling
<1>2. \A n, S : Seen(u, n, S)'
  BY DEF Seen, Apart, EachOf, Pulling
<1>3. \A n : ~Clearing(u, n)
  BY DEF Clearing, Apart, Pulling
<1>4. \A n \in owed' : n \in owed /\ (n \notin pending' => Whole(n, {}))
  BY DEF HistInv, Marked
<1> QED BY <1>1, <1>2, <1>3, <1>4, HistStep DEF Cycles

\* The history a step leaves alone.
Still == UNCHANGED <<rows, copy, tombs, astray>>

LEMMA StillKeeps ==
  ASSUME HistInv, Still
  PROVE  /\ DueKept /\ CopyKept /\ Stamped'
         /\ \A d, n, t : Due(d, n, t)' <=> Due(d, n, t)
BY DEF Still, DueKept, CopyKept, HistInv, Stamped, Due

LEMMA FollowedKept ==
  ASSUME HistInv, owed' \subseteq owed, here \subseteq here', Unfollowed' \subseteq Unfollowed
  PROVE  Followed'
BY DEF HistInv, Followed

LEMMA HistQuiet ==
  ASSUME TypeInv, TypeInv', HistInv, NEW p \in Proc, NEW u, Work(p, u), Apart(u), Cycles(p, u), Still,
         UNCHANGED <<pullPoint, pending, owed, left, redirect>>, here \subseteq here'
  PROVE  HistInv'
<1>1. Followed'
  BY FollowedKept, SameUnfollowed
<1>2. DueKept /\ CopyKept /\ Stamped'
  BY StillKeeps
<1>3. at'[p] = u /\ Alone(p)
  BY WorksAlone
<1> QED BY <1>1, <1>2, <1>3, HistApart

\* A user follows a name again.
LEMMA HistWanted ==
  ASSUME TypeInv, TypeInv', HistInv, NEW p \in Proc, NEW r \in Task, NEW n, Wanted(p, n, r), Apart(r),
         r.pc \notin Pushing \cup Pulling, Still, UNCHANGED <<pullPoint, pending>>, owed' \subseteq owed, Followed'
  PROVE  HistInv'
<1> SUFFICES ASSUME NEW u, u = at'[p] PROVE HistInv'
  OBVIOUS
<1>1. DueKept /\ CopyKept /\ Stamped'
  BY StillKeeps
<1>2. SamePull(r, u) /\ Alone(p)
  BY WantsAlone
<1>3. Apart(u) /\ Cycles(p, u)
  BY <1>2 DEF Apart, Cycles, SamePull, SameWork
<1> QED BY <1>1, <1>2, <1>3, HistApart

\* A process begins.
LEMMA HistBegin ==
  ASSUME TypeInv, TypeInv', HistInv, NEW p \in Proc, NEW r \in Task, NEW ns, Begin(p, r, ns), Apart(r),
         r.pc \in Pushing \cup Pulling => Cycling = {}, UNCHANGED <<rows, copy, tombs, pullPoint, left, redirect, pending>>,
         here \subseteq here'
  PROVE  HistInv'
<1> SUFFICES ASSUME NEW u, u = [r EXCEPT !.away = Unfollowed \ ns] PROVE HistInv'
  OBVIOUS
<1>1. /\ Work(p, u) /\ Still /\ UNCHANGED <<pullPoint, pending, owed, left, redirect>>
  BY DEF Begin, Still, history, others
<1>2. u.pc = r.pc /\ u.op = r.op /\ u.marked = r.marked /\ u.whole = r.whole /\ u.name = r.name
  BY DEF Task
<1>3. Apart(u) /\ Cycles(p, u)
  BY <1>2 DEF Apart, Cycles
<1> QED BY <1>1, <1>3, HistQuiet

\* Work that goes on, apart.
LEMMA GoesOn ==
  ASSUME HistInv, NEW p \in Proc, NEW u,
         u.pc \notin (Pulling \ {"pull"}) \cup {"visitApply", "visitDone"},
         u.op # "visit" \/ (u.op = at[p].op /\ u.marked = at[p].marked /\ u.whole = at[p].whole /\ u.name = at[p].name)
  PROVE  Apart(u)
BY DEF Apart, HistInv, PullOK

LEMMA ThenApart ==
  ASSUME TypeInv, HistInv, NEW p \in Proc, NEW pc \in PC \ (Pulling \cup Pushing \cup {"visitApply", "visitDone"}),
         NEW u, u = [at[p] EXCEPT !.pc = pc]
  PROVE  u \in Task /\ Apart(u) /\ Cycles(p, u) /\ u.pc = pc
<1>1. u \in Task /\ u.pc = pc /\ u.op = at[p].op /\ u.marked = at[p].marked /\ u.whole = at[p].whole /\ u.name = at[p].name
  BY AtPlace DEF Task
<1> QED BY <1>1, GoesOn DEF Cycles

LEMMA IdleApart ==
  ASSUME NEW p
  PROVE  Idle \in Task /\ Apart(Idle) /\ Cycles(p, Idle) /\ Idle.pc \notin Pushing \cup Pulling
BY Revisions DEF Apart, Cycles, Idle, Pushing, Pulling

LEMMA ApartPlaces ==
  {"uncreate", "rejoin", "resubscribe", "backfill", "unredirect", "unleave", "make", "subFetch", "subApply",
   "subCycle", "queueAll", "removePush", "removeSettle", "unfollow", "leave", "drop", "mergeCopy",
   "mergeVerify", "mergeMove", "mergeCheck", "mergeRemove", "redirect", "add", "visitFetch", "visitFollow"}
    \subseteq PC \ (Pulling \cup Pushing \cup {"visitApply", "visitDone"})
BY DEF PC, Pulling, Pushing

\* What the service stores for this user is no teammate's.
LEMMA UpsertStored ==
  ASSUME TypeInv, Stamped, NEW n \in Name, NEW revs \in Revs, Upsert(n, revs), UNCHANGED <<tombs, astray>>
  PROVE  Stamped' /\ DueKept
<1> DEFINE new(d) == [in |-> n, rev |-> revs[d], at |-> clock + 1, echo |-> TRUE]
<1>1. \A d \in Doc : /\ revs[d] \in Nat /\ new(d).rev = revs[d] /\ new(d).at = clock + 1
                     /\ new(d).echo /\ new(d) # NoRow
  <2>1. clock + 1 \in Nat /\ \A d \in Doc : revs[d] \in Nat
    BY Clocked DEF Revs
  <2>2. \A d \in Doc : new(d) \in Row
    BY <2>1 DEF Row
  <2> QED BY <2>1, <2>2, RowAssumption
<1>2. \A d \in Doc : rows'[d] = rows[d] \/ (rows'[d] = new(d) /\ revs[d] # 0)
  <2>1. rows' = Upserted(n, revs)
    BY DEF Upsert
  <2> QED BY <2>1 DEF Upserted
<1>3. clock + 1 > 0
  BY Clocked
<1> HIDE DEF new
<1>4. Stamped'
  BY <1>1, <1>2, <1>3 DEF Stamped
<1>5. DueKept
  BY <1>1, <1>2 DEF DueKept, Due
<1> QED BY <1>4, <1>5

LEMMA HistService ==
  ASSUME TypeInv, TypeInv', HistInv, NEW p \in Proc, NEW u, Work(p, u), Apart(u), Cycles(p, u),
         NEW n \in Name, NEW ids, Upsert(n, Unsent(n, ids)) \/ UNCHANGED <<rows, excused>>,
         UNCHANGED <<copy, tombs, astray, here, left, redirect, pending, pullPoint, owed>>
  PROVE  HistInv'
<1>1. CASE Upsert(n, Unsent(n, ids))
  <2>1. Unsent(n, ids) \in Revs
    BY UnsentTyped
  <2>2. Stamped' /\ DueKept
    BY <1>1, <2>1, UpsertStored DEF HistInv
  <2>3. CopyKept
    BY DEF CopyKept
  <2>4. Followed'
    BY FollowedKept, SameUnfollowed
  <2>5. at'[p] = u /\ Alone(p)
    BY WorksAlone
  <2> QED BY <2>2, <2>3, <2>4, <2>5, HistApart
<1>2. CASE UNCHANGED <<rows, excused>>
  <2>1. Still
    BY <1>2 DEF Still
  <2> QED BY <2>1, HistQuiet
<1> QED BY <1>1, <1>2

\* A step with no process.
LEMMA HistOutside ==
  ASSUME TypeInv, TypeInv', HistInv, DueKept, CopyKept, Stamped', Followed',
         UNCHANGED <<at, pending, pullPoint>>, owed' \subseteq owed
  PROVE  HistInv'
<1>0. owed' \subseteq Name
  BY DEF TypeInv, HistoryOK
<1>1. OneCycle'
  BY DEF HistInv, OneCycle, Cycling
<1>2. ASSUME NEW q \in Proc PROVE PullOK(at[q])'
  <2> SUFFICES ASSUME NEW k, k = at[q] PROVE PullOK(k)'
    BY DEF PullOK, Due
  <2>1. PullOK(k)
    BY DEF HistInv
  <2>2. k.pc = "moveDrop" => \A d \in k.ids : ~Due(d, k.name, k.start)'
    <3>1. k.ids \subseteq Doc /\ k.start \in Nat /\ k.start <= clock /\ (k.pc = "moveDrop" => k.name \in Name)
      BY AtPlace, Moments DEF Nameless
    <3> QED BY <2>1, <3>1 DEF DueKept, PullOK
  <2> QED BY <2>1, <2>2 DEF PullOK, Due
<1>3. ASSUME NEW n \in owed', NEW S, Whole(n, S) PROVE Whole(n, S)'
  <2>1. n \in Name
    BY <1>0
  <2>2. Covered(n, pullPoint, S)'
    <3> SUFFICES ASSUME NEW t, t = pullPoint PROVE Covered(n, t, S)'
      BY DEF Covered, Due
    <3>1. t \in Nat /\ t <= clock /\ Moment(t) /\ Covered(n, t, S)
      BY <1>3, Moments DEF Whole, Moment
    <3> QED BY <2>1, <3>1, CoveredKept
  <2>3. ASSUME NEW q \in Proc PROVE Seen(at[q], n, S)'
    <3> SUFFICES ASSUME NEW k, k = at[q] PROVE Seen(k, n, S)'
      BY DEF Seen, Covered, Due
    <3>1. /\ SamePull(k, k) /\ Seen(k, n, S) /\ k.start \in Nat /\ k.start <= clock
          /\ k.pc \in EachOf => Moment(k.start)
      BY <1>3, Moments DEF SamePull, SameWork, Whole, Moment
    <3> QED BY <2>1, <3>1, SeenKept
  <2> QED BY <2>2, <2>3 DEF Whole
<1>4. Marked'
  <2> SUFFICES ASSUME NEW n \in owed'
               PROVE  /\ n \notin pending' => Whole(n, {})'
                      /\ \A q \in Proc : Clearing(at[q], n) => Whole(n, Bringing(at[q]))'
    BY DEF Marked
  <2>1. n \notin pending' => Whole(n, {})'
    BY <1>3 DEF HistInv, Marked
  <2>2. ASSUME NEW q \in Proc, Clearing(at[q], n) PROVE Whole(n, Bringing(at[q]))'
    <3> SUFFICES ASSUME NEW S, S = Bringing(at[q]) PROVE Whole(n, S)'
      BY DEF Whole, Covered, Seen, Due
    <3> QED BY <2>2, <1>3 DEF HistInv, Marked
  <2> QED BY <2>1, <2>2
<1> QED BY <1>1, <1>2, <1>4 DEF HistInv

\* A page brings what was due, and takes away nothing that is.
LEMMA PageArrives ==
  ASSUME TypeInv, TypeInv', HistInv, NEW p \in Proc, NEW pc, pc \notin Nameless, NEW next, ApplyPage(p, pc, next),
         NEW n, n = at[p].name
  PROVE  /\ DueKept /\ CopyKept /\ Stamped' /\ Followed' /\ UNCHANGED <<pullPoint, pending, owed>>
         /\ \A t \in Nat : \A S : Covered(n, t, S \cup Fetched(at[p])) => Covered(n, t, S)'
<1> SUFFICES ASSUME NEW sent, sent = at[p].sent, NEW T, T = Taken(n, sent)
             PROVE  /\ DueKept /\ CopyKept /\ Stamped' /\ Followed' /\ UNCHANGED <<pullPoint, pending, owed>>
                    /\ \A t \in Nat : \A S : Covered(n, t, S \cup Fetched(at[p])) => Covered(n, t, S)'
  OBVIOUS
<1>1. /\ at[p].pc = pc /\ UNCHANGED <<rows, tombs, pullPoint, pending, owed, left, redirect>>
      /\ copy' = [m \in Name |-> [d \in Doc |->
                    IF d \notin T THEN copy[m][d]
                    ELSE IF m = n THEN sent[d]
                    ELSE IF copy[n][d] = 0 THEN 0 ELSE copy[m][d]]]
      /\ astray' = astray \cup PassedOver(n, sent) \cup MovedOn(n, sent)
      /\ here \subseteq here'
  BY DEF ApplyPage, At, svc, deleteVars, followVars
<1>2. n \in Name /\ \A d \in Doc : sent[d] \in Nat
  BY <1>1, AtPlace DEF Revs
<1>3. \A m \in Name, d \in Doc : copy[m][d] \in Nat
  BY Numbers
<1>4. \A d \in T : sent[d] > 0
  BY DEF Taken
<1>5. DueKept /\ Stamped'
  BY <1>1 DEF DueKept, Due, HistInv, Stamped
<1>6. Followed'
  BY <1>1, FollowedKept, SameUnfollowed
<1>7. CopyKept
  <2> SUFFICES ASSUME NEW m \in Name, NEW d \in Doc, NEW t \in Nat, Due(d, m, t)', copy[m][d] > 0
               PROVE  copy'[m][d] > 0
    <3>1. owed' \subseteq Name
      BY DEF TypeInv, HistoryOK
    <3> QED BY <3>1 DEF CopyKept
  <2>1. CASE d \notin T \/ m = n \/ copy[n][d] # 0
    BY <2>1, <1>1, <1>2, <1>4
  <2>2. CASE d \in T /\ m # n
    <3>1. rows[d] # NoRow /\ rows[d].in # n
      BY <2>2, <1>1 DEF Due
    <3>2. d \in astray'
      BY <2>2, <3>1, <1>1 DEF MovedOn
    <3> QED BY <3>2 DEF Due
  <2> QED BY <2>1, <2>2
<1>8. ASSUME NEW t \in Nat, NEW S, Covered(n, t, S \cup Fetched(at[p])) PROVE Covered(n, t, S)'
  <2> SUFFICES ASSUME NEW d \in Doc, Due(d, n, t)', d \notin S PROVE copy'[n][d] > 0
    BY DEF Covered
  <2>1. copy[n][d] > 0 \/ sent[d] > 0
    <3>1. Due(d, n, t)
      BY <1>1 DEF Due
    <3> QED BY <3>1, <1>8 DEF Covered, Fetched
  <2>2. CASE d \in T
    BY <2>2, <1>1, <1>2, <1>4
  <2>3. CASE d \notin T
    <3>1. copy'[n][d] = copy[n][d]
      BY <2>3, <1>1, <1>2
    <3>2. d \notin tombs /\ d \notin PassedOver(n, sent)
      BY <1>1 DEF Due
    <3> QED BY <2>1, <2>3, <3>1, <3>2, <1>2, <1>3 DEF PassedOver
  <2> QED BY <2>2, <2>3
<1> QED BY <1>1, <1>5, <1>6, <1>7, <1>8

LEMMA HistPage ==
  ASSUME TypeInv, TypeInv', HistInv, NEW p \in Proc, NEW pc, pc \notin Nameless, NEW next, ApplyPage(p, pc, next),
         NEW u, Work(p, u), Apart(u), Cycles(p, u)
  PROVE  HistInv'
<1> SUFFICES ASSUME NEW n, n = at[p].name PROVE HistInv'
  OBVIOUS
<1>1. DueKept /\ CopyKept /\ Stamped' /\ Followed' /\ UNCHANGED <<pullPoint, pending, owed>>
  BY PageArrives
<1>2. at'[p] = u /\ Alone(p)
  BY WorksAlone
<1> QED BY <1>1, <1>2, HistApart

LEMMA HistRedirect ==
  ASSUME TypeInv, TypeInv', HistInv, NEW p \in Proc, NEW pc,
         NEW next \in PC \ (Pulling \cup Pushing \cup {"visitApply", "visitDone"}), ClearRedirect(p, pc, next)
  PROVE  HistInv'
<1> SUFFICES ASSUME NEW u, u = [at[p] EXCEPT !.pc = next] PROVE HistInv'
  OBVIOUS
<1>1. /\ Wanted(p, at[p].name, u) /\ Still /\ UNCHANGED <<pullPoint, pending, owed, here, left>>
      /\ redirect' = [redirect EXCEPT ![at[p].name] = Nowhere]
  BY DEF ClearRedirect, Still, svc, storeVars, deleteVars, history, others
<1>2. Followed'
  <2>1. redirect \in [Name -> Name \cup {Nowhere}]
    BY DEF TypeInv, FollowOK
  <2>2. Unfollowed' \subseteq Unfollowed
    BY <1>1, <2>1 DEF Unfollowed
  <2> QED BY <1>1, <2>2, FollowedKept
<1>3. u \in Task /\ Apart(u) /\ u.pc = next
  BY ThenApart
<1> QED BY <1>1, <1>2, <1>3, HistWanted

LEMMA HistSubscribes ==
  ASSUME TypeInv, TypeInv', HistInv, NEW p \in Proc, NEW pc, NEW ns,
         NEW next \in PC \ (Pulling \cup Pushing \cup {"visitApply", "visitDone"}),
         Subscribes(p, pc, ns, [at[p] EXCEPT !.pc = next])
  PROVE  HistInv'
<1> SUFFICES ASSUME NEW u, u = [at[p] EXCEPT !.pc = next] PROVE HistInv'
  OBVIOUS
<1>1. /\ Work(p, u) /\ Still /\ UNCHANGED <<pullPoint, pending, owed, here, left, redirect>>
  BY DEF Subscribes, Still, svc, storeVars, deleteVars, history, others
<1> QED BY <1>1, ThenApart, HistQuiet

LEMMA HistFails ==
  ASSUME TypeInv, TypeInv', HistInv, NEW p \in Proc, NEW pcs, NEW u, Fails(p, pcs, u), Apart(u), Cycles(p, u)
  PROVE  HistInv'
<1>1. /\ Work(p, u) /\ Still /\ UNCHANGED <<pullPoint, pending, owed, here, left, redirect>>
  BY DEF Fails, Still, svc, storeVars, deleteVars, followVars, history, others
<1> QED BY <1>1, HistQuiet

-----------------------------------------------------------------------------
LEMMA HistCreating ==
  ASSUME TypeInv, TypeInv', HistInv, NEW p \in Proc, Creating(p)
  PROVE  HistInv'
<1>1. ASSUME NEW n \in Name, Create(p, n) PROVE HistInv'
  <2> DEFINE r == [Idle EXCEPT !.pc = "uncreate", !.op = "create", !.name = n]
  <2>1. r \in Task /\ r.pc = "uncreate" /\ Apart(r) /\ r.pc \notin Pushing \cup Pulling
    BY Revisions DEF Task, Idle, PC, Op, Apart, Pulling, Pushing
  <2> HIDE DEF r
  <2>2. /\ Begin(p, r, {n}) /\ UNCHANGED <<rows, copy, tombs, pullPoint, left, redirect, pending>>
        /\ here \subseteq here'
    BY <1>1 DEF Create, svc, deleteVars, followVars, r
  <2> QED BY <2>1, <2>2, HistBegin
<1>2. CASE ClearRedirect(p, "uncreate", "rejoin")
  BY <1>2, ApartPlaces, HistRedirect
<1>3. CASE Rejoin(p)
  <2> SUFFICES ASSUME NEW n, n = at[p].name,
                      NEW u, u = IF n \in left THEN [at[p] EXCEPT !.pc = "resubscribe"] ELSE Idle
               PROVE  HistInv'
    OBVIOUS
  <2>1. /\ Wanted(p, n, u) /\ Still /\ UNCHANGED <<pullPoint, pending, owed, here, redirect>>
        /\ left' = left \ {n}
    BY <1>3 DEF Rejoin, Still, svc, storeVars, deleteVars, history, others
  <2>2. Followed'
    <3>1. Unfollowed' \subseteq Unfollowed
      BY <2>1 DEF Unfollowed
    <3> QED BY <2>1, <3>1, FollowedKept
  <2>3. CASE n \in left
    <3>1. u = [at[p] EXCEPT !.pc = "resubscribe"]
      BY <2>3
    <3>2. u \in Task /\ Apart(u) /\ u.pc = "resubscribe"
      BY <3>1, ApartPlaces, ThenApart
    <3>3. u.pc \notin Pushing \cup Pulling
      BY <3>2 DEF Pushing, Pulling
    <3> QED BY <2>1, <2>2, <3>2, <3>3, HistWanted
  <2>4. CASE n \notin left
    BY <2>1, <2>2, <2>4, IdleApart, HistWanted
  <2> QED BY <2>3, <2>4
<1>4. CASE Subscribes(p, "resubscribe", {at[p].name}, [at[p] EXCEPT !.pc = "backfill"])
  BY <1>4, ApartPlaces, HistSubscribes
<1>5. CASE MarkBackfill(p)
  <2> SUFFICES ASSUME NEW n, n = at[p].name, NEW u, u = Idle PROVE HistInv'
    OBVIOUS
  <2>1. /\ Work(p, u) /\ Still /\ UNCHANGED <<pullPoint, here, left, redirect>> /\ pending' = pending \cup {n}
        /\ \/ owed' = owed
           \/ owed' = owed \cup {n} /\ n \in here \ Unfollowed /\ \A q \in Proc : n \notin at[q].marked
    BY <1>5 DEF MarkBackfill, Still, svc, storeVars, deleteVars
  <2>2. Followed'
    BY <2>1, SameUnfollowed DEF HistInv, Followed
  <2>3. DueKept /\ CopyKept /\ Stamped'
    BY <2>1, StillKeeps
  <2>4. at'[p] = u /\ Alone(p)
    BY <2>1, WorksAlone
  <2>5. PullOK(u)' /\ \A m, S : Seen(u, m, S)' /\ ~Clearing(u, m)
    BY DEF PullOK, Seen, Clearing, Idle, EachOf, Pulling
  <2>6. u.pc \notin Pushing \cup Pulling
    BY IdleApart
  <2>7. \A m \in owed' : m \notin pending' => m \in owed /\ Whole(m, {})
    BY <2>1 DEF HistInv, Marked
  <2>8. \A m \in owed' : m \in owed \/ \A q \in Proc : ~Clearing(at[q], m)
    BY <2>1 DEF Clearing
  <2> QED BY <2>1, <2>2, <2>3, <2>4, <2>5, <2>6, <2>7, <2>8, HistStep
<1> QED BY <1>1, <1>2, <1>3, <1>4, <1>5 DEF Creating

LEMMA HistSubscribing ==
  ASSUME TypeInv, TypeInv', HistInv, NEW p \in Proc, Subscribing(p)
  PROVE  HistInv'
<1>1. ASSUME NEW n \in Name, Subscribe(p, n) PROVE HistInv'
  <2> DEFINE r == [Idle EXCEPT !.pc = "unredirect", !.op = "subscribe", !.name = n, !.whole = {n}]
  <2>1. r \in Task /\ r.pc = "unredirect" /\ Apart(r) /\ r.pc \notin Pushing \cup Pulling
    BY Revisions DEF Task, Idle, PC, Op, Apart, Pulling, Pushing
  <2> HIDE DEF r
  <2>2. /\ Begin(p, r, {n}) /\ UNCHANGED <<rows, copy, tombs, pullPoint, left, redirect, pending>>
        /\ here \subseteq here'
    BY <1>1 DEF Subscribe, svc, storeVars, deleteVars, r
  <2> QED BY <2>1, <2>2, HistBegin
<1>2. ASSUME NEW n \in Name, Unsubscribe(p, n) PROVE HistInv'
  <2>1. Still /\ UNCHANGED <<at, pending, pullPoint, owed, here, left, redirect>>
    BY <1>2 DEF Unsubscribe, Still, svc, storeVars, deleteVars
  <2> QED BY <2>1, StillKeeps, FollowedKept, SameUnfollowed, HistOutside
<1>3. CASE ClearRedirect(p, "unredirect", "unleave")
  BY <1>3, ApartPlaces, HistRedirect
<1>4. CASE ClearLeft(p)
  <2> SUFFICES ASSUME NEW u, u = [at[p] EXCEPT !.pc = "make"] PROVE HistInv'
    OBVIOUS
  <2>1. /\ Wanted(p, at[p].name, u) /\ Still /\ UNCHANGED <<pullPoint, pending, owed, here, redirect>>
        /\ left' \subseteq left
    BY <1>4 DEF ClearLeft, Still, svc, storeVars, deleteVars, history, others
  <2>2. Followed'
    <3>1. Unfollowed' \subseteq Unfollowed
      BY <2>1 DEF Unfollowed
    <3> QED BY <2>1, <3>1, FollowedKept
  <2>3. u \in Task /\ Apart(u) /\ u.pc = "make"
    BY ApartPlaces, ThenApart
  <2>4. u.pc \notin Pushing \cup Pulling
    BY <2>3 DEF Pushing, Pulling
  <2> QED BY <2>1, <2>2, <2>3, <2>4, HistWanted
<1>5. CASE Make(p)
  <2> SUFFICES ASSUME NEW pc, pc = IF p \in Plugin THEN "subCycle" ELSE "subFetch",
                      NEW u, u = [at[p] EXCEPT !.pc = pc]
               PROVE  HistInv'
    OBVIOUS
  <2>1. /\ Work(p, u) /\ Still /\ UNCHANGED <<pullPoint, pending, owed, left, redirect>> /\ here \subseteq here'
    BY <1>5 DEF Make, Then, Still, svc, deleteVars, followVars, history, others
  <2>2. Apart(u) /\ Cycles(p, u)
    BY ApartPlaces, ThenApart
  <2> QED BY <2>1, <2>2, HistQuiet
<1>6. CASE SubscribePull(p)
  <2>1. CASE Fetch(p, "subFetch", "subApply", FALSE)
    <3> SUFFICES ASSUME NEW s, s = Feed(at[p].name, Since(p), FALSE),
                        NEW u, u = [at[p] EXCEPT !.pc = "subApply", !.sent = s]
                 PROVE  HistInv'
      OBVIOUS
    <3>1. Work(p, u) /\ Still /\ UNCHANGED <<pullPoint, pending, owed, left, redirect, here>>
      BY <2>1 DEF Fetch, Still, svc, storeVars, deleteVars, followVars, history, others
    <3>2. u.pc = "subApply" /\ u.op = at[p].op /\ u.marked = at[p].marked /\ u.whole = at[p].whole /\ u.name = at[p].name
      BY AtPlace DEF Task
    <3>3. Apart(u) /\ Cycles(p, u)
      BY <3>2, GoesOn DEF Cycles, Pulling, Pushing
    <3> QED BY <3>1, <3>3, HistQuiet
  <2>2. CASE Fails(p, {"subFetch"}, [at[p] EXCEPT !.pc = "subCycle"])
    BY <2>2, ApartPlaces, ThenApart, HistFails
  <2>3. CASE Apply(p, "subApply", [at[p] EXCEPT !.pc = "subCycle"])
    <3> SUFFICES ASSUME NEW u, u = [[at[p] EXCEPT !.pc = "subCycle"] EXCEPT !.sent = NoDocs] PROVE HistInv'
      OBVIOUS
    <3>1. Work(p, u) /\ ApplyPage(p, "subApply", [at[p] EXCEPT !.pc = "subCycle"])
      BY <2>3 DEF Apply, ApplyPage
    <3>2. u.pc = "subCycle" /\ u.op = at[p].op /\ u.marked = at[p].marked /\ u.whole = at[p].whole /\ u.name = at[p].name
      BY AtPlace DEF Task
    <3>3. Apart(u) /\ Cycles(p, u)
      BY <3>2, GoesOn DEF Cycles, Pulling, Pushing
    <3>4. "subApply" \notin Nameless
      BY DEF Nameless
    <3> QED BY <3>1, <3>3, <3>4, HistPage
  <2> QED BY <1>6, <2>1, <2>2, <2>3 DEF SubscribePull
<1>7. CASE SubscribeCycle(p)
  <2> SUFFICES ASSUME NEW u, u = IF Cycling = {} THEN Fresh(p, "deletes") ELSE Idle PROVE HistInv'
    OBVIOUS
  <2>1. at[p].pc = "subCycle" /\ Work(p, u) /\ Still /\ UNCHANGED <<pullPoint, pending, owed, left, redirect, here>>
    BY <1>7 DEF SubscribeCycle, At, Still, svc, storeVars, deleteVars, followVars, history, others
  <2>2. Apart(u) /\ Cycles(p, u)
    <3>1. CASE Cycling = {}
      <4>1. u = Fresh(p, "deletes") /\ Fresh(p, "deletes").pc = "deletes" /\ Fresh(p, "deletes").op = at[p].op
        BY <3>1 DEF Fresh, Idle
      <4>2. at[p].op # "visit"
        BY <2>1, AtPlace DEF TaskOK, OnItsWay, Task, Op, Pushing, Pulling
      <4> QED BY <3>1, <4>1, <4>2 DEF Apart, Cycles, Pulling
    <3>2. CASE Cycling # {}
      BY <3>2, IdleApart
    <3> QED BY <3>1, <3>2
  <2> QED BY <2>1, <2>2, HistQuiet
<1> QED BY <1>1, <1>2, <1>3, <1>4, <1>5, <1>6, <1>7 DEF Subscribing

\* With the rows as they are, nothing falls due.
LEMMA LessDue ==
  ASSUME HistInv, UNCHANGED rows, tombs \subseteq tombs', astray \subseteq astray'
  PROVE  DueKept /\ Stamped'
BY DEF HistInv, DueKept, Due, Stamped

LEMMA RemoveTask ==
  ASSUME NEW pc \in PC, NEW op \in Op, NEW sure \in BOOLEAN, NEW n \in Name, NEW docs \in Revs, NEW ids \in SUBSET Doc
  PROVE  [Idle EXCEPT !.pc = pc, !.op = op, !.sure = sure, !.name = n, !.docs = docs, !.ids = ids] \in Task
BY Revisions DEF Task, Idle

LEMMA HistRemoving ==
  ASSUME TypeInv, TypeInv', HistInv, NEW p \in Proc, Removing(p)
  PROVE  HistInv'
<1>1. ASSUME NEW n \in Name, NEW all \in BOOLEAN, NEW sure \in BOOLEAN, Remove(p, n, all, sure) PROVE HistInv'
  <2> SUFFICES ASSUME NEW pc, pc = IF all THEN "queueAll" ELSE IF Pushable(n) = {} THEN "unfollow" ELSE "removePush",
                      NEW op, op = IF all THEN "removeAll" ELSE "remove",
                      NEW docs, docs = copy[n], NEW ids, ids = Pushable(n),
                      NEW r, r = [Idle EXCEPT !.pc = pc, !.op = op, !.sure = sure, !.name = n,
                                              !.docs = docs, !.ids = ids]
               PROVE  HistInv'
    OBVIOUS
  <2>1. pc \in {"queueAll", "unfollow", "removePush"} /\ op \in {"remove", "removeAll"}
    OBVIOUS
  <2>2. docs \in Revs /\ ids \subseteq Doc
    BY StoreFacts DEF Pushable, Dirty
  <2>3. r \in Task /\ r.pc = pc /\ r.op = op
    <3>1. pc \in PC /\ op \in Op
      BY <2>1 DEF PC, Op
    <3>2. r \in Task
      BY <2>2, <3>1, RemoveTask
    <3>3. r.pc = pc
      BY Revisions DEF Task, Idle
    <3>4. r.op = op
      BY Revisions DEF Task, Idle
    <3> QED BY <3>2, <3>3, <3>4
  <2>4. Apart(r) /\ r.pc \notin Pushing \cup Pulling
    BY <2>1, <2>3 DEF Apart, Pushing, Pulling
  <2>5. /\ Begin(p, r, {}) /\ UNCHANGED <<rows, copy, tombs, pullPoint, left, redirect, pending, here>>
    BY <1>1 DEF Remove, svc, storeVars, deleteVars, followVars
  <2> QED BY <2>3, <2>4, <2>5, HistBegin
<1>2. CASE QueueAll(p)
  <2> SUFFICES ASSUME NEW u, u = [at[p] EXCEPT !.pc = "unfollow"] PROVE HistInv'
    OBVIOUS
  <2>1. /\ Work(p, u) /\ UNCHANGED <<rows, copy, astray, here, left, redirect, pending, pullPoint, owed>>
        /\ tombs \subseteq tombs'
    BY <1>2 DEF QueueAll, Then, svc, storeVars, followVars, others
  <2>2. DueKept /\ Stamped' /\ CopyKept
    BY <2>1, LessDue DEF CopyKept
  <2>3. Followed'
    BY <2>1, FollowedKept, SameUnfollowed
  <2>4. at'[p] = u /\ Alone(p)
    BY <2>1, WorksAlone
  <2>5. Apart(u) /\ Cycles(p, u)
    BY ApartPlaces, ThenApart
  <2> QED BY <2>1, <2>2, <2>3, <2>4, <2>5, HistApart
<1>3. CASE RemovePush(p)
  <2> SUFFICES ASSUME NEW n, n = at[p].name, NEW ids, ids = at[p].ids, NEW s, s = Unsent(n, ids),
                      NEW u, u = [at[p] EXCEPT !.pc = "removeSettle", !.sent = s]
               PROVE  HistInv'
    OBVIOUS
  <2>1. /\ at[p].pc = "removePush" /\ Work(p, u) /\ Upsert(n, Unsent(n, ids))
        /\ UNCHANGED <<copy, tombs, astray, here, left, redirect, pending, pullPoint, owed>>
    BY <1>3 DEF RemovePush, At, storeVars, deleteVars, followVars, others
  <2>2. n \in Name
    BY <2>1, AtPlace DEF Nameless
  <2>3. u.pc = "removeSettle" /\ u.op = at[p].op /\ u.marked = at[p].marked /\ u.whole = at[p].whole /\ u.name = at[p].name
    BY AtPlace DEF Task
  <2>4. Apart(u) /\ Cycles(p, u)
    BY <2>3, GoesOn DEF Cycles, Pulling, Pushing
  <2> QED BY <2>1, <2>2, <2>4, HistService
<1>4. CASE RemovePushFails(p)
  <2> SUFFICES ASSUME NEW n, n = at[p].name, NEW ids, ids = at[p].ids,
                      NEW u, u = IF at[p].sure THEN [at[p] EXCEPT !.pc = "unfollow"] ELSE Idle
               PROVE  HistInv'
    OBVIOUS
  <2>1. /\ at[p].pc = "removePush" /\ Work(p, u)
        /\ Upsert(n, Unsent(n, ids)) \/ UNCHANGED <<rows, excused>>
        /\ UNCHANGED <<copy, tombs, astray, here, left, redirect, pending, pullPoint, owed>>
    BY <1>4 DEF RemovePushFails, Then, At, svc, storeVars, deleteVars, followVars, others
  <2>2. n \in Name
    BY <2>1, AtPlace DEF Nameless
  <2>3. Apart(u) /\ Cycles(p, u)
    BY ApartPlaces, ThenApart, IdleApart
  <2> QED BY <2>1, <2>2, <2>3, HistService
<1>5. CASE RemoveSettle(p)
  <2> SUFFICES ASSUME NEW docs,
                      docs = [d \in Doc |-> IF d \in at[p].ids THEN copy[at[p].name][d] ELSE at[p].docs[d]],
                      NEW v, v = [at[p] EXCEPT !.pc = "unfollow", !.sent = NoDocs, !.docs = docs],
                      NEW u, u \in {v, Idle}, Work(p, u)
               PROVE  HistInv'
    BY <1>5 DEF RemoveSettle
  <2>1. Still /\ UNCHANGED <<here, left, redirect, pending, pullPoint, owed>>
    BY <1>5 DEF RemoveSettle, Still, svc, deleteVars, followVars, history, others
  <2>2. v.pc = "unfollow" /\ v.op = at[p].op /\ v.marked = at[p].marked /\ v.whole = at[p].whole /\ v.name = at[p].name
    BY AtPlace DEF Task
  <2>3. Apart(v) /\ Cycles(p, v)
    BY <2>2, GoesOn DEF Cycles, Pulling, Pushing
  <2> QED BY <2>1, <2>3, IdleApart, HistQuiet
<1>6. CASE Unfollow(p)
  <2> SUFFICES ASSUME NEW pc, pc = IF at[p].op = "remove" THEN "leave" ELSE "drop",
                      NEW u, u = [at[p] EXCEPT !.pc = pc]
               PROVE  HistInv'
    OBVIOUS
  <2>1. /\ Work(p, u) /\ Still /\ UNCHANGED <<here, left, redirect, pending, pullPoint, owed>>
    BY <1>6 DEF Unfollow, Then, Still, svc, storeVars, deleteVars
  <2>2. Apart(u) /\ Cycles(p, u)
    BY ApartPlaces, ThenApart
  <2> QED BY <2>1, <2>2, HistQuiet
<1>7. CASE Leave(p)
  <2> SUFFICES ASSUME NEW n, n = at[p].name, NEW u, u = [at[p] EXCEPT !.pc = "drop"] PROVE HistInv'
    OBVIOUS
  <2>1. /\ Work(p, u) /\ Still /\ UNCHANGED <<here, redirect, pending, pullPoint>>
        /\ left' = left \cup {n} /\ owed' = owed \ {n}
    BY <1>7 DEF Leave, Then, Still, svc, storeVars, deleteVars
  <2>2. Followed'
    BY <2>1 DEF HistInv, Followed, Unfollowed
  <2>3. DueKept /\ CopyKept /\ Stamped'
    BY <2>1, StillKeeps
  <2>4. at'[p] = u /\ Alone(p)
    BY <2>1, WorksAlone
  <2>5. Apart(u) /\ Cycles(p, u)
    BY ApartPlaces, ThenApart
  <2> QED BY <2>1, <2>2, <2>3, <2>4, <2>5, HistApart
<1>8. CASE Drop(p)
  <2> SUFFICES ASSUME NEW n, n = at[p].name,
                      NEW u, u = IF at[p].op = "merge" THEN [at[p] EXCEPT !.pc = "redirect"] ELSE Idle
               PROVE  HistInv'
    OBVIOUS
  <2>1. /\ Work(p, u) /\ UNCHANGED <<rows, tombs, astray, left, redirect, pending, pullPoint>>
        /\ here' = here \ {n} /\ owed' = owed \ {n} /\ copy' = [copy EXCEPT ![n] = NoDocs]
    BY <1>8 DEF Drop, Then, svc, deleteVars, followVars
  <2>2. Followed'
    BY <2>1, SameUnfollowed DEF HistInv, Followed
  <2>3. DueKept /\ Stamped'
    BY <2>1, LessDue
  <2>4. CopyKept
    BY <2>1, StoreFacts DEF CopyKept
  <2>5. at'[p] = u /\ Alone(p)
    BY <2>1, WorksAlone
  <2>6. Apart(u) /\ Cycles(p, u)
    BY ApartPlaces, ThenApart, IdleApart
  <2> QED BY <2>1, <2>2, <2>3, <2>4, <2>5, <2>6, HistApart
<1> QED BY <1>1, <1>2, <1>3, <1>4, <1>5, <1>6, <1>7, <1>8 DEF Removing

LEMMA HistMerging ==
  ASSUME TypeInv, TypeInv', HistInv, NEW p \in Proc, Merging(p)
  PROVE  HistInv'
<1>1. ASSUME NEW from \in Name, NEW into \in Name, Merge(p, from, into) PROVE HistInv'
  <2> SUFFICES ASSUME NEW pc, pc = IF In(from) = {} THEN "mergeRemove" ELSE "mergeCopy",
                      NEW docs, docs = copy[from], NEW sent, sent = Unsent(from, Doc),
                      NEW r, r = [Idle EXCEPT !.pc = pc, !.op = "merge", !.name = from, !.into = into,
                                              !.docs = docs, !.sent = sent]
               PROVE  HistInv'
    OBVIOUS
  <2>1. pc \in {"mergeRemove", "mergeCopy"} /\ docs \in Revs /\ sent \in Revs
    BY StoreFacts, UnsentTyped
  <2>2. r \in Task /\ r.pc = pc /\ r.op = "merge"
    <3>1. pc \in PC /\ "merge" \in Op
      BY <2>1 DEF PC, Op
    <3> QED BY <2>1, <3>1, Revisions DEF Task, Idle
  <2>3. Apart(r) /\ r.pc \notin Pushing \cup Pulling
    BY <2>1, <2>2 DEF Apart, Pushing, Pulling
  <2>4. Begin(p, r, {into}) /\ UNCHANGED <<rows, copy, tombs, pullPoint, left, redirect, pending, here>>
    BY <1>1 DEF Merge, svc, storeVars, deleteVars, followVars
  <2> QED BY <2>2, <2>3, <2>4, HistBegin
<1>2. CASE MergeCopy(p)
  <2> SUFFICES ASSUME NEW n, n = at[p].into, NEW docs, docs = at[p].docs,
                      NEW M, M = Moved(p), NEW ids, ids = In(n),
                      NEW u, u = [at[p] EXCEPT !.pc = "mergeVerify", !.ids = ids]
               PROVE  HistInv'
    OBVIOUS
  <2>1. /\ at[p].pc = "mergeCopy" /\ Work(p, u)
        /\ UNCHANGED <<rows, tombs, astray, left, redirect, pending, pullPoint, owed>>
        /\ here \subseteq here' /\ copy' = [copy EXCEPT ![n] = [d \in Doc |-> IF d \in M THEN docs[d] ELSE copy[n][d]]]
    BY <1>2 DEF MergeCopy, At, svc, deleteVars, followVars, others
  <2>2. n \in Name
    BY <2>1, AtPlace, Merges
  <2>3. Followed' /\ DueKept /\ Stamped'
    BY <2>1, FollowedKept, SameUnfollowed, LessDue
  <2>4. CopyKept
    <3>1. copy \in [Name -> Revs] /\ \A d \in Doc : d \in M <=> docs[d] > 0
      BY StoreFacts DEF Moved
    <3>2. \A m \in Name, d \in Doc : copy'[m][d] = IF m = n /\ d \in M THEN docs[d] ELSE copy[m][d]
      BY <2>1, <3>1
    <3>3. owed' \subseteq Name
      BY DEF TypeInv, HistoryOK
    <3> QED BY <3>1, <3>2, <3>3 DEF CopyKept
  <2>5. at'[p] = u /\ Alone(p)
    BY <2>1, WorksAlone
  <2>6. u.pc = "mergeVerify" /\ u.op = at[p].op /\ u.marked = at[p].marked /\ u.whole = at[p].whole /\ u.name = at[p].name
    BY AtPlace DEF Task
  <2>7. Apart(u) /\ Cycles(p, u)
    BY <2>6, GoesOn DEF Cycles, Pulling, Pushing
  <2> QED BY <2>1, <2>3, <2>4, <2>5, <2>7, HistApart
<1>3. CASE MergeVerify(p)
  <2> SUFFICES ASSUME NEW ids, NEW v, v = [at[p] EXCEPT !.pc = "mergeMove", !.ids = ids],
                      NEW u, u \in {v, Idle}, Work(p, u)
               PROVE  HistInv'
    BY <1>3 DEF MergeVerify
  <2>1. Still /\ UNCHANGED <<here, left, redirect, pending, pullPoint, owed>>
    BY <1>3 DEF MergeVerify, Still, svc, storeVars, deleteVars, followVars, history, others
  <2>2. v.pc = "mergeMove" /\ v.op = at[p].op /\ v.marked = at[p].marked /\ v.whole = at[p].whole /\ v.name = at[p].name
    BY AtPlace DEF Task
  <2>3. Apart(v) /\ Cycles(p, v)
    BY <2>2, GoesOn DEF Cycles, Pulling, Pushing
  <2> QED BY <2>1, <2>3, IdleApart, HistQuiet
<1>4. ASSUME NEW d \in Doc, MergeMove(p, d) PROVE HistInv'
  <2> SUFFICES ASSUME NEW f, f = at[p].name, NEW n, n = at[p].into, NEW to,
                      copy' = [copy EXCEPT ![f][d] = 0, ![n][d] = to],
                      NEW ids, ids = at[p].ids \ {d},
                      NEW pc, pc = IF at[p].ids = {d} THEN "mergeCheck" ELSE at[p].pc,
                      NEW u, u = [at[p] EXCEPT !.ids = ids, !.pc = pc]
               PROVE  HistInv'
    BY <1>4 DEF MergeMove
  <2>1. /\ at[p].pc = "mergeMove" /\ Work(p, u)
        /\ UNCHANGED <<rows, tombs, left, redirect, pending, pullPoint, owed>>
        /\ here \subseteq here' /\ astray' = astray \cup {d}
    BY <1>4 DEF MergeMove, At, svc, deleteVars, followVars
  <2>2. Followed' /\ DueKept /\ Stamped'
    BY <2>1, FollowedKept, SameUnfollowed, LessDue
  <2>3. CopyKept
    <3>1. copy \in [Name -> Revs] /\ f \in Name /\ n \in Name
      BY <2>1, StoreFacts, AtPlace, Merges DEF Nameless
    <3>2. \A m \in Name, e \in Doc : e # d => copy'[m][e] = copy[m][e]
      BY <3>1 DEF Revs
    <3>3. owed' \subseteq Name
      BY DEF TypeInv, HistoryOK
    <3> QED BY <2>1, <3>2, <3>3 DEF CopyKept, Due
  <2>4. at'[p] = u /\ Alone(p)
    BY <2>1, WorksAlone
  <2>5. /\ u.pc \in {"mergeCheck", "mergeMove"}
        /\ u.op = at[p].op /\ u.marked = at[p].marked /\ u.whole = at[p].whole /\ u.name = at[p].name
    BY <2>1, AtPlace DEF Task
  <2>6. Apart(u) /\ Cycles(p, u)
    BY <2>5, GoesOn DEF Cycles, Pulling, Pushing
  <2> QED BY <2>1, <2>2, <2>3, <2>4, <2>6, HistApart
<1>5. CASE MergeCheck(p)
  <2> SUFFICES ASSUME NEW v, v = [at[p] EXCEPT !.pc = "mergeRemove"],
                      NEW u, u \in {v, Idle}, Work(p, u)
               PROVE  HistInv'
    BY <1>5 DEF MergeCheck, Then
  <2>1. Still /\ UNCHANGED <<here, left, redirect, pending, pullPoint, owed>>
    BY <1>5 DEF MergeCheck, Still, svc, storeVars, deleteVars, followVars, history, others
  <2>2. Apart(v) /\ Cycles(p, v)
    BY ApartPlaces, ThenApart
  <2> QED BY <2>1, <2>2, IdleApart, HistQuiet
<1>6. CASE MergeRemove(p)
  <2> SUFFICES ASSUME NEW n, n = at[p].name, NEW u, u = [at[p] EXCEPT !.pc = "unfollow"] PROVE HistInv'
    OBVIOUS
  <2>1. /\ at[p].pc = "mergeRemove" /\ Work(p, u)
        /\ Upsert(n, Unsent(n, Doc)) \/ UNCHANGED <<rows, excused>>
        /\ UNCHANGED <<copy, tombs, astray, here, left, redirect, pending, pullPoint, owed>>
    BY <1>6 DEF MergeRemove, Then, At, svc, storeVars, deleteVars, followVars, others
  <2>2. n \in Name
    BY <2>1, AtPlace DEF Nameless
  <2>3. Apart(u) /\ Cycles(p, u)
    BY ApartPlaces, ThenApart
  <2> QED BY <2>1, <2>2, <2>3, HistService
<1>7. CASE MergeRedirect(p)
  <2> SUFFICES ASSUME NEW f, f = at[p].name, NEW n, n = at[p].into PROVE HistInv'
    OBVIOUS
  <2>1. /\ Wanted(p, n, Idle) /\ Still /\ UNCHANGED <<here, left, pending, pullPoint>>
        /\ redirect' = [redirect EXCEPT ![f] = n, ![n] = Nowhere] /\ owed' = owed \ {f}
    BY <1>7 DEF MergeRedirect, AddRedirect, Still, svc, storeVars, deleteVars
  <2>2. Followed'
    <3>1. redirect \in [Name -> Name \cup {Nowhere}]
      BY DEF TypeInv, FollowOK
    <3>2. Unfollowed' \subseteq Unfollowed \cup {f}
      BY <2>1, <3>1 DEF Unfollowed
    <3> QED BY <2>1, <3>2 DEF HistInv, Followed
  <2> QED BY <2>1, <2>2, IdleApart, HistWanted
<1> QED BY <1>1, <1>2, <1>3, <1>4, <1>5, <1>6, <1>7 DEF Merging

LEMMA HistWriting ==
  ASSUME TypeInv, TypeInv', HistInv, NEW p \in Proc, Writing(p)
  PROVE  HistInv'
<1>1. ASSUME NEW n \in Name, Write(p, n) PROVE HistInv'
  <2> SUFFICES ASSUME NEW t, t = Resolve(n), NEW r, r = [Idle EXCEPT !.pc = "add", !.op = "write", !.name = t]
               PROVE  HistInv'
    OBVIOUS
  <2>1. t \in Name
    BY ResolveTyped DEF TypeInv
  <2>2. r \in Task /\ r.pc = "add" /\ Apart(r) /\ r.pc \notin Pushing \cup Pulling
    BY <2>1, Revisions DEF Task, Idle, PC, Op, Apart, Pulling, Pushing
  <2>3. Begin(p, r, {}) /\ UNCHANGED <<rows, copy, tombs, pullPoint, left, redirect, pending, here>>
    BY <1>1 DEF Write, svc, storeVars, deleteVars, followVars
  <2> QED BY <2>2, <2>3, HistBegin
<1>2. ASSUME NEW d \in Doc, Add(p, d) PROVE HistInv'
  <2> SUFFICES ASSUME NEW n, n = at[p].name PROVE HistInv'
    OBVIOUS
  <2>1. /\ at[p].pc = "add" /\ Work(p, Idle)
        /\ UNCHANGED <<rows, tombs, astray, left, redirect, pending, pullPoint, owed>>
        /\ here \subseteq here' /\ copy' = [copy EXCEPT ![n][d] = 1]
    BY <1>2 DEF Add, At, svc, deleteVars, followVars
  <2>2. Followed' /\ DueKept /\ Stamped'
    BY <2>1, FollowedKept, SameUnfollowed, LessDue
  <2>3. CopyKept
    <3>1. copy \in [Name -> Revs] /\ n \in Name /\ owed' \subseteq Name
      BY <2>1, StoreFacts, AtPlace DEF Nameless, TypeInv, HistoryOK
    <3>2. \A m \in Name, e \in Doc : copy'[m][e] = copy[m][e] \/ copy'[m][e] = 1
      BY <2>1, <3>1 DEF Revs
    <3> QED BY <3>1, <3>2 DEF CopyKept
  <2>4. at'[p] = Idle /\ Alone(p)
    BY <2>1, WorksAlone
  <2> QED BY <2>1, <2>2, <2>3, <2>4, IdleApart, HistApart
<1> QED BY <1>1, <1>2 DEF Writing

LEMMA HistEdit ==
  ASSUME TypeInv, TypeInv', HistInv, NEW n \in Name, NEW d \in Doc, Edit(n, d)
  PROVE  HistInv'
<1>1. /\ UNCHANGED <<rows, tombs, astray, here, left, redirect, pending, pullPoint, owed, at>>
      /\ copy' = [copy EXCEPT ![n][d] = 2]
  BY DEF Edit, svc, deleteVars, followVars
<1>2. Followed' /\ DueKept /\ Stamped'
  BY <1>1, FollowedKept, SameUnfollowed, LessDue
<1>3. CopyKept
  <2>1. copy \in [Name -> Revs] /\ owed' \subseteq Name
    BY StoreFacts DEF TypeInv, HistoryOK
  <2>2. \A m \in Name, e \in Doc : copy'[m][e] = copy[m][e] \/ copy'[m][e] = 2
    BY <1>1, <2>1 DEF Revs
  <2> QED BY <2>1, <2>2 DEF CopyKept
<1> QED BY <1>1, <1>2, <1>3, HistOutside

\* What a teammate stores now is later than every pull's start.
LEMMA HistTeammate ==
  ASSUME TypeInv, TypeInv', HistInv, NEW d \in Doc, NEW n \in Name, TeammateStores(d, n)
  PROVE  HistInv'
<1> SUFFICES ASSUME NEW r, r = latest[d] + 1, NEW t, t = clock + 1,
                    NEW new, new = [in |-> n, rev |-> r, at |-> t, echo |-> FALSE]
             PROVE  HistInv'
  OBVIOUS
<1>1. /\ UNCHANGED <<copy, tombs, astray, here, left, redirect, pending, pullPoint, owed, at>>
      /\ latest' = [latest EXCEPT ![d] = @ + 1] /\ rows' = [rows EXCEPT ![d] = [in |-> n, rev |-> latest'[d], at |-> clock + 1, echo |-> FALSE]]
  BY DEF TeammateStores, storeVars, deleteVars, followVars
<1>2. clock \in Nat /\ t \in Nat /\ t > clock /\ t > 0 /\ r \in Nat /\ r > 0
  BY Clocked, Numbers
<1>3. new # NoRow /\ new.at = t /\ new.rev = r
  <2>1. new \in Row
    BY <1>2 DEF Row
  <2> QED BY <2>1, RowAssumption
<1>4. rows' = [rows EXCEPT ![d] = new]
  BY <1>1, StoreFacts DEF Revs
<1>5. \A e \in Doc : rows'[e] = rows[e] \/ rows'[e] = new
  <2>1. rows \in [Doc -> Row \cup {NoRow}]
    BY DEF TypeInv, StoreOK
  <2> QED BY <1>4, <2>1
<1>6. Stamped'
  BY <1>2, <1>3, <1>5 DEF HistInv, Stamped
<1>7. DueKept
  BY <1>1, <1>2, <1>3, <1>5 DEF DueKept, Due
<1>8. CopyKept /\ Followed'
  BY <1>1, FollowedKept, SameUnfollowed DEF CopyKept
<1> QED BY <1>1, <1>6, <1>7, <1>8, HistOutside

LEMMA HistCycle ==
  ASSUME TypeInv, TypeInv', HistInv, NEW p \in Proc, StartCycle(p) \/ Crash(p)
  PROVE  HistInv'
<1>1. CASE StartCycle(p)
  <2> SUFFICES ASSUME NEW r, r = [Idle EXCEPT !.pc = "deletes", !.op = "cycle"] PROVE HistInv'
    OBVIOUS
  <2>1. r \in Task /\ r.pc = "deletes" /\ r.op = "cycle" /\ Apart(r)
    BY Revisions DEF Task, Idle, PC, Op, Apart, Pulling
  <2>2. Cycling = {} /\ Begin(p, r, {}) /\ UNCHANGED <<rows, copy, tombs, pullPoint, left, redirect, pending, here>>
    BY <1>1 DEF StartCycle, svc, storeVars, deleteVars, followVars
  <2> QED BY <2>1, <2>2, HistBegin
<1>2. CASE Crash(p)
  <2>1. Work(p, Idle) /\ Still /\ UNCHANGED <<here, left, redirect, pending, pullPoint, owed>>
    BY <1>2 DEF Crash, Still, svc, storeVars, deleteVars, followVars, history, others
  <2> QED BY <2>1, IdleApart, HistQuiet
<1> QED BY <1>1, <1>2

\* A push, and its way to a pull, is apart.
LEMMA PushApart ==
  ASSUME TypeInv, NEW p \in Proc, at[p].pc \in Pushing \cup Pulling, NEW u, u.op = at[p].op, u.pc \in Pushing \cup {"pull"}
  PROVE  Apart(u) /\ Cycles(p, u)
<1>1. at[p].op \in {"subscribe", "cycle"} /\ p \in Cycling
  BY AtPlace, CyclesOn DEF Cycling
<1> QED BY <1>1 DEF Apart, Cycles, Pushing, Pulling

LEMMA HistPush ==
  ASSUME TypeInv, TypeInv', HistInv, NEW p \in Proc, Push(p)
  PROVE  HistInv'
<1>1. CASE PushDeletes(p)
  <2> SUFFICES ASSUME NEW pc \in {"list", "pull"}, NEW u, u = [at[p] EXCEPT !.pc = pc], Work(p, u) PROVE HistInv'
    BY <1>1 DEF PushDeletes, Then
  <2>1. /\ at[p].pc = "deletes" /\ rows' = [d \in Doc |-> IF d \in queue THEN NoRow ELSE rows[d]]
        /\ UNCHANGED <<copy, here, tombs, astray, left, redirect, pending, pullPoint, owed>>
    BY <1>1 DEF PushDeletes, At, storeVars, followVars, history, others
  <2>2. \A d \in Doc : rows'[d] # NoRow => rows'[d] = rows[d]
    BY <2>1
  <2>3. Stamped' /\ DueKept /\ CopyKept
    BY <2>1, <2>2 DEF HistInv, Stamped, DueKept, CopyKept, Due
  <2>4. Followed'
    BY <2>1, FollowedKept, SameUnfollowed
  <2>5. at'[p] = u /\ Alone(p)
    BY WorksAlone
  <2>6. u.op = at[p].op /\ u.pc \in Pushing \cup {"pull"} /\ at[p].pc \in Pushing \cup Pulling
    BY <2>1, AtPlace DEF Task, Pushing
  <2>7. Apart(u) /\ Cycles(p, u)
    BY <2>6, PushApart
  <2> QED BY <2>1, <2>3, <2>4, <2>5, <2>7, HistApart
<1>2. CASE PushDeletesFails(p)
  <2> SUFFICES ASSUME NEW pc \in {"list", "pull"}, NEW u, u = [at[p] EXCEPT !.pc = pc], Fails(p, {"deletes"}, u)
               PROVE  HistInv'
    BY <1>2 DEF PushDeletesFails
  <2>1. u.op = at[p].op /\ u.pc \in Pushing \cup {"pull"} /\ at[p].pc \in Pushing \cup Pulling
    BY AtPlace DEF Fails, Task, Pushing
  <2>2. Apart(u) /\ Cycles(p, u)
    BY <2>1, PushApart
  <2> QED BY <2>2, HistFails
<1>3. CASE ListCollections(p)
  <2> SUFFICES ASSUME NEW u, u = [at[p] EXCEPT !.pc = "send", !.todo = here] PROVE HistInv'
    OBVIOUS
  <2>1. /\ at[p].pc = "list" /\ Work(p, u) /\ Still /\ UNCHANGED <<here, left, redirect, pending, pullPoint, owed>>
    BY <1>3 DEF ListCollections, At, Still, svc, storeVars, deleteVars, followVars, history, others
  <2>2. u.op = at[p].op /\ u.pc \in Pushing \cup {"pull"} /\ at[p].pc \in Pushing \cup Pulling
    BY <2>1, AtPlace DEF Task, Pushing
  <2>3. Apart(u) /\ Cycles(p, u)
    BY <2>2, PushApart
  <2> QED BY <2>1, <2>3, HistQuiet
<1>4. ASSUME NEW n \in Name, Send(p, n) PROVE HistInv'
  <2> SUFFICES ASSUME NEW s, s = Unsent(n, Doc), NEW todo, todo = at[p].todo \ {n},
                      NEW v, v = [at[p] EXCEPT !.pc = "settle", !.name = n, !.sent = s, !.todo = todo],
                      NEW u, u \in {v} \cup Skips(p, n), Work(p, u)
               PROVE  HistInv'
    BY <1>4 DEF Send
  <2>1. /\ at[p].pc = "send" /\ Upsert(n, Unsent(n, Doc))
        /\ UNCHANGED <<copy, here, tombs, astray, left, redirect, pending, pullPoint, owed>>
    BY <1>4 DEF Send, At, storeVars, deleteVars, followVars, others
  <2>2. u.op = at[p].op /\ u.pc \in Pushing \cup {"pull"} /\ at[p].pc \in Pushing \cup Pulling
    <3>1. v.op = at[p].op /\ v.pc = "settle"
      BY AtPlace DEF Task
    <3>2. u \in Skips(p, n) => u.op = at[p].op /\ u.pc \in {"autoRead", "send"}
      BY <2>1, SkipTask
    <3> QED BY <2>1, <3>1, <3>2 DEF Pushing
  <2>3. Apart(u) /\ Cycles(p, u)
    BY <2>2, PushApart
  <2> QED BY <2>1, <2>3, HistService
<1>5. CASE SendFails(p)
  <2> SUFFICES ASSUME NEW n, NEW u \in Skips(p, n), Fails(p, {"send"}, u) PROVE HistInv'
    BY <1>5 DEF SendFails
  <2>1. at[p].pc = "send"
    BY DEF Fails
  <2>2. u.op = at[p].op /\ u.pc \in Pushing \cup {"pull"} /\ at[p].pc \in Pushing \cup Pulling
    BY <2>1, SkipTask DEF Pushing
  <2>3. Apart(u) /\ Cycles(p, u)
    BY <2>2, PushApart
  <2> QED BY <2>3, HistFails
<1>6. CASE PushSettle(p)
  <2> SUFFICES ASSUME NEW all, NEW u, u = [at[p] EXCEPT !.pc = "send", !.sent = NoDocs, !.name = Nowhere, !.all = all],
                      Work(p, u)
               PROVE  HistInv'
    <3>1. \E u : /\ Work(p, u)
                 /\ \E all : u = [at[p] EXCEPT !.pc = "send", !.sent = NoDocs, !.name = Nowhere, !.all = all]
      BY <1>6 DEF PushSettle
    <3> QED BY <3>1
  <2>1. /\ at[p].pc = "settle" /\ Still /\ UNCHANGED <<here, left, redirect, pending, pullPoint, owed>>
    BY <1>6 DEF PushSettle, At, Still, svc, deleteVars, followVars, history, others
  <2>2. u.op = at[p].op /\ u.pc \in Pushing \cup {"pull"} /\ at[p].pc \in Pushing \cup Pulling
    BY <2>1, AtPlace DEF Task, Pushing
  <2>3. Apart(u) /\ Cycles(p, u)
    BY <2>2, PushApart
  <2> QED BY <2>1, <2>3, HistQuiet
<1>7. CASE SendDone(p)
  <2> SUFFICES ASSUME NEW u, u = [at[p] EXCEPT !.pc = "autoRead"] PROVE HistInv'
    OBVIOUS
  <2>1. /\ at[p].pc = "send" /\ Work(p, u) /\ Still /\ UNCHANGED <<here, left, redirect, pending, pullPoint, owed>>
    BY <1>7 DEF SendDone, At, Then, Still, svc, storeVars, deleteVars, followVars, history, others
  <2>2. u.op = at[p].op /\ u.pc \in Pushing \cup {"pull"} /\ at[p].pc \in Pushing \cup Pulling
    BY <2>1, AtPlace DEF Task, Pushing
  <2>3. Apart(u) /\ Cycles(p, u)
    BY <2>2, PushApart
  <2> QED BY <2>1, <2>3, HistQuiet
<1>8. CASE AutoSubscribe(p)
  <2> SUFFICES ASSUME NEW ns, ns = AutoSubscribes(p), NEW v, v = [Fresh(p, "autoAdd") EXCEPT !.all = ns],
                      NEW u, u \in {v, Fresh(p, "pull")}, Work(p, u)
               PROVE  HistInv'
    BY <1>8 DEF AutoSubscribe
  <2>1. /\ at[p].pc = "autoRead" /\ Still /\ UNCHANGED <<here, left, redirect, pending, pullPoint, owed>>
    BY <1>8 DEF AutoSubscribe, At, Still, svc, storeVars, deleteVars, followVars, history, others
  <2>2. u.op = at[p].op /\ u.pc \in Pushing \cup {"pull"} /\ at[p].pc \in Pushing \cup Pulling
    <3>1. v.op = at[p].op /\ v.pc = "autoAdd" /\ Fresh(p, "pull").op = at[p].op /\ Fresh(p, "pull").pc = "pull"
      BY DEF Fresh, Idle
    <3> QED BY <2>1, <3>1 DEF Pushing
  <2>3. Apart(u) /\ Cycles(p, u)
    BY <2>2, PushApart
  <2> QED BY <2>1, <2>3, HistQuiet
<1>9. CASE Subscribes(p, "autoAdd", at[p].all, Fresh(p, "pull"))
  <2> SUFFICES ASSUME NEW u, u = Fresh(p, "pull") PROVE HistInv'
    OBVIOUS
  <2>1. /\ at[p].pc = "autoAdd" /\ Work(p, u) /\ Still /\ UNCHANGED <<here, left, redirect, pending, pullPoint, owed>>
    BY <1>9 DEF Subscribes, At, Still, svc, storeVars, deleteVars, history, others
  <2>2. u.op = at[p].op /\ u.pc \in Pushing \cup {"pull"} /\ at[p].pc \in Pushing \cup Pulling
    BY <2>1 DEF Fresh, Idle, Pushing
  <2>3. Apart(u) /\ Cycles(p, u)
    BY <2>2, PushApart
  <2> QED BY <2>1, <2>3, HistQuiet
<1> QED BY <1>1, <1>2, <1>3, <1>4, <1>5, <1>6, <1>7, <1>8, <1>9 DEF Push

\* A pull that goes on, changing but its own work.
LEMMA PullStill ==
  ASSUME TypeInv, TypeInv', HistInv, NEW p \in Proc, NEW u, Work(p, u), Still,
         UNCHANGED <<pullPoint, pending, owed, left, redirect>>, here \subseteq here', Cycles(p, u), PullOK(u),
         \A n \in owed : /\ \A S \in SUBSET Doc : Whole(n, S) => Seen(u, n, S)
                         /\ Clearing(u, n) => Whole(n, Bringing(u))
  PROVE  HistInv'
<1>1. Followed'
  BY FollowedKept, SameUnfollowed
<1>2. DueKept /\ CopyKept /\ Stamped' /\ \A d, n, t : Due(d, n, t)' <=> Due(d, n, t)
  BY StillKeeps
<1>3. at'[p] = u /\ Alone(p)
  BY WorksAlone
<1>4. PullOK(u)'
  <2> SUFFICES ASSUME NEW t, t = pullPoint PROVE PullOK(u)'
    OBVIOUS
  <2> QED BY <1>2 DEF PullOK
<1>5. \A n, S : Seen(u, n, S) => Seen(u, n, S)'
  <2> SUFFICES ASSUME NEW n, NEW t, NEW S, Covered(n, t, S) PROVE Covered(n, t, S)'
    BY DEF Seen
  <2>1. copy' = copy
    BY DEF Still
  <2> QED BY <1>2, <2>1 DEF Covered
<1>6. \A n \in owed' : /\ n \notin pending' => n \in owed /\ Whole(n, {})
                       /\ n \in owed \/ \A q \in Proc : ~Clearing(at[q], n)
                       /\ \A S \in SUBSET Doc : Whole(n, S) => Seen(u, n, S)'
                       /\ Clearing(u, n) => Whole(n, Bringing(u)) \/ Whole(n, Bringing(u))'
  BY <1>5 DEF HistInv, Marked
<1> QED BY <1>1, <1>2, <1>3, <1>4, <1>6, HistStep DEF Cycles

\* A pull has no other cycle beside it.
LEMMA PullAlone ==
  ASSUME TypeInv, HistInv, NEW p \in Proc, at[p].pc \in Pulling
  PROVE  /\ p \in Cycling /\ at[p].op \in {"subscribe", "cycle"}
         /\ \A q \in Proc : at[q].pc \in Pushing \cup Pulling => q = p
BY AtPlace, CyclesOn DEF Cycling, HistInv, OneCycle

\* What a page from the start of a collection's history leaves nothing due of.
LEMMA FeedAll ==
  ASSUME TypeInv, HistInv, NEW n, NEW own, NEW d \in Doc, NEW t, Due(d, n, t)
  PROVE  Feed(n, 0, own)[d] > 0
BY DEF HistInv, Stamped, Due, Feed

LEMMA FeedSince ==
  ASSUME TypeInv, HistInv, NEW n, NEW own, NEW since \in Nat, NEW d \in Doc, NEW t, Due(d, n, t), ~(rows[d].at <= since)
  PROVE  Feed(n, since, own)[d] > 0
<1>1. rows[d] \in Row /\ rows[d].rev > 0
  BY Numbers DEF HistInv, Stamped, Due
<1> QED BY <1>1 DEF Due, Feed, Row

\* A page from the start brings all that is due.
LEMMA WholeFeed ==
  ASSUME TypeInv, HistInv, NEW n, NEW own, NEW u, u.sent = Feed(n, 0, own)
  PROVE  Whole(n, Fetched(u))
<1> SUFFICES ASSUME NEW F, F = Fetched(u) PROVE Whole(n, F)
  OBVIOUS
<1>1. \A d \in Doc : \A t : Due(d, n, t) => d \in F
  BY FeedAll DEF Fetched
<1>2. \A t, X : F \subseteq X => Covered(n, t, X)
  BY <1>1 DEF Covered
<1>3. \A q \in Proc : Seen(at[q], n, F)
  BY <1>2 DEF Seen
<1> QED BY <1>2, <1>3 DEF Whole

LEMMA PullFields ==
  ASSUME TypeInv, NEW p \in Proc
  PROVE  /\ at[p].todo \subseteq Name /\ at[p].whole \subseteq Name /\ at[p].marked \subseteq Name
         /\ at[p].from \in Nat /\ at[p].start \in Nat
BY AtPlace DEF Task

\* The pull asks for what it has not seen yet.
LEMMA HistFetch ==
  ASSUME TypeInv, TypeInv', HistInv, NEW p \in Proc, Fetch(p, "fetch", "apply", Own(p))
  PROVE  HistInv'
<1> SUFFICES ASSUME NEW n, n = at[p].name, NEW own, own = Own(p), NEW since, since = Since(p),
                    NEW s, s = Feed(n, since, own), NEW u, u = [at[p] EXCEPT !.pc = "apply", !.sent = s]
             PROVE  HistInv'
  OBVIOUS
<1>1. /\ at[p].pc = "fetch" /\ Work(p, u) /\ Still
      /\ UNCHANGED <<pullPoint, pending, owed, here, left, redirect>>
  BY DEF Fetch, At, Still, svc, storeVars, deleteVars, followVars, history, others
<1>2. /\ u.pc = "apply" /\ u.op = at[p].op /\ u.name = n /\ u.sent = s /\ u.todo = at[p].todo
      /\ u.whole = at[p].whole /\ u.marked = at[p].marked /\ u.start = at[p].start /\ u.from = at[p].from
  BY AtPlace DEF Task
<1>3. at[p].pc \in EachOf /\ at[p].pc \in Pulling \ {"pull"} /\ u.pc \in EachOf
  BY <1>1, <1>2 DEF EachOf, Pulling
<1>4. p \in Cycling
  BY <1>3, PullAlone
<1>5. PullOK(at[p]) /\ since \in Nat /\ (since = 0 \/ since = pullPoint)
  <2>1. PullOK(at[p]) /\ at[p].from = pullPoint
    BY <1>3 DEF HistInv, PullOK
  <2> QED BY <2>1, PullFields DEF Since
<1>6. PullOK(u)
  BY <1>2, <1>3, <1>5 DEF PullOK
<1>7. ASSUME NEW m \in owed, NEW S \in SUBSET Doc, Whole(m, S) PROVE Seen(u, m, S)
  <2> SUFFICES ASSUME NEW F, F = Fetched(u), NEW t, t = at[p].start PROVE Seen(u, m, S)
    OBVIOUS
  <2>1. CASE m = n
    <3>1. Covered(m, pullPoint, S)
      BY <1>7 DEF Whole
    <3>2. ASSUME NEW d \in Doc, Due(d, m, t), ~(copy[m][d] > 0), d \notin S PROVE d \in F
      <4>1. ~(rows[d].at <= pullPoint)
        BY <3>1, <3>2 DEF Covered, Due
      <4>2. ~(rows[d].at <= since)
        <5>1. rows[d] \in Row /\ rows[d].at > 0
          BY <3>2, Numbers DEF HistInv, Stamped, Due
        <5> QED BY <1>5, <4>1, <5>1 DEF Row
      <4>3. s[d] > 0
        BY <1>5, <2>1, <3>2, <4>2, FeedSince
      <4> QED BY <1>2, <4>3 DEF Fetched
    <3>3. Covered(m, t, S \cup F)
      BY <3>2 DEF Covered
    <3> QED BY <1>2, <2>1, <3>3 DEF Seen
  <2>2. CASE m # n
    <3>1. m \in at[p].todo \/ Covered(m, t, S)
      BY <1>1, <1>3, <1>7, <2>2 DEF Whole, Seen
    <3> QED BY <1>2, <2>2, <3>1 DEF Seen
  <2> QED BY <2>1, <2>2
<1>8. ASSUME NEW m \in owed, Clearing(u, m) PROVE Whole(m, Bringing(u))
  <2>1. m = n /\ m \in at[p].whole
    BY <1>2, <1>3, <1>5, <1>8 DEF Clearing, PullOK
  <2>2. u.sent = Feed(m, 0, own)
    BY <1>2, <2>1 DEF Since
  <2>3. Whole(m, Fetched(u))
    BY <2>2, WholeFeed
  <2> QED BY <1>2, <2>3 DEF Bringing
<1> QED BY <1>1, <1>4, <1>6, <1>7, <1>8, PullStill DEF Cycles

\* The page is applied, and a mark that was due to go may go.
LEMMA HistApplied ==
  ASSUME TypeInv, TypeInv', HistInv, NEW p \in Proc, Applied(p)
  PROVE  HistInv'
<1> SUFFICES ASSUME NEW n, n = at[p].name, NEW pc, pc = IF n \in at[p].marked THEN "clear" ELSE "each",
                    NEW F, F = Fetched(at[p]), NEW t, t = at[p].start,
                    NEW v, v = [at[p] EXCEPT !.pc = pc], NEW u, u = [v EXCEPT !.sent = NoDocs]
             PROVE  HistInv'
  OBVIOUS
<1>1. at[p].pc = "apply" /\ Work(p, u) /\ ApplyPage(p, "apply", v)
  BY DEF Applied, Apply, ApplyPage, At
<1>2. /\ u.pc = pc /\ u.op = at[p].op /\ u.name = n /\ u.todo = at[p].todo
      /\ u.whole = at[p].whole /\ u.marked = at[p].marked /\ u.start = t /\ u.from = at[p].from
  BY AtPlace DEF Task
<1>3. at[p].pc \in EachOf /\ at[p].pc \in Pulling \ {"pull"} /\ u.pc \in {"clear", "each"} /\ "apply" \notin Nameless
  BY <1>1, <1>2 DEF EachOf, Pulling, Nameless
<1>4. p \in Cycling /\ \A q \in Proc : at[q].pc \in EachOf => q = p
  BY <1>3, PullAlone DEF EachOf, Pulling
<1>5. /\ DueKept /\ CopyKept /\ Stamped' /\ Followed' /\ UNCHANGED <<pullPoint, pending, owed>>
      /\ \A x \in Nat : \A S : Covered(n, x, S \cup F) => Covered(n, x, S)'
  BY <1>1, <1>3, PageArrives
<1>6. at'[p] = u /\ Alone(p)
  BY <1>1, WorksAlone
<1>7. t \in Nat /\ t <= clock /\ Moment(t) /\ pullPoint \in Nat
  BY <1>3, Moments DEF Moment
<1>8. PullOK(u)'
  <2>1. PullOK(at[p])
    BY DEF HistInv
  <2> QED BY <1>2, <1>3, <1>5, <2>1 DEF PullOK, EachOf
<1>9. ASSUME NEW m \in owed', NEW S, Seen(at[p], m, S) PROVE Seen(u, m, S)'
  <2>0. m \in Name
    BY DEF TypeInv, HistoryOK
  <2>1. CASE m \in at[p].todo
    BY <1>2, <2>1 DEF Seen
  <2>2. CASE m \notin at[p].todo
    <3>1. Covered(m, t, IF m = n THEN S \cup F ELSE S)
      BY <1>1, <1>3, <1>9, <2>2 DEF Seen
    <3>2. Covered(m, t, S)'
      <4>1. CASE m = n
        BY <1>5, <1>7, <3>1, <4>1
      <4>2. CASE m # n
        BY <1>5, <1>7, <2>0, <3>1, <4>2, CoveredKept
      <4> QED BY <4>1, <4>2
    <3> QED BY <1>2, <1>3, <3>2 DEF Seen
  <2> QED BY <2>1, <2>2
<1>10. ASSUME NEW m \in owed', Clearing(u, m) PROVE Whole(m, Bringing(u))'
  <2>1. m = n /\ Clearing(at[p], m) /\ Bringing(u) = {} /\ Bringing(at[p]) = F
    BY <1>1, <1>2, <1>3, <1>10 DEF Clearing, Bringing
  <2>2. Whole(m, F)
    BY <1>5, <2>1 DEF HistInv, Marked
  <2>3. Covered(m, pullPoint, {})'
    <3> SUFFICES ASSUME NEW x, x = pullPoint PROVE Covered(m, x, {})'
      BY <1>5 DEF Covered, Due
    <3>1. Covered(m, x, {} \cup F)
      BY <2>2 DEF Whole
    <3> QED BY <1>5, <1>7, <2>1, <3>1
  <2>4. ASSUME NEW q \in Proc PROVE Seen(at[q], m, {})'
    <3> SUFFICES ASSUME NEW k, k = at'[q] PROVE Seen(k, m, {})'
      BY DEF Seen, Covered, Due
    <3>1. CASE q = p
      <4>1. Seen(at[p], m, F) /\ F \cup F = F /\ {} \cup F = F
        BY <2>2 DEF Whole
      <4>2. m \in at[p].todo \/ Covered(m, t, {} \cup F)
        BY <1>1, <1>3, <2>1, <4>1 DEF Seen
      <4>3. m \in at[p].todo \/ Covered(m, t, {})'
        BY <1>5, <1>7, <2>1, <4>2
      <4>4. k = u
        BY <1>6, <3>1
      <4> QED BY <1>2, <1>3, <4>3, <4>4 DEF Seen
    <3>2. CASE q # p
      <4>1. k.pc \notin EachOf
        BY <1>4, <1>6, <3>2 DEF Alone, SamePull, SameWork
      <4> QED BY <4>1 DEF Seen
    <3> QED BY <3>1, <3>2
  <2>5. Whole(m, {})'
    BY <2>3, <2>4 DEF Whole
  <2> QED BY <2>1, <2>5
<1>11. \A m \in owed' : /\ m \notin pending' => m \in owed /\ Whole(m, {})
                        /\ m \in owed \/ \A q \in Proc : ~Clearing(at[q], m)
                        /\ \A S \in SUBSET Doc : Whole(m, S) => Seen(u, m, S)'
                        /\ Clearing(u, m) => Whole(m, Bringing(u)) \/ Whole(m, Bringing(u))'
  <2>1. \A m, S : Whole(m, S) => Seen(at[p], m, S)
    BY DEF Whole
  <2> QED BY <1>5, <1>9, <1>10, <2>1 DEF HistInv, Marked
<1> QED BY <1>4, <1>5, <1>6, <1>8, <1>11, HistStep

\* The pull's documents that moved out were not due.
LEMMA HistMoveDrop ==
  ASSUME TypeInv, TypeInv', HistInv, NEW p \in Proc, MoveDrop(p)
  PROVE  HistInv'
<1> SUFFICES ASSUME NEW n, n = at[p].name, NEW ids, ids = at[p].ids, NEW t, t = at[p].start,
                    NEW u, u = [at[p] EXCEPT !.pc = "fetch", !.ids = {}]
             PROVE  HistInv'
  OBVIOUS
<1>1. /\ at[p].pc = "moveDrop" /\ Work(p, u)
      /\ UNCHANGED <<rows, tombs, astray, here, left, redirect, pending, pullPoint, owed>>
      /\ copy' = [copy EXCEPT ![n] = [d \in Doc |-> IF d \in ids THEN 0 ELSE @[d]]]
  BY DEF MoveDrop, At, svc, deleteVars, followVars, others
<1>2. /\ u.pc = "fetch" /\ u.op = at[p].op /\ u.name = n /\ u.todo = at[p].todo
      /\ u.whole = at[p].whole /\ u.marked = at[p].marked /\ u.start = t /\ u.from = at[p].from
  BY AtPlace DEF Task
<1>3. at[p].pc \in EachOf /\ at[p].pc \in Pulling \ {"pull"} /\ u.pc \in EachOf
  BY <1>1, <1>2 DEF EachOf, Pulling
<1>4. p \in Cycling /\ \A q \in Proc : at[q].pc \in EachOf => q = p
  BY <1>3, PullAlone DEF EachOf, Pulling
<1>5. at[p].from = pullPoint /\ pullPoint <= t /\ \A d \in ids : ~Due(d, n, t)
  BY <1>1, <1>3 DEF HistInv, PullOK
<1>6. t \in Nat /\ t <= clock /\ pullPoint \in Nat /\ Moment(t)
  BY <1>3, Moments DEF Moment
<1>7. DueKept /\ Stamped' /\ Followed'
  BY <1>1, LessDue, FollowedKept, SameUnfollowed
<1>8. CopyKept
  <2>1. ASSUME NEW d \in Doc, NEW x \in Nat, Moment(x), Due(d, n, x)' PROVE d \notin ids
    <3>1. x <= t
      BY <1>4, <1>5, <1>6, <2>1 DEF Moment
    <3>2. rows[d] \in Row /\ rows[d].at <= x
      BY <1>1, <2>1, Numbers DEF Due
    <3>3. Due(d, n, t)
      BY <1>1, <1>6, <2>1, <3>1, <3>2 DEF Due, Row
    <3> QED BY <1>5, <3>3
  <2>2. \A m \in Name, d \in Doc : m # n \/ d \notin ids => copy'[m][d] = copy[m][d]
    BY <1>1, StoreFacts DEF Revs
  <2>3. owed' \subseteq Name
    BY DEF TypeInv, HistoryOK
  <2> QED BY <2>1, <2>2, <2>3 DEF CopyKept
<1>9. at'[p] = u /\ Alone(p)
  BY <1>1, WorksAlone
<1>10. PullOK(u)'
  <2>1. PullOK(at[p])
    BY DEF HistInv
  <2> QED BY <1>1, <1>2, <1>3, <2>1 DEF PullOK
<1>11. ASSUME NEW m \in owed', NEW S, Whole(m, S) PROVE Seen(u, m, S)'
  <2>1. m \in Name /\ Seen(at[p], m, S)
    BY <1>11 DEF TypeInv, HistoryOK, Whole
  <2>2. m \in at[p].todo \/ m = n \/ Covered(m, t, S)
    BY <1>1, <1>3, <2>1 DEF Seen
  <2>3. m \in at[p].todo \/ m = n \/ Covered(m, t, S)'
    BY <1>6, <1>7, <1>8, <2>1, <2>2, CoveredKept
  <2> QED BY <1>2, <2>3 DEF Seen
<1>12. \A m : ~Clearing(u, m)
  BY <1>2 DEF Clearing
<1>13. \A m \in owed' : m \in owed /\ (m \notin pending' => Whole(m, {}))
  BY <1>1 DEF HistInv, Marked
<1> QED BY <1>1, <1>4, <1>7, <1>8, <1>9, <1>10, <1>11, <1>12, <1>13, HistStep

\* The mark of what was pulled goes.
LEMMA HistClear ==
  ASSUME TypeInv, TypeInv', HistInv, NEW p \in Proc, NEW pc, NEW ns, NEW u, ClearBackfill(p, pc, ns, u),
         \A n \in ns : Clearing(at[p], n) /\ Bringing(at[p]) = {}, PullOK(u), Cycles(p, u),
         \A n : ~Clearing(u, n), \A n \in owed : \A S \in SUBSET Doc : Whole(n, S) => Seen(u, n, S)
  PROVE  HistInv'
<1>1. /\ Work(p, u) /\ Still /\ UNCHANGED <<pullPoint, owed, here, left, redirect>> /\ pending' = pending \ ns
  BY DEF ClearBackfill, Still, svc, storeVars, deleteVars, history, others
<1>2. Followed'
  BY <1>1, FollowedKept, SameUnfollowed
<1>3. DueKept /\ CopyKept /\ Stamped' /\ \A d, n, t : Due(d, n, t)' <=> Due(d, n, t)
  BY <1>1, StillKeeps
<1>4. at'[p] = u /\ Alone(p)
  BY <1>1, WorksAlone
<1>5. PullOK(u)'
  <2> SUFFICES ASSUME NEW t, t = pullPoint PROVE PullOK(u)'
    OBVIOUS
  <2> QED BY <1>1, <1>3 DEF PullOK
<1>6. \A n, S : Seen(u, n, S) => Seen(u, n, S)'
  <2> SUFFICES ASSUME NEW n, NEW t, NEW S, Covered(n, t, S) PROVE Covered(n, t, S)'
    BY DEF Seen
  <2>1. copy' = copy
    BY <1>1 DEF Still
  <2> QED BY <1>3, <2>1 DEF Covered
<1>7. ASSUME NEW n \in owed', n \notin pending' PROVE Whole(n, {})
  <2>1. CASE n \in pending
    <3>1. Clearing(at[p], n) /\ Bringing(at[p]) = {}
      BY <1>1, <1>7, <2>1
    <3> QED BY <1>1, <3>1 DEF HistInv, Marked
  <2>2. CASE n \notin pending
    BY <1>1, <2>2 DEF HistInv, Marked
  <2> QED BY <2>1, <2>2
<1> QED BY <1>1, <1>2, <1>3, <1>4, <1>5, <1>6, <1>7, HistStep DEF Cycles

\* What a pull has seen all of is whole up to its start.
LEMMA HistEndPull ==
  ASSUME TypeInv, TypeInv', HistInv, NEW p \in Proc, EndPull(p)
  PROVE  HistInv'
<1> SUFFICES ASSUME NEW t, t = at[p].start PROVE HistInv'
  OBVIOUS
<1>1. /\ at[p].pc = "each" /\ at[p].todo = {} /\ pullPoint' = t /\ Work(p, Idle) /\ Still
      /\ UNCHANGED <<pending, owed, here, left, redirect>>
  BY DEF EndPull, At, Still, svc, storeVars, deleteVars, followVars, history, others
<1>2. at[p].pc \in EachOf /\ at[p].pc \in Pulling
  BY <1>1 DEF EachOf, Pulling
<1>3. \A q \in Proc : at[q].pc \in Pushing \cup Pulling => q = p
  BY <1>2, PullAlone
<1>4. at'[p] = Idle /\ Alone(p) /\ Idle.pc = "idle" /\ Idle.op = "none"
  BY <1>1, WorksAlone, Revisions
<1>5. \A q \in Proc : at'[q].pc \notin Pushing \cup Pulling /\ at'[q].pc \notin EachOf
  BY <1>3, <1>4 DEF Alone, SamePull, SameWork, Pushing, Pulling, EachOf
<1>6. Followed' /\ Stamped' /\ \A d, n, x : Due(d, n, x)' <=> Due(d, n, x)
  BY <1>1, StillKeeps, FollowedKept, SameUnfollowed
<1>7. OneCycle'
  BY <1>5 DEF OneCycle, Cycling
<1>8. ASSUME NEW q \in Proc PROVE PullOK(at[q])'
  <2> SUFFICES ASSUME NEW k, k = at'[q] PROVE PullOK(k)'
    BY DEF PullOK, Due
  <2>1. k.pc \notin Pulling /\ k.pc \notin EachOf /\ k.pc # "clear" /\ k.pc # "moveDrop"
    BY <1>5 DEF Pulling
  <2>2. k.op = "visit" => k.marked \subseteq k.whole \cap {k.name}
    <3>1. CASE q = p
      BY <1>4, <3>1
    <3>2. CASE q # p
      <4>1. PullOK(at[q]) /\ SamePull(at[q], k)
        BY <1>4, <3>2 DEF HistInv, Alone
      <4> QED BY <4>1 DEF PullOK, SamePull, SameWork
    <3> QED BY <3>1, <3>2
  <2> QED BY <2>1, <2>2 DEF PullOK
<1>9. ASSUME NEW n, NEW S, Whole(n, S) PROVE Whole(n, S)'
  <2>1. Seen(at[p], n, S)
    BY <1>9 DEF Whole
  <2>2. Covered(n, t, S)
    BY <1>1, <1>2, <2>1 DEF Seen
  <2>3. Covered(n, pullPoint, S)'
    <3> SUFFICES ASSUME NEW d \in Doc, Due(d, n, pullPoint)' PROVE copy'[n][d] > 0 \/ d \in S
      BY DEF Covered
    <3>1. Due(d, n, t)
      BY <1>1 DEF Due, Still
    <3>2. copy' = copy
      BY <1>1 DEF Still
    <3> QED BY <2>2, <3>1, <3>2 DEF Covered
  <2>4. \A q \in Proc : Seen(at[q], n, S)'
    BY <1>5 DEF Seen
  <2> QED BY <2>3, <2>4 DEF Whole
<1>10. Marked'
  <2> SUFFICES ASSUME NEW n \in owed
               PROVE  /\ n \notin pending' => Whole(n, {})'
                      /\ \A q \in Proc : Clearing(at'[q], n) => Whole(n, Bringing(at[q]))'
    BY <1>1 DEF Marked
  <2>1. n \notin pending' => Whole(n, {})'
    BY <1>1, <1>9 DEF HistInv, Marked
  <2>2. ASSUME NEW q \in Proc, Clearing(at'[q], n) PROVE Whole(n, Bringing(at[q]))'
    <3> SUFFICES ASSUME NEW k, k = at[q], NEW m, m = at'[q], NEW S, S = Bringing(m) PROVE Whole(n, S)'
      BY DEF Whole, Covered, Seen, Due
    <3>1. q # p
      BY <1>4, <2>2 DEF Clearing
    <3>2. SamePull(k, m)
      BY <1>4, <3>1 DEF Alone
    <3>3. Clearing(k, n) /\ S = Bringing(k)
      BY <2>2, <3>2 DEF Clearing, Bringing, Fetched, SamePull, SameWork
    <3>4. Whole(n, S)
      BY <3>3 DEF HistInv, Marked
    <3> QED BY <3>4, <1>9
  <2> QED BY <2>1, <2>2
<1> QED BY <1>6, <1>7, <1>8, <1>10 DEF HistInv

\* Work of a pull that has no collection in hand.
LEMMA HistChoosing ==
  ASSUME TypeInv, TypeInv', HistInv, NEW p \in Proc, NEW u, Work(p, u), Still,
         UNCHANGED <<pullPoint, pending, owed, left, redirect>>, here \subseteq here',
         at[p].pc \in Pulling, u.op = at[p].op, u.pc \in {"recover", "recoverAdd", "choose"},
         u.from = pullPoint, pullPoint <= u.start
  PROVE  HistInv'
<1>1. p \in Cycling /\ u.op # "visit"
  BY PullAlone
<1>2. PullOK(u)
  BY <1>1 DEF PullOK, EachOf
<1>3. \A n, S : Seen(u, n, S) /\ ~Clearing(u, n)
  BY DEF Seen, Clearing, EachOf
<1> QED BY <1>1, <1>2, <1>3, PullStill DEF Cycles

\* A page nobody read: nothing of it is due any more.
LEMMA HistFetchFails ==
  ASSUME TypeInv, TypeInv', HistInv, NEW p \in Proc, FetchFails(p)
  PROVE  HistInv'
<1> SUFFICES ASSUME NEW n, n = at[p].name, NEW own, own = Own(p), NEW since, since = Since(p),
                    NEW s, s = Feed(n, since, own), NEW t, t = at[p].start, NEW u, u = [at[p] EXCEPT !.pc = "each"]
             PROVE  HistInv'
  OBVIOUS
<1>1. /\ at[p].pc = "fetch" /\ Work(p, u) /\ astray' = astray \cup {d \in Doc : s[d] > 0}
      /\ UNCHANGED <<rows, copy, tombs, pullPoint, pending, owed, here, left, redirect>>
  BY DEF FetchFails, At, Then, svc, storeVars, deleteVars, followVars
<1>2. /\ u.pc = "each" /\ u.op = at[p].op /\ u.name = n /\ u.todo = at[p].todo
      /\ u.whole = at[p].whole /\ u.marked = at[p].marked /\ u.start = t /\ u.from = at[p].from
  BY AtPlace DEF Task
<1>3. at[p].pc \in EachOf /\ at[p].pc \in Pulling \ {"pull"}
  BY <1>1 DEF EachOf, Pulling
<1>4. p \in Cycling /\ at'[p] = u /\ Alone(p)
  BY <1>1, <1>3, PullAlone, WorksAlone
<1>5. PullOK(at[p]) /\ since \in Nat /\ (since = 0 \/ since = pullPoint)
  <2>1. PullOK(at[p]) /\ at[p].from = pullPoint
    BY <1>3 DEF HistInv, PullOK
  <2> QED BY <2>1, PullFields DEF Since
<1>6. PullOK(u)'
  BY <1>1, <1>2, <1>3, <1>5 DEF PullOK
<1>7. \A d, m, x : Due(d, m, x)' => Due(d, m, x) /\ (d \in Doc => ~(s[d] > 0))
  BY <1>1 DEF Due
<1>8. DueKept /\ CopyKept /\ Stamped'
  BY <1>1, <1>7 DEF DueKept, CopyKept, HistInv, Stamped
<1>9. Followed'
  BY <1>1, FollowedKept, SameUnfollowed
<1>10. t \in Nat /\ t <= clock /\ Moment(t)
  BY <1>3, Moments DEF Moment
<1>11. ASSUME NEW m \in owed', NEW S \in SUBSET Doc, Whole(m, S) PROVE Seen(u, m, S)'
  <2>1. CASE m = n
    <3>1. Covered(m, pullPoint, S)
      BY <1>11 DEF Whole
    <3>2. ASSUME NEW d \in Doc, Due(d, m, t)' PROVE copy[m][d] > 0 \/ d \in S
      <4>1. Due(d, m, t) /\ ~(s[d] > 0)
        BY <1>7, <3>2
      <4>2. rows[d].at <= since
        BY <1>5, <2>1, <4>1, FeedSince
      <4>3. rows[d] \in Row /\ rows[d].at > 0
        BY <4>1, Numbers DEF HistInv, Stamped, Due
      <4>4. rows[d].at <= pullPoint
        BY <1>5, <4>2, <4>3 DEF Row
      <4> QED BY <3>1, <4>1, <4>4 DEF Covered, Due
    <3>3. Covered(m, t, S)'
      BY <1>1, <3>2 DEF Covered
    <3> QED BY <1>2, <3>3 DEF Seen
  <2>2. CASE m # n
    <3>1. m \in at[p].todo \/ Covered(m, t, S)
      BY <1>1, <1>3, <1>11, <2>2 DEF Whole, Seen
    <3>2. m \in Name
      BY DEF TypeInv, HistoryOK
    <3>3. m \in at[p].todo \/ Covered(m, t, S)'
      BY <1>8, <1>10, <3>1, <3>2, CoveredKept
    <3> QED BY <1>2, <3>3 DEF Seen
  <2> QED BY <2>1, <2>2
<1>12. \A m : ~Clearing(u, m)
  BY <1>2 DEF Clearing
<1>13. \A m \in owed' : m \in owed /\ (m \notin pending' => Whole(m, {}))
  BY <1>1 DEF HistInv, Marked
<1>14. UNCHANGED pullPoint
  BY <1>1
<1> QED BY <1>4, <1>6, <1>8, <1>9, <1>11, <1>12, <1>13, <1>14, HistStep

LEMMA HistPull ==
  ASSUME TypeInv, TypeInv', HistInv, NEW p \in Proc, Pull(p)
  PROVE  HistInv'
<1>1. CASE StartPull(p)
  <2> SUFFICES ASSUME NEW pc, pc = IF pullPoint = 0 THEN "recover" ELSE "choose", NEW t, t = clock, NEW f, f = pullPoint,
                      NEW u, u = [Fresh(p, pc) EXCEPT !.start = t, !.from = f]
               PROVE  HistInv'
    OBVIOUS
  <2>1. /\ at[p].pc = "pull" /\ Work(p, u) /\ Still /\ UNCHANGED <<here, left, redirect, pending, pullPoint, owed>>
    BY <1>1 DEF StartPull, At, Still, svc, storeVars, deleteVars, followVars, history, others
  <2>2. u.op = at[p].op /\ u.pc = pc /\ u.start = t /\ u.from = f /\ at[p].pc \in Pulling
    BY <2>1 DEF Fresh, Idle, Pulling
  <2>3. f <= t
    BY Moments
  <2> QED BY <2>1, <2>2, <2>3, HistChoosing
<1>2. CASE Recover(p)
  <2> SUFFICES ASSUME NEW ns, NEW u, u = [at[p] EXCEPT !.pc = "recoverAdd", !.all = ns], Work(p, u)
               PROVE  HistInv'
    <3>1. \E ns : Work(p, [at[p] EXCEPT !.pc = "recoverAdd", !.all = ns])
      BY <1>2 DEF Recover
    <3> QED BY <3>1
  <2>1. /\ at[p].pc = "recover" /\ Still /\ UNCHANGED <<here, left, redirect, pending, pullPoint, owed>>
    BY <1>2 DEF Recover, At, Still, svc, storeVars, deleteVars, followVars, history, others
  <2>2. u.op = at[p].op /\ u.pc = "recoverAdd" /\ u.start = at[p].start /\ u.from = at[p].from
    BY AtPlace DEF Task
  <2>3. at[p].pc \in Pulling /\ at[p].from = pullPoint /\ pullPoint <= at[p].start
    BY <2>1 DEF HistInv, PullOK, Pulling
  <2> QED BY <2>1, <2>2, <2>3, HistChoosing
<1>3. CASE Fails(p, {"recover", "fetch"}, Idle)
  BY <1>3, IdleApart, HistFails
<1>4. CASE Subscribes(p, "recoverAdd", at[p].all, [at[p] EXCEPT !.pc = "choose", !.all = {}])
  <2> SUFFICES ASSUME NEW u, u = [at[p] EXCEPT !.pc = "choose", !.all = {}] PROVE HistInv'
    OBVIOUS
  <2>1. /\ at[p].pc = "recoverAdd" /\ Work(p, u) /\ Still /\ UNCHANGED <<here, left, redirect, pending, pullPoint, owed>>
    BY <1>4 DEF Subscribes, At, Still, svc, storeVars, deleteVars, history, others
  <2>2. u.op = at[p].op /\ u.pc = "choose" /\ u.start = at[p].start /\ u.from = at[p].from
    BY AtPlace DEF Task
  <2>3. at[p].pc \in Pulling /\ at[p].from = pullPoint /\ pullPoint <= at[p].start
    BY <2>1 DEF HistInv, PullOK, Pulling
  <2> QED BY <2>1, <2>2, <2>3, HistChoosing
<1>5. CASE Choose(p)
  <2> SUFFICES ASSUME NEW whole, whole = Backfills(p) \ Unfollowed, NEW new, new = (subscribed \ Unfollowed) \ here,
                      NEW todo, todo = (here \ Unfollowed) \cup new \cup (whole \cap subscribed),
                      NEW marked, marked = pending \ Unfollowed,
                      NEW u, u = [at[p] EXCEPT !.pc = "each", !.todo = todo, !.all = todo, !.whole = whole,
                                               !.marked = marked]
               PROVE  HistInv'
    OBVIOUS
  <2>1. /\ at[p].pc = "choose" /\ Work(p, u) /\ Still /\ UNCHANGED <<left, redirect, pending, pullPoint, owed>>
        /\ here \subseteq here'
    BY <1>5 DEF Choose, At, Still, svc, deleteVars, followVars, history, others
  <2>2. /\ u.op = at[p].op /\ u.pc = "each" /\ u.todo = todo /\ u.whole = whole /\ u.marked = marked
        /\ u.start = at[p].start /\ u.from = at[p].from
    BY AtPlace DEF Task
  <2>3. /\ at[p].pc \in Pulling /\ at[p].from = pullPoint /\ pullPoint <= at[p].start
    BY <2>1 DEF HistInv, PullOK, Pulling
  <2>4. p \in Cycling /\ u.op # "visit"
    BY <2>2, <2>3, PullAlone
  <2>5. marked \subseteq whole
    BY DEF Backfills
  <2>6. PullOK(u)
    BY <2>2, <2>3, <2>4, <2>5 DEF PullOK
  <2>7. \A n \in owed : n \in todo
    BY DEF HistInv, Followed
  <2>8. \A n \in owed : \A S : Seen(u, n, S) /\ ~Clearing(u, n)
    BY <2>2, <2>7 DEF Seen, Clearing
  <2> QED BY <2>1, <2>4, <2>6, <2>8, PullStill DEF Cycles
<1>6. ASSUME NEW n \in Name, EachCollection(p, n) PROVE HistInv'
  <2> SUFFICES ASSUME NEW ids \in {MovedOut(p, n), {}}, NEW pc, pc = IF ids = {} THEN "fetch" ELSE "moveDrop",
                      NEW todo, todo = at[p].todo \ {n},
                      NEW u, u = [at[p] EXCEPT !.pc = pc, !.ids = ids, !.name = n, !.todo = todo], Work(p, u)
               PROVE  HistInv'
    BY <1>6 DEF EachCollection
  <2>1. /\ at[p].pc = "each" /\ Still /\ UNCHANGED <<here, left, redirect, pending, pullPoint, owed>>
    BY <1>6 DEF EachCollection, At, Still, svc, storeVars, deleteVars, followVars, history, others
  <2>2. /\ u.op = at[p].op /\ u.pc = pc /\ u.todo = todo /\ u.name = n /\ u.ids = ids /\ u.whole = at[p].whole
        /\ u.marked = at[p].marked /\ u.start = at[p].start /\ u.from = at[p].from
    BY AtPlace DEF Task
  <2>3. /\ at[p].pc \in Pulling \ {"pull"} /\ at[p].pc \in EachOf /\ pc \in {"fetch", "moveDrop"}
    BY <2>1 DEF Pulling, EachOf
  <2>4. p \in Cycling /\ u.op # "visit"
    BY <2>2, <2>3, PullAlone
  <2>5. \A d \in ids : \A t : ~Due(d, n, t)
    BY DEF MovedOut, Due
  <2>6. PullOK(u)
    <3>1. at[p].from = pullPoint /\ pullPoint <= at[p].start /\ at[p].marked \subseteq at[p].whole
      BY <2>3 DEF HistInv, PullOK
    <3> QED BY <2>2, <2>3, <2>4, <2>5, <3>1 DEF PullOK
  <2>7. ASSUME NEW m \in owed, NEW S, Whole(m, S) PROVE Seen(u, m, S)
    <3>1. Seen(at[p], m, S)
      BY <2>7 DEF Whole
    <3>2. m \in at[p].todo \/ Covered(m, at[p].start, S)
      BY <2>1, <2>3, <3>1 DEF Seen
    <3>3. m \in todo \/ m = n \/ Covered(m, u.start, S)
      BY <2>2, <3>2
    <3> QED BY <2>2, <2>3, <3>3 DEF Seen
  <2>8. \A m : ~Clearing(u, m)
    BY <2>2, <2>3 DEF Clearing
  <2> QED BY <2>1, <2>4, <2>6, <2>7, <2>8, PullStill DEF Cycles
<1>7. CASE MoveDrop(p)
  BY <1>7, HistMoveDrop
<1>8. CASE Fetch(p, "fetch", "apply", Own(p))
  BY <1>8, HistFetch
<1>9. CASE Applied(p)
  BY <1>9, HistApplied
<1>10. CASE PullClear(p)
  <2> SUFFICES ASSUME NEW n, n = at[p].name, NEW marked, marked = at[p].marked \ {n},
                      NEW u, u = [at[p] EXCEPT !.pc = "each", !.marked = marked]
               PROVE  HistInv'
    OBVIOUS
  <2>1. at[p].pc = "clear" /\ ClearBackfill(p, "clear", {n}, u)
    BY <1>10 DEF PullClear, ClearBackfill, At
  <2>2. /\ u.op = at[p].op /\ u.pc = "each" /\ u.todo = at[p].todo /\ u.whole = at[p].whole
        /\ u.marked = marked /\ u.start = at[p].start /\ u.from = at[p].from
    BY AtPlace DEF Task
  <2>3. at[p].pc \in Pulling \ {"pull"} /\ at[p].pc \in EachOf
    BY <2>1 DEF Pulling, EachOf
  <2>4. p \in Cycling /\ u.op # "visit"
    BY <2>2, <2>3, PullAlone
  <2>5. /\ at[p].from = pullPoint /\ pullPoint <= at[p].start /\ at[p].marked \subseteq at[p].whole /\ n \in at[p].marked
    BY <2>1, <2>3 DEF HistInv, PullOK
  <2>6. PullOK(u)
    BY <2>2, <2>4, <2>5 DEF PullOK
  <2>7. Clearing(at[p], n) /\ Bringing(at[p]) = {} /\ \A m : ~Clearing(u, m)
    BY <2>1, <2>2, <2>5 DEF Clearing, Bringing
  <2>8. \A m, S : Whole(m, S) => Seen(u, m, S)
    <3> SUFFICES ASSUME NEW m, NEW S, Seen(at[p], m, S) PROVE Seen(u, m, S)
      BY DEF Whole
    <3>1. m \in at[p].todo \/ Covered(m, at[p].start, S)
      BY <2>1, <2>3 DEF Seen
    <3> QED BY <2>2, <3>1 DEF Seen
  <2> QED BY <2>1, <2>4, <2>6, <2>7, <2>8, HistClear DEF Cycles
<1>11. CASE EndPull(p)
  BY <1>11, HistEndPull
<1>12. CASE RecoverFails(p)
  <2> SUFFICES ASSUME NEW u, u = [at[p] EXCEPT !.pc = "choose"] PROVE HistInv'
    OBVIOUS
  <2>1. /\ at[p].pc = "recover" /\ Work(p, u) /\ Still /\ UNCHANGED <<here, left, redirect, pending, pullPoint, owed>>
    BY <1>12 DEF RecoverFails, Then, At, Still, svc, storeVars, deleteVars, followVars
  <2>2. u.op = at[p].op /\ u.pc = "choose" /\ u.start = at[p].start /\ u.from = at[p].from
    BY AtPlace DEF Task
  <2>3. at[p].pc \in Pulling /\ at[p].from = pullPoint /\ pullPoint <= at[p].start
    BY <2>1 DEF HistInv, PullOK, Pulling
  <2> QED BY <2>1, <2>2, <2>3, HistChoosing
<1>13. CASE FetchFails(p)
  BY <1>13, HistFetchFails
<1> QED BY <1>1, <1>2, <1>3, <1>4, <1>5, <1>6, <1>7, <1>8, <1>9, <1>10, <1>11, <1>12, <1>13 DEF Pull

\* A visit's page is applied while a cycle may run.
LEMMA HistVisitApply ==
  ASSUME TypeInv, TypeInv', HistInv, NEW p \in Proc,
         Apply(p, "visitApply", [at[p] EXCEPT !.pc = IF at[p].marked = {} THEN "visitFollow" ELSE "visitDone"])
  PROVE  HistInv'
<1> SUFFICES ASSUME NEW n, n = at[p].name, NEW pc, pc = IF at[p].marked = {} THEN "visitFollow" ELSE "visitDone",
                    NEW F, F = Fetched(at[p]),
                    NEW v, v = [at[p] EXCEPT !.pc = pc], NEW u, u = [v EXCEPT !.sent = NoDocs]
             PROVE  HistInv'
  OBVIOUS
<1>1. at[p].pc = "visitApply" /\ Work(p, u) /\ ApplyPage(p, "visitApply", v)
  BY DEF Apply, ApplyPage, At
<1>2. /\ u.pc = pc /\ u.op = at[p].op /\ u.name = n /\ u.whole = at[p].whole /\ u.marked = at[p].marked
  BY AtPlace DEF Task
<1>3. "visitApply" \notin Nameless /\ pc \in {"visitFollow", "visitDone"}
  BY DEF Nameless
<1>4. /\ DueKept /\ CopyKept /\ Stamped' /\ Followed' /\ UNCHANGED <<pullPoint, pending, owed>>
      /\ \A x \in Nat : \A S : Covered(n, x, S \cup F) => Covered(n, x, S)'
  BY <1>1, <1>3, PageArrives
<1>5. at'[p] = u /\ Alone(p)
  BY <1>1, WorksAlone
<1>6. u.pc \notin Pushing \cup Pulling /\ u.pc \notin EachOf
  BY <1>2, <1>3 DEF Pushing, Pulling, EachOf
<1>7. PullOK(u)'
  <2>1. PullOK(at[p])
    BY DEF HistInv
  <2> QED BY <1>2, <1>3, <1>6, <2>1 DEF PullOK
<1>8. \A m, S : Seen(u, m, S)'
  BY <1>6 DEF Seen
<1>9. ASSUME NEW m \in owed', Clearing(u, m) PROVE Whole(m, Bringing(u))'
  <2>1. m = n /\ Clearing(at[p], m) /\ Bringing(u) = {} /\ Bringing(at[p]) = F
    BY <1>1, <1>2, <1>3, <1>9 DEF Clearing, Bringing
  <2>2. Whole(m, F)
    BY <1>4, <2>1 DEF HistInv, Marked
  <2>3. Covered(m, pullPoint, {})'
    <3> SUFFICES ASSUME NEW x, x = pullPoint PROVE Covered(m, x, {})'
      BY <1>4 DEF Covered, Due
    <3>1. Covered(m, x, {} \cup F) /\ x \in Nat
      BY <2>2, Moments DEF Whole
    <3> QED BY <1>4, <2>1, <3>1
  <2>4. ASSUME NEW q \in Proc PROVE Seen(at[q], m, {})'
    <3> SUFFICES ASSUME NEW k, k = at[q], NEW l, l = at'[q] PROVE Seen(l, m, {})'
      BY DEF Seen, Covered, Due
    <3>1. CASE q = p
      <4>1. l.pc \notin EachOf
        BY <1>5, <1>6, <3>1
      <4> QED BY <4>1 DEF Seen
    <3>2. CASE q # p
      <4> SUFFICES ASSUME NEW G, G = IF k.name = m /\ k.pc = "apply" THEN Fetched(k) ELSE {},
                          NEW t, t = k.start, k.pc \in EachOf
                   PROVE  Seen(l, m, {})'
        BY <1>5, <3>2 DEF Seen, Alone, SamePull, SameWork
      <4>1. SamePull(k, l) /\ t \in Nat
        BY <1>5, <3>2, Moments DEF Alone
      <4>2. Seen(k, m, F)
        BY <2>2 DEF Whole
      <4>3. m \in k.todo \/ (k.name = m /\ k.pc \in {"moveDrop", "fetch"}) \/ Covered(m, t, G \cup F)
        BY <4>2 DEF Seen, Covered
      <4>4. Covered(m, t, G \cup F) => Covered(m, t, G)'
        BY <1>4, <2>1, <4>1
      <4>5. G = IF l.name = m /\ l.pc = "apply" THEN {} \cup Fetched(l) ELSE {}
        BY <4>1 DEF SamePull, SameWork, Fetched
      <4> QED BY <4>1, <4>3, <4>4, <4>5 DEF Seen, SamePull, SameWork
    <3> QED BY <3>1, <3>2
  <2>5. Whole(m, {})'
    BY <2>3, <2>4 DEF Whole
  <2> QED BY <2>1, <2>5
<1>10. \A m \in owed' : /\ m \notin pending' => m \in owed /\ Whole(m, {})
                        /\ m \in owed \/ \A q \in Proc : ~Clearing(at[q], m)
                        /\ \A S \in SUBSET Doc : Whole(m, S) => Seen(u, m, S)'
                        /\ Clearing(u, m) => Whole(m, Bringing(u)) \/ Whole(m, Bringing(u))'
  BY <1>4, <1>8, <1>9 DEF HistInv, Marked
<1> QED BY <1>4, <1>5, <1>6, <1>7, <1>10, HistStep

LEMMA VisitTask ==
  ASSUME NEW n \in Name, NEW f \in Nat, NEW whole \in SUBSET Name, NEW marked \in SUBSET Name
  PROVE  [Idle EXCEPT !.pc = "visitFetch", !.op = "visit", !.name = n, !.from = f, !.whole = whole,
                      !.marked = marked] \in Task
<1>1. "visitFetch" \in PC /\ "visit" \in Op
  BY DEF PC, Op
<1> QED BY <1>1, Revisions DEF Task

LEMMA HistVisiting ==
  ASSUME TypeInv, TypeInv', HistInv, NEW p \in Proc, Visiting(p)
  PROVE  HistInv'
<1>1. ASSUME NEW n \in Name, Visit(p, n) PROVE HistInv'
  <2> SUFFICES ASSUME NEW whole, whole = IF n \in subscribed /\ n \notin pending THEN {} ELSE {n},
                      NEW marked, marked = pending \cap {n}, NEW f, f = pullPoint,
                      NEW r, r = [Idle EXCEPT !.pc = "visitFetch", !.op = "visit", !.name = n, !.from = f,
                                              !.whole = whole, !.marked = marked]
               PROVE  HistInv'
    OBVIOUS
  <2>1. f \in Nat /\ whole \subseteq Name /\ marked \subseteq whole \cap {n}
    BY Moments
  <2>2. /\ r \in Task /\ r.pc = "visitFetch" /\ r.name = n /\ r.whole = whole /\ r.marked = marked
    <3>2. r.pc = "visitFetch" /\ r.name = n /\ r.whole = whole /\ r.marked = marked
      BY Revisions DEF Task
    <3>3. r \in Task
      BY <2>1, VisitTask
    <3> QED BY <3>2, <3>3
  <2>3. Apart(r) /\ r.pc \notin Pushing \cup Pulling
    BY <2>1, <2>2 DEF Apart, Pushing, Pulling
  <2>4. Begin(p, r, {}) /\ UNCHANGED <<rows, copy, tombs, pullPoint, left, redirect, pending, here>>
    BY <1>1 DEF Visit, svc, storeVars, deleteVars, followVars
  <2> QED BY <2>2, <2>3, <2>4, HistBegin
<1>2. CASE Fetch(p, "visitFetch", "visitApply", FALSE)
  <2> SUFFICES ASSUME NEW n, n = at[p].name, NEW s, s = Feed(n, Since(p), FALSE),
                      NEW u, u = [at[p] EXCEPT !.pc = "visitApply", !.sent = s]
               PROVE  HistInv'
    OBVIOUS
  <2>1. /\ at[p].pc = "visitFetch" /\ Work(p, u) /\ Still /\ UNCHANGED <<pullPoint, pending, owed, here, left, redirect>>
    BY <1>2 DEF Fetch, At, Still, svc, storeVars, deleteVars, followVars, history, others
  <2>2. /\ u.pc = "visitApply" /\ u.op = at[p].op /\ u.name = n /\ u.sent = s
        /\ u.whole = at[p].whole /\ u.marked = at[p].marked
    BY AtPlace DEF Task
  <2>3. at[p].op = "visit"
    BY <2>1, AtPlace DEF TaskOK, OnItsWay, Task, Op, Pushing, Pulling
  <2>4. at[p].marked \subseteq at[p].whole \cap {n}
    BY <2>3 DEF HistInv, PullOK
  <2>5. PullOK(u) /\ Cycles(p, u) /\ \A m, S : Seen(u, m, S)
    BY <2>2, <2>4 DEF PullOK, Cycles, Seen, Pushing, Pulling, EachOf
  <2>6. ASSUME NEW m \in owed, Clearing(u, m) PROVE Whole(m, Bringing(u))
    <3>1. m = n /\ m \in at[p].whole
      BY <2>2, <2>4, <2>6 DEF Clearing
    <3>2. u.sent = Feed(m, 0, FALSE)
      BY <2>2, <3>1 DEF Since
    <3>3. Whole(m, Fetched(u))
      BY <3>2, WholeFeed
    <3> QED BY <2>2, <3>3 DEF Bringing
  <2> QED BY <2>1, <2>5, <2>6, PullStill
<1>3. CASE Apply(p, "visitApply", [at[p] EXCEPT !.pc = IF at[p].marked = {} THEN "visitFollow" ELSE "visitDone"])
  BY <1>3, HistVisitApply
<1>4. CASE VisitTimesOut(p)
  <2>1. CASE Fails(p, {"visitFetch", "visitApply"}, Idle)
    BY <2>1, IdleApart, HistFails
  <2>2. CASE ApplyPage(p, "visitApply", Idle)
    <3> SUFFICES ASSUME NEW u, u = [Idle EXCEPT !.sent = NoDocs] PROVE HistInv'
      OBVIOUS
    <3>1. Work(p, u) /\ "visitApply" \notin Nameless
      BY <2>2 DEF ApplyPage, Nameless
    <3>2. u.pc = "idle" /\ u.op = "none"
      BY DEF Idle
    <3>3. Apart(u) /\ Cycles(p, u)
      BY <3>2 DEF Apart, Cycles, Pushing, Pulling
    <3> QED BY <2>2, <3>1, <3>3, HistPage
  <2> QED BY <1>4, <2>1, <2>2 DEF VisitTimesOut
<1>5. CASE ClearBackfill(p, "visitDone", at[p].marked, [at[p] EXCEPT !.pc = "visitFollow", !.marked = {}])
  <2> SUFFICES ASSUME NEW ns, ns = at[p].marked, NEW u, u = [at[p] EXCEPT !.pc = "visitFollow", !.marked = {}]
               PROVE  HistInv'
    OBVIOUS
  <2>1. at[p].pc = "visitDone" /\ ClearBackfill(p, "visitDone", ns, u)
    BY <1>5 DEF ClearBackfill, At
  <2>2. u.pc = "visitFollow" /\ u.marked = {}
    BY AtPlace DEF Task
  <2>3. at[p].op = "visit"
    BY <2>1, AtPlace DEF TaskOK, OnItsWay, Task, Op, Pushing, Pulling
  <2>4. ns \subseteq {at[p].name}
    BY <2>3 DEF HistInv, PullOK
  <2>5. \A n \in ns : Clearing(at[p], n) /\ Bringing(at[p]) = {}
    BY <2>1, <2>4 DEF Clearing, Bringing
  <2>6. PullOK(u) /\ Cycles(p, u) /\ \A m, S : Seen(u, m, S) /\ ~Clearing(u, m)
    BY <2>2 DEF PullOK, Cycles, Seen, Clearing, Pushing, Pulling, EachOf
  <2> QED BY <2>1, <2>5, <2>6, HistClear
<1>6. CASE Subscribes(p, "visitFollow", at[p].whole, Idle)
  <2>1. Work(p, Idle) /\ Still /\ UNCHANGED <<here, left, redirect, pending, pullPoint, owed>>
    BY <1>6 DEF Subscribes, Still, svc, storeVars, deleteVars, history, others
  <2> QED BY <2>1, IdleApart, HistQuiet
<1> QED BY <1>1, <1>2, <1>3, <1>4, <1>5, <1>6 DEF Visiting

LEMMA HistInit == Init => HistInv
<1> SUFFICES ASSUME Init PROVE HistInv
  OBVIOUS
<1>1. \A p \in Proc : at[p] = Idle
  BY DEF Init
<1>2. OneCycle /\ \A p \in Proc : PullOK(at[p])
  BY <1>1 DEF OneCycle, Cycling, PullOK, Idle, Pushing, Pulling, EachOf
<1>3. Followed /\ Marked
  BY DEF Init, Followed, Marked
<1>4. ASSUME NEW d \in Doc, rows[d] # NoRow PROVE rows[d].at > 0 /\ rows[d].rev > 0
  <2>1. rows[d] = [in |-> Home[d], rev |-> 1, at |-> 1, echo |-> d \in Mine]
    BY <1>4 DEF Init
  <2> QED BY <2>1
<1> QED BY <1>2, <1>3, <1>4 DEF HistInv, Stamped

LEMMA HistNext == TypeInv /\ HistInv /\ [Next]_vars => HistInv'
<1> SUFFICES ASSUME TypeInv, HistInv, [Next]_vars PROVE HistInv'
  OBVIOUS
<1>0. TypeInv'
  BY TypeStep
<1>1. ASSUME NEW p \in Session, Creating(p) \/ Subscribing(p) \/ Removing(p) \/ Merging(p) \/ Writing(p)
      PROVE  HistInv'
  <2>1. p \in Proc
    BY DEF Proc
  <2> QED BY <1>0, <1>1, <2>1, HistCreating, HistSubscribing, HistRemoving, HistMerging, HistWriting
<1>2. ASSUME NEW p \in Cycle, StartCycle(p) PROVE HistInv'
  BY <1>0, <1>2, HistCycle DEF Proc
<1>3. ASSUME NEW p \in Cycle \cup Session, Push(p) \/ Pull(p) PROVE HistInv'
  BY <1>0, <1>3, HistPush, HistPull DEF Proc
<1>4. ASSUME NEW p \in Hook, Visiting(p) PROVE HistInv'
  BY <1>0, <1>4, HistVisiting DEF Proc
<1>5. ASSUME NEW p \in Proc, Crash(p) PROVE HistInv'
  BY <1>0, <1>5, HistCycle
<1>6. ASSUME NEW n \in Name, NEW d \in Doc, Edit(n, d) \/ TeammateStores(d, n) PROVE HistInv'
  BY <1>0, <1>6, HistEdit, HistTeammate
<1>7. CASE UNCHANGED vars
  <2>1. Still /\ UNCHANGED <<at, pending, pullPoint, owed, here, left, redirect>>
    BY <1>7 DEF vars, Still, storeVars, followVars, deleteVars, history, others
  <2> QED BY <1>0, <2>1, StillKeeps, FollowedKept, SameUnfollowed, HistOutside
<1> QED BY <1>1, <1>2, <1>3, <1>4, <1>5, <1>6, <1>7 DEF Next

\* What is owed and no longer marked is whole.
LEMMA HistWhole == TypeInv /\ HistInv => RejoinedHasHistory
<1> SUFFICES ASSUME TypeInv, HistInv, NEW n \in owed \ pending, NEW d \in Doc \ (tombs \cup astray),
                    rows[d] # NoRow, rows[d].in = n, ~rows[d].echo, rows[d].at <= pullPoint
             PROVE  copy[n][d] > 0
  BY DEF RejoinedHasHistory
<1>1. Covered(n, pullPoint, {})
  BY DEF HistInv, Marked, Whole
<1> QED BY <1>1 DEF Covered, Due

-----------------------------------------------------------------------------
(* History that was wiped comes back.                                      *)

LEMMA CopiesKeep ==
  ASSUME CopiesStay, NEW k, TaskOK(k)
  PROVE  HeldKept /\ IntoKept(k)
<1>1. HeldKept
  BY DEF CopiesStay, HeldKept, Held
<1>2. k.pc \in {"mergeVerify", "mergeMove"} => k.into \in Name
  BY Merges
<1> QED BY <1>1, <1>2 DEF CopiesStay, IntoKept, Moving

\* Work that is at home stays so.
LEMMA HomeKept ==
  ASSUME OldKept, HeldKept, FollowKept, NEW k, NEW m, SamePull(k, m), IntoKept(k), k.ids \subseteq Doc, HomeOK(k)
  PROVE  HomeOK(m)'
<1>1. SentHome(m)'
  BY DEF HomeOK, SentHome, OldKept, SamePull, SameWork
<1>2. RemoveHome(m)'
  BY DEF HomeOK, RemoveHome, OldKept, SamePull, SameWork
<1>3. Dropping(m)'
  BY DEF HomeOK, Dropping, FollowKept, SamePull, SameWork
<1>4. MergeHome(m)'
  BY DEF HomeOK, MergeHome, OldKept, IntoKept, Moving, SamePull, SameWork
<1>5. MoveHome(m)'
  BY DEF HomeOK, MoveHome, OldKept, SamePull, SameWork
<1>6. Restores(m)'
  <2>1. m.pc \in Pulling \ {"pull"} => m.start > 0
    BY DEF HomeOK, Restores, SamePull, SameWork
  <2>2. ASSUME NEW d \in Doc, Old(d)', m.from = 0 PROVE Coming(m, d)'
    <3>1. Coming(k, d) /\ rows'[d] = rows[d]
      BY <2>2 DEF HomeOK, Restores, OldKept, SamePull
    <3>2. Held(d) => Held(d)'
      BY <2>2 DEF HeldKept
    <3>3. rows[d].in \in subscribed => rows[d].in \in subscribed'
      BY <2>2 DEF FollowKept
    <3> QED BY <3>1, <3>2, <3>3 DEF Coming, SamePull, SameWork
  <2> QED BY <2>1, <2>2 DEF Restores
<1> QED BY <1>1, <1>2, <1>3, <1>4, <1>5, <1>6 DEF HomeOK

LEMMA WipeStep ==
  ASSUME TypeInv, TypeInv', WipeInv, NEW p \in Proc, OldKept, CleanKept, HeldKept, FollowKept,
         \A q \in Proc : q # p => IntoKept(at[q]),
         UNCHANGED pullPoint, clock' >= clock, Alone(p), NEW u, u = at'[p], HomeOK(u)'
  PROVE  WipeInv'
<1>1. clock' > 0
  BY Clocked DEF WipeInv, TypeInv, StoreOK
<1>2. CleanHome'
  BY DEF WipeInv, CleanHome, CleanKept, OldKept
<1>3. (pullPoint > 0 => \A d \in Doc : Old(d) => Held(d))'
  BY DEF WipeInv, OldKept, HeldKept
<1>4. ASSUME NEW q \in Proc PROVE HomeOK(at[q])'
  <2> SUFFICES ASSUME NEW k, k = at[q], NEW m, m = at'[q] PROVE HomeOK(m)'
    BY DEF HomeOK, SentHome, RemoveHome, Dropping, MergeHome, MoveHome, Restores, Coming, Moving
  <2>1. CASE q = p
    <3>1. m = u
      BY <2>1
    <3> QED BY <3>1 DEF HomeOK, SentHome, RemoveHome, Dropping, MergeHome, MoveHome, Restores, Coming, Moving
  <2>2. CASE q # p
    <3>1. SamePull(k, m) /\ HomeOK(k) /\ IntoKept(k) /\ k.ids \subseteq Doc
      BY <2>2, AtPlace DEF Alone, WipeInv
    <3> QED BY <3>1, HomeKept
  <2> QED BY <2>1, <2>2
<1> QED BY <1>1, <1>2, <1>3, <1>4 DEF WipeInv, FollowKept

\* Work that holds nothing: no copies on their way, no pull.
Holding == Answered \cup (Pulling \ {"pull"}) \cup {"leave", "drop", "redirect", "mergeVerify", "mergeMove"}
Free(u) == u.op # "remove" /\ u.pc \notin Holding

LEMMA FreeHome ==
  ASSUME NEW u, Free(u)
  PROVE  HomeOK(u) /\ HomeOK(u)'
<1>1. /\ u.pc \notin Answered /\ u.op # "remove" /\ u.pc \notin Pulling \ {"pull"} /\ u.pc \notin EachOf
      /\ u.pc \notin {"leave", "drop", "redirect", "mergeVerify", "mergeMove", "moveDrop", "recoverAdd", "choose"}
  BY DEF Free, Holding, EachOf, Pulling
<1>2. SentHome(u) /\ RemoveHome(u) /\ Dropping(u) /\ MergeHome(u) /\ MoveHome(u) /\ Restores(u)
  BY <1>1 DEF SentHome, RemoveHome, Dropping, MergeHome, MoveHome, Restores, Coming, Moving
<1>3. SentHome(u)' /\ RemoveHome(u)' /\ Dropping(u)' /\ MergeHome(u)' /\ MoveHome(u)' /\ Restores(u)'
  BY <1>1 DEF SentHome, RemoveHome, Dropping, MergeHome, MoveHome, Restores, Coming, Moving
<1> QED BY <1>2, <1>3 DEF HomeOK

\* Only a removal is on a removal's way.
LEMMA FreeOn ==
  ASSUME TypeInv, NEW p \in Proc, at[p].pc \notin {"removePush", "removeSettle", "unfollow", "leave", "drop"},
         NEW u, u.op = at[p].op, u.pc \notin Holding
  PROVE  Free(u)
<1>1. at[p].op # "remove"
  BY AtPlace DEF TaskOK, OnItsWay
<1> QED BY <1>1 DEF Free

LEMMA FreePlaces ==
  {"uncreate", "rejoin", "resubscribe", "backfill", "unredirect", "unleave", "make", "subFetch", "subCycle",
   "queueAll", "removePush", "unfollow", "mergeCopy", "mergeCheck", "mergeRemove", "add", "visitFetch",
   "visitFollow", "visitDone", "idle", "deletes", "list", "send", "autoRead", "autoAdd", "pull"}
    \subseteq PC \ Holding
BY DEF Holding, Answered, Settling, Pulling, PC

LEMMA FreeIdle == Free(Idle)
BY FreePlaces DEF Free, Idle

LEMMA FreeThen ==
  ASSUME TypeInv, NEW p \in Proc, at[p].pc \notin {"removePush", "removeSettle", "unfollow", "leave", "drop"},
         NEW pc \in PC \ Holding, NEW u, u = [at[p] EXCEPT !.pc = pc]
  PROVE  Free(u) /\ u \in Task
<1>1. u \in Task /\ u.pc = pc /\ u.op = at[p].op
  BY AtPlace DEF Task
<1> QED BY <1>1, FreeOn

\* Nothing that is old moves.
AtHome ==
  /\ UNCHANGED <<rows, clock, copy, dirty, excused, dropped, wiped, pullPoint>>
  /\ subscribed \subseteq subscribed' /\ Unfollowed' \subseteq Unfollowed

LEMMA OldStays ==
  ASSUME UNCHANGED <<rows, wiped>>, excused \subseteq excused', dropped \subseteq dropped'
  PROVE  OldKept
BY DEF OldKept, Old

LEMMA AtHomeKeeps ==
  ASSUME TypeInv, WipeInv, AtHome
  PROVE  /\ OldKept /\ CleanKept /\ CopiesStay /\ FollowKept
         /\ UNCHANGED pullPoint /\ clock' >= clock
<1>1. OldKept
  BY OldStays DEF AtHome
<1>2. CleanKept /\ CopiesStay
  BY DEF AtHome, CleanKept, CopiesStay
<1>3. FollowKept
  BY DEF AtHome, FollowKept, WipeInv
<1>4. clock' >= clock
  BY Clocked DEF AtHome
<1> QED BY <1>1, <1>2, <1>3, <1>4 DEF AtHome

\* A step that drops no old copy.
LEMMA WipeMoves ==
  ASSUME TypeInv, TypeInv', WipeInv, NEW p \in Proc, OldKept, CleanKept, CopiesStay, FollowKept,
         UNCHANGED pullPoint, clock' >= clock, NEW u, Work(p, u), HomeOK(u) \/ HomeOK(u)'
  PROVE  WipeInv'
<1>1. at'[p] = u /\ Alone(p)
  BY WorksAlone
<1>2. HeldKept /\ \A q \in Proc : IntoKept(at[q])
  BY AtPlace, CopiesKeep
<1>3. HomeOK(u)'
  <2>1. CASE HomeOK(u)
    <3>1. TaskOK(u) /\ u.ids \subseteq Doc
      BY <1>1 DEF TypeInv, TasksOK, TaskOK, Task
    <3>2. IntoKept(u)
      BY <3>1, CopiesKeep
    <3>3. SamePull(u, u)
      BY DEF SamePull, SameWork
    <3> QED BY <1>2, <2>1, <3>1, <3>2, <3>3, HomeKept
  <2> QED BY <2>1
<1> QED BY <1>1, <1>2, <1>3, WipeStep

LEMMA WipeQuiet ==
  ASSUME TypeInv, TypeInv', WipeInv, NEW p \in Proc, NEW u, Work(p, u), AtHome, HomeOK(u)
  PROVE  WipeInv'
BY AtHomeKeeps, WipeMoves

LEMMA WipeWanted ==
  ASSUME TypeInv, TypeInv', WipeInv, NEW p \in Proc, NEW r \in Task, NEW n, Wanted(p, n, r), Free(r), OldKept,
         CleanKept, CopiesStay, FollowKept, UNCHANGED pullPoint, clock' >= clock
  PROVE  WipeInv'
<1> SUFFICES ASSUME NEW u, u = at'[p] PROVE WipeInv'
  OBVIOUS
<1>1. SamePull(r, u) /\ Alone(p)
  BY WantsAlone
<1>2. Free(u)
  BY <1>1 DEF Free, SamePull, SameWork
<1>3. HeldKept /\ \A q \in Proc : IntoKept(at[q])
  BY AtPlace, CopiesKeep
<1>4. HomeOK(u)'
  BY <1>2, FreeHome
<1> QED BY <1>1, <1>3, <1>4, WipeStep

\* A process begins.
LEMMA WipeBegin ==
  ASSUME TypeInv, TypeInv', WipeInv, NEW p \in Proc, NEW r \in Task, NEW ns, Begin(p, r, ns), HomeOK(r),
         UNCHANGED <<rows, clock, copy, dirty, pullPoint, left, redirect>>, subscribed \subseteq subscribed'
  PROVE  WipeInv'
<1> SUFFICES ASSUME NEW u, u = [r EXCEPT !.away = Unfollowed \ ns] PROVE WipeInv'
  OBVIOUS
<1>1. Work(p, u) /\ AtHome
  BY SameUnfollowed DEF Begin, AtHome, history, others
<1>2. SamePull(r, u)
  BY DEF SamePull, SameWork, Task
<1>3. HomeOK(u)
  BY <1>2 DEF HomeOK, SentHome, RemoveHome, Dropping, MergeHome, MoveHome, Restores, Coming, Moving, SamePull, SameWork
<1> QED BY <1>1, <1>3, WipeQuiet

\* A step with no process.
LEMMA WipeOutside ==
  ASSUME TypeInv, TypeInv', WipeInv, OldKept, CleanKept, CopiesStay, FollowKept, UNCHANGED <<at, pullPoint>>,
         clock' >= clock
  PROVE  WipeInv'
<1>1. clock' > 0
  BY Clocked DEF WipeInv, TypeInv, StoreOK
<1>2. CleanHome'
  BY DEF WipeInv, CleanHome, CleanKept, OldKept
<1>3. HeldKept /\ \A q \in Proc : IntoKept(at[q])
  BY AtPlace, IdleOK, CopiesKeep
<1>4. (pullPoint > 0 => \A d \in Doc : Old(d) => Held(d))'
  BY <1>3 DEF WipeInv, OldKept, HeldKept
<1>5. ASSUME NEW q \in Proc PROVE HomeOK(at[q])'
  <2> SUFFICES ASSUME NEW k, k = at[q] PROVE HomeOK(k)'
    BY DEF HomeOK, SentHome, RemoveHome, Dropping, MergeHome, MoveHome, Restores, Coming, Moving
  <2>1. SamePull(k, k) /\ HomeOK(k) /\ IntoKept(k) /\ k.ids \subseteq Doc
    BY <1>3, AtPlace DEF SamePull, SameWork, WipeInv
  <2> QED BY <2>1, <1>3, HomeKept
<1> QED BY <1>1, <1>2, <1>4, <1>5 DEF WipeInv, FollowKept

\* What the service stores for this user is no longer old, unless it was there.
LEMMA UpsertHome ==
  ASSUME TypeInv, WipeInv, NEW n \in Name, NEW revs \in Revs, Upsert(n, revs), UNCHANGED <<wiped, dropped>>
  PROVE  /\ OldKept /\ clock' >= clock
         /\ \A d \in Doc : Old(d)' /\ revs[d] > 0 /\ d \notin Refused => rows[d].in = n
<1> DEFINE new(d) == [in |-> n, rev |-> revs[d], at |-> clock + 1, echo |-> TRUE]
<1>1. \A d \in Doc : revs[d] \in Nat /\ new(d).at # 1 /\ clock + 1 >= clock
  BY Clocked DEF Revs, WipeInv
<1>2. \A d \in Doc : \/ rows'[d] = new(d)
                     \/ rows'[d] = rows[d] /\ (revs[d] = 0 \/ d \in Refused \/ rows[d].in = n)
  <2>1. rows' = Upserted(n, revs)
    BY DEF Upsert
  <2> QED BY <2>1 DEF Upserted
<1> HIDE DEF new
<1>3. clock' >= clock /\ excused \subseteq excused'
  BY Clocked DEF Upsert
<1>4. OldKept
  BY <1>1, <1>2, <1>3 DEF OldKept, Old
<1>5. \A d \in Doc : Old(d)' /\ revs[d] > 0 /\ d \notin Refused => rows[d].in = n
  BY <1>1, <1>2 DEF Old
<1> QED BY <1>3, <1>4, <1>5

LEMMA WipeService ==
  ASSUME TypeInv, TypeInv', WipeInv, NEW p \in Proc, NEW u, Work(p, u),
         NEW n \in Name, NEW ids, Upsert(n, Unsent(n, ids)) \/ UNCHANGED <<rows, clock, excused>>,
         HomeOK(u) \/ (u.pc \in Settling /\ u.name = n /\ u.sent = Unsent(n, ids)
                        /\ Upsert(n, Unsent(n, ids)) /\ RemoveHome(u)),
         UNCHANGED <<copy, dirty, subscribed, left, redirect, pullPoint, dropped, wiped>>
  PROVE  WipeInv'
<1> SUFFICES ASSUME NEW s, s = Unsent(n, ids) PROVE WipeInv'
  OBVIOUS
<1>1. OldKept /\ clock' >= clock
  <2>1. CASE Upsert(n, Unsent(n, ids))
    BY <2>1, UnsentTyped, UpsertHome
  <2>2. CASE UNCHANGED <<rows, clock, excused>>
    BY <2>2, OldStays, Clocked
  <2> QED BY <2>1, <2>2
<1>2. CleanKept /\ CopiesStay /\ FollowKept
  BY SameUnfollowed DEF CleanKept, CopiesStay, FollowKept, WipeInv
<1>3. CASE HomeOK(u)
  BY <1>1, <1>2, <1>3, WipeMoves
<1>4. CASE u.pc \in Settling /\ u.name = n /\ u.sent = s /\ Upsert(n, s) /\ RemoveHome(u)
  <2>1. s \in Revs
    BY UnsentTyped
  <2>2. \A d \in Doc : Old(d)' => Old(d) /\ rows'[d] = rows[d]
    BY <1>1 DEF OldKept
  <2>3. SentHome(u)'
    <3>1. \A d \in Doc : Old(d)' /\ s[d] > 0 /\ d \notin Refused => rows[d].in = n
      BY <1>4, <2>1, UpsertHome
    <3> QED BY <1>4, <2>2, <3>1 DEF SentHome
  <2>4. RemoveHome(u)'
    BY <1>4, <2>2 DEF RemoveHome
  <2>5. u.pc \notin {"leave", "drop", "redirect", "moveDrop", "mergeVerify", "mergeMove"} /\ u.pc \notin Pulling /\ u.pc \notin EachOf
    BY <1>4 DEF Settling, Pulling, EachOf
  <2>6. Dropping(u)' /\ MergeHome(u)' /\ MoveHome(u)' /\ Restores(u)'
    BY <2>5 DEF Dropping, MergeHome, MoveHome, Restores, Coming, Moving, Pulling
  <2>7. HomeOK(u)'
    BY <2>3, <2>4, <2>6 DEF HomeOK
  <2> QED BY <1>1, <1>2, <2>7, WipeMoves
<1> QED BY <1>3, <1>4

\* A page brings what is at home here, and drops no old copy.
LEMMA PageHome ==
  ASSUME TypeInv, WipeInv, NEW p \in Proc, NEW pc, pc \in Answered \ Settling, NEW next, ApplyPage(p, pc, next)
  PROVE  /\ OldKept /\ CleanKept /\ CopiesStay /\ FollowKept /\ UNCHANGED pullPoint /\ clock' >= clock
         /\ \A d \in Doc : Old(d) /\ at[p].sent[d] > 0 => Held(d)'
<1> SUFFICES ASSUME NEW n, n = at[p].name, NEW sent, sent = at[p].sent, NEW T, T = Taken(n, sent)
             PROVE  /\ OldKept /\ CleanKept /\ CopiesStay /\ FollowKept /\ UNCHANGED pullPoint /\ clock' >= clock
                    /\ \A d \in Doc : Old(d) /\ sent[d] > 0 => Held(d)'
  OBVIOUS
<1>1. /\ at[p].pc = pc
      /\ UNCHANGED <<rows, clock, dirty, subscribed, left, redirect, pullPoint, excused, dropped, wiped>>
      /\ copy' = [m \in Name |-> [d \in Doc |->
                    IF d \notin T THEN copy[m][d]
                    ELSE IF m = n THEN sent[d]
                    ELSE IF copy[n][d] = 0 THEN 0 ELSE copy[m][d]]]
  BY DEF ApplyPage, At, svc, deleteVars, followVars
<1>2. n \in Name /\ (\A d \in Doc : sent[d] \in Nat) /\ \A m \in Name, d \in Doc : copy[m][d] \in Nat
  <2>1. pc \notin Nameless
    BY DEF Answered, Settling, Nameless
  <2> QED BY <1>1, <2>1, AtPlace, Numbers DEF Revs
<1>3. \A d \in Doc : Old(d) /\ sent[d] > 0 => rows[d].in = n
  BY <1>1 DEF WipeInv, HomeOK, SentHome
<1>4. \A d \in T : sent[d] > 0 /\ d \in Doc
  BY DEF Taken
<1>5. OldKept
  BY <1>1, OldStays
<1>6. FollowKept /\ clock' >= clock
  BY <1>1, SameUnfollowed, Clocked DEF FollowKept, WipeInv
<1>7. CleanKept
  <2> SUFFICES ASSUME NEW m \in Name, NEW d \in Doc, Old(d)', copy'[m][d] > 0, <<m, d>> \notin dirty,
                      ~(copy[m][d] > 0)
               PROVE  rows[d].in = m
    BY <1>1 DEF CleanKept
  <2>1. m = n /\ d \in T
    BY <1>1, <1>2
  <2> QED BY <1>3, <1>4, <1>5, <2>1 DEF OldKept
<1>8. CopiesStay
  <2> SUFFICES ASSUME NEW m \in Name, NEW d \in Doc, Old(d)', copy[m][d] > 0, ~(copy'[m][d] > 0) PROVE FALSE
    BY DEF CopiesStay
  <2>1. d \in T /\ m # n /\ copy[n][d] = 0
    BY <1>1, <1>2, <1>4
  <2>2. Old(d) /\ <<m, d>> \notin dirty
    BY <1>2, <1>5, <2>1 DEF Taken, OldKept
  <2>3. rows[d].in = m
    BY <2>2 DEF WipeInv, CleanHome
  <2> QED BY <1>3, <1>4, <2>1, <2>2, <2>3
<1>9. ASSUME NEW d \in Doc, Old(d), sent[d] > 0 PROVE Held(d)'
  <2>1. d \notin tombs
    BY <1>9 DEF Old, TypeInv, FollowOK
  <2>2. CASE d \in T
    BY <1>1, <1>2, <1>4, <2>2 DEF Held
  <2>3. CASE d \notin T
    <3>1. copy' [n][d] = copy[n][d] /\ \A m \in Name : copy'[m][d] = copy[m][d]
      BY <1>1, <1>2, <2>3
    <3>2. CASE copy[n][d] > 0
      BY <1>2, <3>1, <3>2 DEF Held
    <3>3. CASE ~(copy[n][d] > 0)
      <4>1. PICK m \in Name : <<m, d>> \in dirty
        BY <1>9, <2>1, <2>3, <3>3 DEF Taken
      <4>2. copy[m][d] > 0
        BY <4>1, StoreFacts
      <4> QED BY <3>1, <4>2 DEF Held
    <3> QED BY <3>2, <3>3
  <2> QED BY <2>2, <2>3
<1> QED BY <1>1, <1>5, <1>6, <1>7, <1>8, <1>9

LEMMA WipePage ==
  ASSUME TypeInv, TypeInv', WipeInv, NEW p \in Proc, NEW pc \in Answered \ Settling, NEW next, ApplyPage(p, pc, next),
         NEW u, Work(p, u), HomeOK(u) \/ HomeOK(u)'
  PROVE  WipeInv'
BY PageHome, WipeMoves

LEMMA WipeFails ==
  ASSUME TypeInv, TypeInv', WipeInv, NEW p \in Proc, NEW pcs, NEW u, Fails(p, pcs, u), HomeOK(u)
  PROVE  WipeInv'
<1>1. Work(p, u) /\ AtHome
  BY SameUnfollowed DEF Fails, AtHome, svc, storeVars, followVars, history, others
<1> QED BY <1>1, WipeQuiet

LEMMA WipeRedirect ==
  ASSUME TypeInv, TypeInv', WipeInv, NEW p \in Proc, NEW pc, at[p].pc \notin {"removePush", "removeSettle", "unfollow", "leave", "drop"},
         NEW next \in PC \ Holding, ClearRedirect(p, pc, next)
  PROVE  WipeInv'
<1> SUFFICES ASSUME NEW u, u = [at[p] EXCEPT !.pc = next] PROVE WipeInv'
  OBVIOUS
<1>1. /\ Wanted(p, at[p].name, u)
      /\ UNCHANGED <<rows, clock, copy, dirty, excused, dropped, wiped, pullPoint, subscribed, left>>
      /\ redirect' = [redirect EXCEPT ![at[p].name] = Nowhere]
  BY DEF ClearRedirect, svc, storeVars, history, others
<1>2. AtHome
  <2>1. redirect \in [Name -> Name \cup {Nowhere}]
    BY DEF TypeInv, FollowOK
  <2>2. Unfollowed' \subseteq Unfollowed
    BY <1>1, <2>1 DEF Unfollowed
  <2> QED BY <1>1, <2>2 DEF AtHome
<1>3. u \in Task /\ Free(u)
  BY FreeThen
<1> QED BY <1>1, <1>2, <1>3, AtHomeKeeps, WipeWanted

LEMMA WipeSubscribes ==
  ASSUME TypeInv, TypeInv', WipeInv, NEW p \in Proc, NEW pc, NEW ns, NEW u, Subscribes(p, pc, ns, u), HomeOK(u)
  PROVE  WipeInv'
<1>1. Work(p, u) /\ AtHome
  BY SameUnfollowed DEF Subscribes, AtHome, svc, storeVars, history, others
<1> QED BY <1>1, WipeQuiet

LEMMA WipeCreating ==
  ASSUME TypeInv, TypeInv', WipeInv, NEW p \in Proc, Creating(p)
  PROVE  WipeInv'
<1>1. ASSUME NEW n \in Name, Create(p, n) PROVE WipeInv'
  <2> DEFINE r == [Idle EXCEPT !.pc = "uncreate", !.op = "create", !.name = n]
  <2>1. r \in Task /\ r.pc = "uncreate" /\ r.op = "create"
    BY Revisions DEF Task, Idle, PC, Op
  <2> HIDE DEF r
  <2>2. HomeOK(r)
    BY <2>1, FreePlaces, FreeHome DEF Free
  <2>3. /\ Begin(p, r, {n}) /\ UNCHANGED <<rows, clock, copy, dirty, pullPoint, left, redirect, subscribed>>
    BY <1>1 DEF Create, svc, followVars, r
  <2> QED BY <2>1, <2>2, <2>3, WipeBegin
<1>2. CASE ClearRedirect(p, "uncreate", "rejoin")
  <2>1. at[p].pc = "uncreate" /\ "rejoin" \in PC \ Holding
    BY <1>2, FreePlaces DEF ClearRedirect, At
  <2> QED BY <1>2, <2>1, WipeRedirect
<1>3. CASE Rejoin(p)
  <2> SUFFICES ASSUME NEW n, n = at[p].name,
                      NEW u, u = IF n \in left THEN [at[p] EXCEPT !.pc = "resubscribe"] ELSE Idle
               PROVE  WipeInv'
    OBVIOUS
  <2>1. /\ at[p].pc = "rejoin" /\ Wanted(p, n, u) /\ left' = left \ {n}
        /\ UNCHANGED <<rows, clock, copy, dirty, excused, dropped, wiped, pullPoint, subscribed, redirect>>
    BY <1>3 DEF Rejoin, At, svc, storeVars, history, others
  <2>2. AtHome
    <3>1. Unfollowed' \subseteq Unfollowed
      BY <2>1 DEF Unfollowed
    <3> QED BY <2>1, <3>1 DEF AtHome
  <2>3. u \in Task /\ Free(u)
    <3>1. CASE n \in left
      <4>1. "resubscribe" \in PC \ Holding /\ u = [at[p] EXCEPT !.pc = "resubscribe"]
        BY <3>1, FreePlaces
      <4> QED BY <2>1, <4>1, FreeThen
    <3>2. CASE n \notin left
      BY <3>2, FreeIdle, Revisions
    <3> QED BY <3>1, <3>2
  <2> QED BY <2>1, <2>2, <2>3, AtHomeKeeps, WipeWanted
<1>4. CASE Subscribes(p, "resubscribe", {at[p].name}, [at[p] EXCEPT !.pc = "backfill"])
  <2> SUFFICES ASSUME NEW u, u = [at[p] EXCEPT !.pc = "backfill"] PROVE WipeInv'
    OBVIOUS
  <2>1. at[p].pc = "resubscribe" /\ "backfill" \in PC \ Holding
    BY <1>4, FreePlaces DEF Subscribes, At
  <2>2. HomeOK(u)
    BY <2>1, FreeThen, FreeHome
  <2> QED BY <1>4, <2>2, WipeSubscribes
<1>5. CASE MarkBackfill(p)
  <2>1. Work(p, Idle) /\ AtHome
    BY <1>5, SameUnfollowed DEF MarkBackfill, AtHome, svc, storeVars
  <2> QED BY <2>1, FreeIdle, FreeHome, WipeQuiet
<1> QED BY <1>1, <1>2, <1>3, <1>4, <1>5 DEF Creating

\* What was fetched from n's feed is in n.
LEMMA FeedHome ==
  ASSUME NEW n, NEW since, NEW own, NEW d \in Doc, Feed(n, since, own)[d] > 0
  PROVE  rows[d].in = n
BY DEF Feed

LEMMA WipeFetch ==
  ASSUME TypeInv, TypeInv', WipeInv, NEW p \in Proc, NEW pc, NEW next \in {"subApply", "visitApply"}, NEW own,
         Fetch(p, pc, next, own), at[p].op # "remove"
  PROVE  WipeInv'
<1> SUFFICES ASSUME NEW n, n = at[p].name, NEW s, s = Feed(n, Since(p), own),
                    NEW u, u = [at[p] EXCEPT !.pc = next, !.sent = s]
             PROVE  WipeInv'
  OBVIOUS
<1>1. Work(p, u) /\ AtHome
  BY SameUnfollowed DEF Fetch, AtHome, svc, storeVars, followVars, history, others
<1>2. u.pc = next /\ u.op = at[p].op /\ u.name = n /\ u.sent = s
  BY AtPlace DEF Task
<1>3. SentHome(u)
  BY <1>2, FeedHome DEF SentHome
<1>4. RemoveHome(u) /\ Dropping(u) /\ MergeHome(u) /\ MoveHome(u)
  BY <1>2 DEF RemoveHome, Dropping, MergeHome, MoveHome, Moving
<1>5. Restores(u)
  BY <1>2 DEF Restores, Coming, Pulling, EachOf
<1>6. HomeOK(u)
  BY <1>3, <1>4, <1>5 DEF HomeOK
<1> QED BY <1>1, <1>6, WipeQuiet

LEMMA WipeSubscribing ==
  ASSUME TypeInv, TypeInv', WipeInv, NEW p \in Proc, Subscribing(p)
  PROVE  WipeInv'
<1>1. ASSUME NEW n \in Name, Subscribe(p, n) PROVE WipeInv'
  <2> DEFINE r == [Idle EXCEPT !.pc = "unredirect", !.op = "subscribe", !.name = n, !.whole = {n}]
  <2>1. r \in Task /\ r.pc = "unredirect" /\ r.op = "subscribe"
    BY Revisions DEF Task, Idle, PC, Op
  <2> HIDE DEF r
  <2>2. HomeOK(r)
    BY <2>1, FreePlaces, FreeHome DEF Free
  <2>3. /\ Begin(p, r, {n}) /\ UNCHANGED <<rows, clock, copy, dirty, pullPoint, left, redirect>>
        /\ subscribed \subseteq subscribed'
    BY <1>1 DEF Subscribe, svc, storeVars, r
  <2> QED BY <2>1, <2>2, <2>3, WipeBegin
<1>2. ASSUME NEW n \in Name, Unsubscribe(p, n) PROVE WipeInv'
  <2>1. /\ UNCHANGED <<rows, clock, copy, dirty, excused, wiped, left, redirect, pullPoint, at>>
        /\ subscribed' = subscribed \ {n} /\ dropped' = dropped \cup {n}
    BY <1>2 DEF Unsubscribe, svc, storeVars
  <2>2. OldKept /\ CleanKept /\ CopiesStay /\ clock' >= clock
    BY <2>1, OldStays, Clocked DEF CleanKept, CopiesStay
  <2>3. FollowKept
    <3>1. \A d \in Doc : Old(d)' => rows[d].in # n
      BY <2>1 DEF Old
    <3> QED BY <2>1, <3>1, SameUnfollowed DEF FollowKept, WipeInv
  <2> QED BY <2>1, <2>2, <2>3, WipeOutside
<1>3. CASE ClearRedirect(p, "unredirect", "unleave")
  <2>1. at[p].pc = "unredirect" /\ "unleave" \in PC \ Holding
    BY <1>3, FreePlaces DEF ClearRedirect, At
  <2> QED BY <1>3, <2>1, WipeRedirect
<1>4. CASE ClearLeft(p)
  <2> SUFFICES ASSUME NEW u, u = [at[p] EXCEPT !.pc = "make"] PROVE WipeInv'
    OBVIOUS
  <2>1. /\ at[p].pc = "unleave" /\ Wanted(p, at[p].name, u) /\ left' \subseteq left
        /\ UNCHANGED <<rows, clock, copy, dirty, excused, dropped, wiped, pullPoint, subscribed, redirect>>
    BY <1>4 DEF ClearLeft, At, svc, storeVars, history, others
  <2>2. AtHome
    <3>1. Unfollowed' \subseteq Unfollowed
      BY <2>1 DEF Unfollowed
    <3> QED BY <2>1, <3>1 DEF AtHome
  <2>3. "make" \in PC \ Holding
    BY FreePlaces
  <2>4. u \in Task /\ Free(u)
    BY <2>1, <2>3, FreeThen
  <2> QED BY <2>1, <2>2, <2>4, AtHomeKeeps, WipeWanted
<1>5. CASE Make(p)
  <2> SUFFICES ASSUME NEW pc, pc = IF p \in Plugin THEN "subCycle" ELSE "subFetch",
                      NEW u, u = [at[p] EXCEPT !.pc = pc]
               PROVE  WipeInv'
    OBVIOUS
  <2>1. /\ at[p].pc = "make" /\ Work(p, u) /\ AtHome
    BY <1>5, SameUnfollowed DEF Make, Then, At, AtHome, svc, followVars, history, others
  <2>2. pc \in PC \ Holding
    BY FreePlaces
  <2>3. HomeOK(u)
    BY <2>1, <2>2, FreeThen, FreeHome
  <2> QED BY <2>1, <2>3, WipeQuiet
<1>6. CASE SubscribePull(p)
  <2>0. at[p].pc \in {"subFetch", "subApply"}
    BY <1>6 DEF SubscribePull, Fetch, Fails, Apply, ApplyPage, At
  <2>1. CASE Fetch(p, "subFetch", "subApply", FALSE)
    <3>1. at[p].op # "remove"
      BY <2>0, AtPlace DEF TaskOK, OnItsWay
    <3> QED BY <2>1, <3>1, WipeFetch
  <2> SUFFICES ASSUME NEW v, v = [at[p] EXCEPT !.pc = "subCycle"], ~Fetch(p, "subFetch", "subApply", FALSE) PROVE WipeInv'
    BY <2>1
  <2>3. "subCycle" \in PC \ Holding
    BY FreePlaces
  <2>4. v \in Task /\ Free(v) /\ HomeOK(v)
    BY <2>0, <2>3, FreeThen, FreeHome
  <2>5. CASE Fails(p, {"subFetch"}, v)
    BY <2>4, <2>5, WipeFails
  <2>6. CASE Apply(p, "subApply", v)
    <3> SUFFICES ASSUME NEW u, u = [v EXCEPT !.sent = NoDocs] PROVE WipeInv'
      OBVIOUS
    <3>1. Work(p, u) /\ ApplyPage(p, "subApply", v)
      BY <2>6 DEF Apply, ApplyPage
    <3>2. u.pc = v.pc /\ u.op = v.op
      BY <2>4 DEF Task
    <3>3. HomeOK(u)
      BY <2>4, <3>2, FreeHome DEF Free
    <3>4. "subApply" \in Answered \ Settling
      BY DEF Answered, Settling
    <3> QED BY <3>1, <3>3, <3>4, WipePage
  <2> QED BY <1>6, <2>5, <2>6 DEF SubscribePull
<1>7. CASE SubscribeCycle(p)
  <2> SUFFICES ASSUME NEW u, u \in {Fresh(p, "deletes"), Idle}, Work(p, u) PROVE WipeInv'
    BY <1>7 DEF SubscribeCycle
  <2>1. at[p].pc = "subCycle" /\ AtHome
    BY <1>7, SameUnfollowed DEF SubscribeCycle, At, AtHome, svc, storeVars, followVars, history, others
  <2>2. Free(u)
    <3>1. CASE u = Fresh(p, "deletes")
      <4>1. u.pc = "deletes" /\ u.op = at[p].op /\ "deletes" \notin Holding
        BY <3>1, FreePlaces DEF Fresh, Idle
      <4> QED BY <2>1, <4>1, FreeOn
    <3>2. CASE u = Idle
      BY <3>2, FreeIdle
    <3> QED BY <3>1, <3>2
  <2> QED BY <2>1, <2>2, FreeHome, WipeQuiet
<1> QED BY <1>1, <1>2, <1>3, <1>4, <1>5, <1>6, <1>7 DEF Subscribing

\* The other parts of HomeOK say nothing of a removal.
Removal(u) == u.pc \in {"removePush", "unfollow", "leave", "drop"}
LEMMA RemovalElse ==
  ASSUME NEW u, Removal(u)
  PROVE  /\ SentHome(u) /\ MergeHome(u) /\ MoveHome(u) /\ Restores(u)
         /\ SentHome(u)' /\ MergeHome(u)' /\ MoveHome(u)' /\ Restores(u)'
<1>1. u.pc \notin Answered /\ u.pc \notin Pulling /\ u.pc \notin EachOf
  BY DEF Removal, Answered, Settling, Pulling, EachOf
<1>2. SentHome(u) /\ MergeHome(u) /\ MoveHome(u) /\ Restores(u)
  BY <1>1 DEF Removal, SentHome, MergeHome, MoveHome, Restores, Coming, Moving, Pulling
<1>3. SentHome(u)' /\ MergeHome(u)' /\ MoveHome(u)' /\ Restores(u)'
  BY <1>1 DEF Removal, SentHome, MergeHome, MoveHome, Restores, Coming, Moving, Pulling
<1> QED BY <1>2, <1>3

LEMMA RemovalHome ==
  ASSUME NEW u, Removal(u), RemoveHome(u), Dropping(u)
  PROVE  HomeOK(u)
BY RemovalElse DEF HomeOK

LEMMA RemovalNext ==
  ASSUME NEW u, Removal(u), RemoveHome(u)', Dropping(u)'
  PROVE  HomeOK(u)'
BY RemovalElse DEF HomeOK

\* A removal that begins without force has at home what it need not push.
LEMMA RemoveStarts ==
  ASSUME WipeInv, NEW n, n \in Name, NEW r, r.op \in {"remove", "removeAll"}, r.name = n, r.docs = copy[n], r.ids = Pushable(n),
         r.op = "removeAll" => r.pc = "queueAll",
         r.op = "remove" => r.pc = "removePush" \/ (r.pc = "unfollow" /\ Pushable(n) = {}),
         r.op = "remove" /\ ~r.sure => Copies(n, In(n)) \cap rejected = {}
  PROVE  HomeOK(r)
<1>1. CASE r.op = "removeAll"
  <2>1. Free(r)
    BY <1>1, FreePlaces DEF Free
  <2> QED BY <2>1, FreeHome
<1>2. CASE r.op = "remove"
  <2>1. Removal(r)
    BY <1>2 DEF Removal
  <2>2. ASSUME ~r.sure, NEW d \in Doc, Old(d), r.docs[d] > 0, d \notin Pushable(n) PROVE rows[d].in = n
    <3>1. <<n, d>> \in Copies(n, In(n))
      BY <2>2 DEF Copies, In
    <3>2. <<n, d>> \notin dirty
      BY <1>2, <2>2, <3>1 DEF Pushable, Dirty
    <3> QED BY <2>2, <3>2 DEF WipeInv, CleanHome
  <2>3. RemoveHome(r)
    BY <1>2, <2>2 DEF RemoveHome
  <2>4. Dropping(r)
    BY <1>2 DEF Dropping
  <2> QED BY <2>1, <2>3, <2>4, RemovalHome
<1> QED BY <1>1, <1>2

LEMMA WipeRemove ==
  ASSUME TypeInv, TypeInv', WipeInv, NEW p \in Proc, NEW n \in Name, NEW all \in BOOLEAN, NEW sure \in BOOLEAN, Remove(p, n, all, sure)
  PROVE  WipeInv'
<1>0. SUFFICES ASSUME NEW pc, pc = IF all THEN "queueAll" ELSE IF Pushable(n) = {} THEN "unfollow" ELSE "removePush",
                    NEW op, op = IF all THEN "removeAll" ELSE "remove",
                    NEW docs, docs = copy[n], NEW ids, ids = Pushable(n),
                    NEW r, r = [Idle EXCEPT !.pc = pc, !.op = op, !.sure = sure, !.name = n,
                                            !.docs = docs, !.ids = ids]
               PROVE  WipeInv'
  OBVIOUS
<1>1. pc \in {"queueAll", "unfollow", "removePush"} /\ op \in {"remove", "removeAll"}
  BY <1>0
<1>2. docs \in Revs /\ ids \subseteq Doc /\ pc \in PC /\ op \in Op
  BY <1>0, <1>1, StoreFacts DEF Pushable, Dirty, PC, Op
<1>3. r \in Task
  BY <1>0, <1>2, RemoveTask
<1>4. r.pc = pc /\ r.op = op /\ r.name = n /\ r.docs = docs /\ r.ids = ids
  BY <1>0, <1>2, Revisions DEF Task
<1>5. r.sure = sure
  BY <1>0, <1>2, Revisions DEF Task
<1>6. Begin(p, r, {}) /\ UNCHANGED <<rows, clock, copy, dirty, pullPoint, left, redirect, subscribed>>
  BY <1>0 DEF Remove, svc, storeVars, followVars
<1>7. HomeOK(r)
  <2>1. r.op = "removeAll" => r.pc = "queueAll"
    BY <1>0, <1>4
  <2>2. r.op = "remove" => \/ r.pc = "removePush"
                           \/ r.pc = "unfollow" /\ Pushable(n) = {}
    BY <1>0, <1>4
  <2>3. r.op = "remove" /\ ~r.sure => Copies(n, In(n)) \cap rejected = {}
    BY <1>0, <1>4, <1>5 DEF Remove
  <2>4. r.op \in {"remove", "removeAll"} /\ r.name = n /\ r.docs = copy[n] /\ r.ids = Pushable(n)
    BY <1>0, <1>1, <1>4
  <2> QED BY <2>1, <2>2, <2>3, <2>4, RemoveStarts
<1> QED BY <1>3, <1>6, <1>7, WipeBegin

\* What a removal drops is no longer old: it was confirmed, or changed since,
\* or at home in a collection that is dropped.
LEMMA WipeDrop ==
  ASSUME TypeInv, TypeInv', LossInv, WipeInv, NEW p \in Proc, Drop(p)
  PROVE  WipeInv'
<1> SUFFICES ASSUME NEW n, n = at[p].name,
                    NEW u, u = IF at[p].op = "merge" THEN [at[p] EXCEPT !.pc = "redirect"] ELSE Idle
             PROVE  WipeInv'
  OBVIOUS
<1>1. /\ at[p].pc = "drop" /\ Work(p, u)
      /\ UNCHANGED <<rows, clock, subscribed, left, redirect, pullPoint, dropped, wiped>>
      /\ copy' = [copy EXCEPT ![n] = NoDocs] /\ dirty' = dirty \ Copies(n, Doc)
      /\ excused' = excused \cup {d \in In(n) : \/ at[p].sure \/ at[p].op = "merge"
                                               \/ copy[n][d] # at[p].docs[d]}
  BY DEF Drop, Then, At, svc, followVars
<1>2. /\ n \in Name /\ n \in dropped /\ at[p].op \in {"remove", "removeAll", "merge"}
      /\ RemoveHome(at[p]) /\ RemoveAllExcused(at[p])
  <2>1. n \in Name /\ at[p].op \in {"remove", "removeAll", "merge"}
    BY <1>1, AtPlace DEF TaskOK, OnItsWay, Task, Op, Pushing, Pulling, Nameless
  <2> QED BY <1>1, <2>1 DEF WipeInv, HomeOK, Dropping, LossInv, TaskBacked
<1>3. OldKept /\ FollowKept /\ clock' >= clock
  BY <1>1, OldStays, SameUnfollowed, Clocked DEF FollowKept, WipeInv
<1>4. copy \in [Name -> Revs] /\ \A d \in Doc : copy'[n][d] = 0
  BY <1>1, <1>2, StoreFacts DEF NoDocs
<1>5. \A m \in Name : m # n => copy'[m] = copy[m]
  BY <1>1, <1>4
<1>6. ASSUME NEW d \in Doc, Old(d)', copy[n][d] > 0 PROVE FALSE
  <2>1. Old(d) /\ d \notin excused'
    BY <1>3, <1>6 DEF OldKept, Old
  <2>2. ~at[p].sure /\ at[p].op # "merge" /\ copy[n][d] = at[p].docs[d]
    BY <1>1, <1>6, <2>1 DEF In
  <2>3. CASE at[p].op = "removeAll"
    BY <1>1, <1>2, <1>6, <2>1, <2>2, <2>3 DEF RemoveAllExcused, Old
  <2>4. CASE at[p].op = "remove"
    <3>1. rows[d].in = n
      BY <1>1, <1>2, <1>6, <2>1, <2>2, <2>4 DEF RemoveHome
    <3> QED BY <1>2, <2>1, <3>1 DEF Old
  <2> QED BY <1>2, <2>2, <2>3, <2>4
<1>7. CopiesStay
  BY <1>5, <1>6 DEF CopiesStay
<1>8. CleanKept
  <2> SUFFICES ASSUME NEW m \in Name, NEW d \in Doc, copy'[m][d] > 0, <<m, d>> \notin dirty'
               PROVE  copy[m][d] > 0 /\ <<m, d>> \notin dirty
    BY DEF CleanKept
  <2>1. m # n
    BY <1>4
  <2>2. <<m, d>> \notin Copies(n, Doc)
    BY <2>1 DEF Copies
  <2> QED BY <1>1, <1>5, <2>1, <2>2
<1>9. HomeOK(u)
  <2>1. CASE at[p].op = "merge"
    <3>1. u.pc = "redirect" /\ u.name = n /\ u.op = "merge"
      BY <2>1, AtPlace DEF Task
    <3>2. u.pc \notin Answered /\ u.pc \notin Pulling /\ u.pc \notin EachOf
      BY <3>1 DEF Answered, Settling, Pulling, EachOf
    <3>3. SentHome(u) /\ RemoveHome(u) /\ Dropping(u) /\ MergeHome(u) /\ MoveHome(u) /\ Restores(u)
      BY <1>2, <3>1, <3>2 DEF SentHome, RemoveHome, Dropping, MergeHome, MoveHome, Restores, Coming, Moving, Pulling
    <3> QED BY <3>3 DEF HomeOK
  <2>2. CASE at[p].op # "merge"
    BY <2>2, FreeIdle, FreeHome
  <2> QED BY <2>1, <2>2
<1> QED BY <1>1, <1>3, <1>7, <1>8, <1>9, WipeMoves

\* What a push settles is at home where it was sent.
LEMMA WipeSettles ==
  ASSUME TypeInv, WipeInv, NEW p \in Proc, at[p].pc \in Settling, Settle(at[p].name, at[p].sent),
         UNCHANGED <<rows, clock, copy, excused, wiped, dropped, subscribed, left, redirect, pullPoint>>
  PROVE  OldKept /\ CleanKept /\ CopiesStay /\ FollowKept /\ UNCHANGED pullPoint /\ clock' >= clock
<1> SUFFICES ASSUME NEW n, n = at[p].name, NEW sent, sent = at[p].sent PROVE CleanKept
  BY OldStays, SameUnfollowed, Clocked DEF CopiesStay, FollowKept, WipeInv
<1>1. dirty' = dirty \ Copies(n, Accepted(Settled(n, sent)))
  BY DEF Settle
<1>2. \A d \in Doc : Old(d) /\ sent[d] > 0 /\ d \notin Refused => rows[d].in = n
  BY DEF WipeInv, HomeOK, SentHome, Answered
<1>3. OldKept
  BY OldStays
<1> SUFFICES ASSUME NEW m \in Name, NEW d \in Doc, Old(d)', <<m, d>> \in dirty, <<m, d>> \notin dirty'
             PROVE  rows[d].in = m
  BY DEF CleanKept
<1>4. m = n /\ d \in Accepted(Settled(n, sent))
  BY <1>1 DEF Copies
<1>5. sent[d] > 0 /\ d \notin Refused
  BY <1>4 DEF Accepted, Settled
<1> QED BY <1>2, <1>3, <1>4, <1>5 DEF OldKept

LEMMA WipeRemoveSettle ==
  ASSUME TypeInv, TypeInv', WipeInv, NEW p \in Proc, RemoveSettle(p)
  PROVE  WipeInv'
<1> SUFFICES ASSUME NEW n, n = at[p].name, NEW ids, ids = at[p].ids,
                    NEW docs, docs = [d \in Doc |-> IF d \in ids THEN copy[n][d] ELSE at[p].docs[d]],
                    NEW u, u = [at[p] EXCEPT !.pc = "unfollow", !.sent = NoDocs, !.docs = docs]
             PROVE  WipeInv'
  OBVIOUS
<1>1. /\ at[p].pc = "removeSettle" /\ Settle(n, at[p].sent) /\ at[p].pc \in Settling
      /\ UNCHANGED <<rows, clock, copy, excused, wiped, dropped, subscribed, left, redirect, pullPoint>>
  BY DEF RemoveSettle, At, svc, followVars, history, others, Settling
<1>2. n \in Name /\ at[p].op = "remove" /\ RemoveHome(at[p])
  BY <1>1, AtPlace DEF TaskOK, OnItsWay, Task, Op, Pushing, Pulling, Nameless, WipeInv, HomeOK
<1>3. OldKept /\ CleanKept /\ CopiesStay /\ FollowKept /\ UNCHANGED pullPoint /\ clock' >= clock
  BY <1>1, WipeSettles
<1>4. CASE (at[p].sure \/ Missing(n, ids) = {}) /\ Work(p, u)
  <2>1. u.pc = "unfollow" /\ u.op = "remove" /\ u.sure = at[p].sure /\ u.docs = docs /\ u.name = n
    BY <1>2, AtPlace DEF Task
  <2>2. RemoveHome(u)'
    <3> SUFFICES ASSUME ~at[p].sure, NEW d \in Doc, Old(d)', docs[d] > 0 PROVE rows'[d].in = n
      BY <2>1 DEF RemoveHome
    <3>1. Old(d) /\ rows'[d] = rows[d]
      BY <1>3 DEF OldKept
    <3>2. CASE d \in ids
      <4>1. copy'[n][d] > 0 /\ <<n, d>> \notin dirty'
        BY <1>1, <1>4, <3>2 DEF Missing
      <4>2. (copy[n][d] > 0 /\ <<n, d>> \notin dirty) \/ rows[d].in = n
        BY <1>2, <1>3, <4>1 DEF CleanKept
      <4> QED BY <1>2, <3>1, <4>2 DEF WipeInv, CleanHome
    <3>3. CASE d \notin ids
      <4>1. at[p].docs[d] > 0
        BY <3>3
      <4> QED BY <1>1, <1>2, <3>1, <3>3, <4>1 DEF RemoveHome
    <3> QED BY <3>2, <3>3
  <2>3. Dropping(u)'
    BY <2>1 DEF Dropping
  <2>4. Removal(u)
    BY <2>1 DEF Removal
  <2>5. HomeOK(u)'
    BY <2>2, <2>3, <2>4, RemovalNext
  <2> QED BY <1>3, <1>4, <2>5, WipeMoves
<1>5. CASE Work(p, Idle)
  BY <1>3, <1>5, FreeIdle, FreeHome, WipeMoves
<1> QED BY <1>4, <1>5 DEF RemoveSettle

\* A removal goes on with what it is about to drop.
LEMMA RemovalOn ==
  ASSUME TypeInv, WipeInv, NEW p \in Proc, at[p].pc \in {"removePush", "unfollow", "leave"},
         NEW pc \in {"unfollow", "leave", "drop"}, at[p].pc = "removePush" => at[p].sure,
         NEW u, u = [at[p] EXCEPT !.pc = pc]
  PROVE  /\ u.pc = pc /\ u.name = at[p].name /\ RemoveHome(u)
         /\ OldKept => RemoveHome(u)'
<1>1. u.pc = pc /\ u.name = at[p].name /\ u.op = at[p].op /\ u.sure = at[p].sure /\ u.docs = at[p].docs
  BY AtPlace DEF Task
<1>2. RemoveHome(at[p])
  BY DEF WipeInv, HomeOK
<1>3. RemoveHome(u)
  BY <1>1, <1>2 DEF RemoveHome
<1>4. ASSUME OldKept PROVE RemoveHome(u)'
  BY <1>1, <1>3, <1>4 DEF RemoveHome, OldKept
<1> QED BY <1>1, <1>3, <1>4

LEMMA WipeRemoving ==
  ASSUME TypeInv, TypeInv', LossInv, WipeInv, NEW p \in Proc, Removing(p)
  PROVE  WipeInv'
<1>1. CASE QueueAll(p)
  <2> SUFFICES ASSUME NEW u, u = [at[p] EXCEPT !.pc = "unfollow"] PROVE WipeInv'
    OBVIOUS
  <2>1. /\ at[p].pc = "queueAll" /\ Work(p, u) /\ excused \subseteq excused'
        /\ UNCHANGED <<rows, clock, copy, dirty, subscribed, left, redirect, pullPoint, dropped, wiped>>
    BY <1>1 DEF QueueAll, At, Then, svc, storeVars, followVars, others
  <2>2. "unfollow" \in PC \ Holding
    BY FreePlaces
  <2>3. HomeOK(u)
    BY <2>1, <2>2, FreeThen, FreeHome
  <2>4. OldKept /\ CleanKept /\ CopiesStay /\ FollowKept /\ clock' >= clock
    BY <2>1, OldStays, SameUnfollowed, Clocked DEF CleanKept, CopiesStay, FollowKept, WipeInv
  <2> QED BY <2>1, <2>3, <2>4, WipeMoves
<1>2. CASE RemovePush(p)
  <2> SUFFICES ASSUME NEW n, n = at[p].name, NEW ids, ids = at[p].ids, NEW s, s = Unsent(n, ids),
                      NEW u, u = [at[p] EXCEPT !.pc = "removeSettle", !.sent = s]
               PROVE  WipeInv'
    OBVIOUS
  <2>1. /\ at[p].pc = "removePush" /\ Upsert(n, s) /\ Work(p, u)
        /\ UNCHANGED <<copy, dirty, subscribed, left, redirect, pullPoint, dropped, wiped>>
    BY <1>2 DEF RemovePush, At, storeVars, followVars, others
  <2>2. n \in Name /\ RemoveHome(at[p])
    BY <2>1, AtPlace DEF Nameless, WipeInv, HomeOK
  <2>3. /\ u.pc = "removeSettle" /\ u.name = n /\ u.sent = s /\ u.ids = ids
        /\ u.op = at[p].op /\ u.sure = at[p].sure /\ u.docs = at[p].docs
    BY AtPlace DEF Task
  <2>4. RemoveHome(u)
    BY <2>1, <2>2, <2>3 DEF RemoveHome
  <2>5. u.pc \in Settling
    BY <2>3 DEF Settling
  <2> QED BY <2>1, <2>2, <2>3, <2>4, <2>5, WipeService
<1>3. CASE RemovePushFails(p)
  <2> SUFFICES ASSUME NEW n, n = at[p].name, NEW ids, ids = at[p].ids,
                      NEW u, u = IF at[p].sure THEN [at[p] EXCEPT !.pc = "unfollow"] ELSE Idle
               PROVE  WipeInv'
    OBVIOUS
  <2>1. /\ at[p].pc = "removePush" /\ Work(p, u)
        /\ UNCHANGED <<copy, dirty, subscribed, left, redirect, pullPoint, dropped, wiped>>
        /\ Upsert(n, Unsent(n, ids)) \/ UNCHANGED <<rows, clock, excused>>
    BY <1>3 DEF RemovePushFails, At, Then, svc, storeVars, followVars, others
  <2>2. n \in Name
    BY <2>1, AtPlace DEF Nameless
  <2>3. HomeOK(u)
    <3>1. CASE at[p].sure
      <4>1. u = [at[p] EXCEPT !.pc = "unfollow"]
        BY <3>1
      <4>2. u.pc = "unfollow" /\ RemoveHome(u)
        BY <2>1, <3>1, <4>1, RemovalOn
      <4>3. Dropping(u) /\ Removal(u)
        BY <4>2 DEF Dropping, Removal
      <4> QED BY <4>2, <4>3, RemovalHome
    <3>2. CASE ~at[p].sure
      BY <3>2, FreeIdle, FreeHome
    <3> QED BY <3>1, <3>2
  <2> QED BY <2>1, <2>2, <2>3, WipeService
<1>4. CASE Unfollow(p)
  <2> SUFFICES ASSUME NEW n, n = at[p].name, NEW pc, pc = IF at[p].op = "remove" THEN "leave" ELSE "drop",
                      NEW u, u = [at[p] EXCEPT !.pc = pc]
               PROVE  WipeInv'
    OBVIOUS
  <2>1. /\ at[p].pc = "unfollow" /\ Work(p, u) /\ subscribed' = subscribed \ {n} /\ dropped' = dropped \cup {n}
        /\ UNCHANGED <<rows, clock, copy, dirty, left, redirect, pullPoint, excused, wiped>>
    BY <1>4 DEF Unfollow, Then, At, svc, storeVars
  <2>2. OldKept /\ CleanKept /\ CopiesStay /\ clock' >= clock
    BY <2>1, OldStays, Clocked DEF CleanKept, CopiesStay
  <2>3. FollowKept
    <3>1. \A d \in Doc : Old(d)' => rows[d].in # n
      BY <2>1 DEF Old
    <3> QED BY <2>1, <3>1, SameUnfollowed DEF FollowKept, WipeInv
  <2>4. u.pc = pc /\ u.name = n /\ RemoveHome(u)' /\ pc \in {"leave", "drop"}
    BY <2>1, <2>2, RemovalOn
  <2>5. Dropping(u)' /\ Removal(u)
    BY <2>1, <2>4 DEF Dropping, Removal
  <2>6. HomeOK(u)'
    BY <2>4, <2>5, RemovalNext
  <2> QED BY <2>1, <2>2, <2>3, <2>6, WipeMoves
<1>5. CASE Leave(p)
  <2> SUFFICES ASSUME NEW n, n = at[p].name, NEW u, u = [at[p] EXCEPT !.pc = "drop"] PROVE WipeInv'
    OBVIOUS
  <2>1. /\ at[p].pc = "leave" /\ Work(p, u) /\ left' = left \cup {n}
        /\ UNCHANGED <<rows, clock, copy, dirty, subscribed, redirect, pullPoint, excused, dropped, wiped>>
    BY <1>5 DEF Leave, Then, At, svc, storeVars, others
  <2>2. n \in dropped
    BY <2>1 DEF WipeInv, HomeOK, Dropping
  <2>3. OldKept /\ CleanKept /\ CopiesStay /\ FollowKept /\ clock' >= clock
    <3>1. Unfollowed' \subseteq Unfollowed \cup {n}
      BY <2>1 DEF Unfollowed
    <3> QED BY <2>1, <2>2, <3>1, OldStays, Clocked DEF CleanKept, CopiesStay, FollowKept, WipeInv
  <2>4. u.pc = "drop" /\ u.name = n /\ RemoveHome(u)
    BY <2>1, RemovalOn
  <2>5. HomeOK(u)
    <3>1. Dropping(u) /\ Removal(u)
      BY <2>2, <2>4 DEF Dropping, Removal
    <3> QED BY <2>4, <3>1, RemovalHome
  <2> QED BY <2>1, <2>3, <2>5, WipeMoves
<1> QED BY <1>1, <1>2, <1>3, <1>4, <1>5, WipeRemove, WipeRemoveSettle, WipeDrop DEF Removing

\* Copies that are made or changed are to be pushed.
LEMMA GrowsHome ==
  ASSUME TypeInv, WipeInv, excused \subseteq excused',
         UNCHANGED <<rows, clock, wiped, dropped, subscribed, left, redirect, pullPoint>>,
         \A m \in Name, e \in Doc : \/ copy'[m][e] = copy[m][e] /\ (<<m, e>> \in dirty => <<m, e>> \in dirty')
                                    \/ copy'[m][e] > 0 /\ <<m, e>> \in dirty'
  PROVE  OldKept /\ CleanKept /\ CopiesStay /\ FollowKept /\ UNCHANGED pullPoint /\ clock' >= clock
<1>1. OldKept /\ FollowKept /\ clock' >= clock
  BY OldStays, SameUnfollowed, Clocked DEF FollowKept, WipeInv
<1>2. CleanKept
  BY DEF CleanKept
<1>3. CopiesStay
  BY DEF CopiesStay
<1> QED BY <1>1, <1>2, <1>3

\* The other parts of HomeOK say nothing of a merge.
Merger(u) == u.op = "merge" /\ u.pc \in {"mergeVerify", "mergeMove", "mergeCheck"}

LEMMA MergerElse ==
  ASSUME NEW u, Merger(u)
  PROVE  /\ SentHome(u) /\ RemoveHome(u) /\ Dropping(u) /\ MoveHome(u) /\ Restores(u)
         /\ SentHome(u)' /\ RemoveHome(u)' /\ Dropping(u)' /\ MoveHome(u)' /\ Restores(u)'
<1>1. u.pc \notin Answered /\ u.pc \notin Pulling /\ u.pc \notin EachOf
  BY DEF Merger, Answered, Settling, Pulling, EachOf
<1>2. SentHome(u) /\ RemoveHome(u) /\ Dropping(u) /\ MoveHome(u) /\ Restores(u)
  BY <1>1 DEF Merger, SentHome, RemoveHome, Dropping, MoveHome, Restores, Coming, Pulling
<1>3. SentHome(u)' /\ RemoveHome(u)' /\ Dropping(u)' /\ MoveHome(u)' /\ Restores(u)'
  BY <1>1 DEF Merger, SentHome, RemoveHome, Dropping, MoveHome, Restores, Coming, Pulling
<1> QED BY <1>2, <1>3

LEMMA MergerHome ==
  ASSUME NEW u, Merger(u), MergeHome(u)
  PROVE  HomeOK(u)
BY MergerElse DEF HomeOK

LEMMA MergerNext ==
  ASSUME NEW u, Merger(u), MergeHome(u)'
  PROVE  HomeOK(u)'
BY MergerElse DEF HomeOK

LEMMA WipeMergeCopy ==
  ASSUME TypeInv, TypeInv', WipeInv, NEW p \in Proc, MergeCopy(p)
  PROVE  WipeInv'
<1> SUFFICES ASSUME NEW n, n = at[p].into, NEW docs, docs = at[p].docs,
                    NEW M, M = Moved(p), NEW ids, ids = In(n),
                    NEW u, u = [at[p] EXCEPT !.pc = "mergeVerify", !.ids = ids]
             PROVE  WipeInv'
  OBVIOUS
<1>1. /\ at[p].pc = "mergeCopy" /\ Work(p, u)
      /\ UNCHANGED <<rows, clock, wiped, dropped, subscribed, left, redirect, pullPoint>>
      /\ copy' = [copy EXCEPT ![n] = [d \in Doc |-> IF d \in M THEN docs[d] ELSE copy[n][d]]]
      /\ dirty' = dirty \cup Copies(n, M) /\ excused \subseteq excused'
  BY DEF MergeCopy, At, svc, followVars, others
<1>2. n \in Name /\ copy \in [Name -> Revs] /\ \A d \in Doc : d \in M <=> docs[d] > 0
  BY <1>1, AtPlace, Merges, StoreFacts DEF Moved
<1>3. /\ \A m \in Name, d \in Doc : copy'[m][d] = IF m = n /\ d \in M THEN docs[d] ELSE copy[m][d]
      /\ \A d \in M : <<n, d>> \in dirty'
  BY <1>1, <1>2 DEF Copies
<1>4. OldKept /\ CleanKept /\ CopiesStay /\ FollowKept /\ UNCHANGED pullPoint /\ clock' >= clock
  BY <1>1, <1>2, <1>3, GrowsHome
<1>5. u.pc = "mergeVerify" /\ u.op = "merge" /\ u.docs = docs /\ u.into = n
  BY <1>1, AtPlace, Merges DEF Task
<1>6. MergeHome(u)'
  BY <1>2, <1>3, <1>5 DEF MergeHome, Moving
<1>7. Merger(u)
  BY <1>5 DEF Merger
<1>8. HomeOK(u)'
  BY <1>6, <1>7, MergerNext
<1> QED BY <1>1, <1>4, <1>8, WipeMoves

\* The copy that goes leaves one in the target, and no other merge relies on it.
LEMMA WipeMergeMove ==
  ASSUME TypeInv, TypeInv', LossInv, WipeInv, NEW p \in Proc, NEW d \in Doc, MergeMove(p, d)
  PROVE  WipeInv'
<1> SUFFICES ASSUME NEW f, f = at[p].name, NEW n, n = at[p].into, NEW docs, docs = at[p].docs,
                    NEW again \in BOOLEAN,
                    again = (copy[f][d] > 0 /\ (copy[f][d] # docs[d] \/ Unsent(f, {d})[d] # at[p].sent[d])),
                    NEW to, to = IF again THEN copy[f][d] ELSE copy[n][d],
                    NEW ids, ids = at[p].ids \ {d},
                    NEW pc, pc = IF at[p].ids = {d} THEN "mergeCheck" ELSE at[p].pc,
                    NEW u, u = [at[p] EXCEPT !.ids = ids, !.pc = pc]
             PROVE  WipeInv'
  OBVIOUS
<1>1. /\ at[p].pc = "mergeMove" /\ d \in at[p].ids
      /\ copy' = [copy EXCEPT ![f][d] = 0, ![n][d] = to]
      /\ dirty' = (dirty \ {<<f, d>>}) \cup (IF again THEN {<<n, d>>} ELSE {})
      /\ excused' = excused \cup {e \in {d} : copy[n][d] > to \/ d \in MovingInto(f)}
      /\ UNCHANGED <<rows, clock, subscribed, left, redirect, pullPoint, dropped, wiped>>
  BY DEF MergeMove, At, svc, followVars
<1>2. Work(p, u)
  BY DEF MergeMove
<1>3. /\ f \in Name /\ n \in Name /\ f # n /\ at[p].op = "merge" /\ copy \in [Name -> Revs]
      /\ MergeHome(at[p]) /\ MergeBacked(at[p])
  BY <1>1, AtPlace, Merges, StoreFacts DEF LossInv, TaskBacked, WipeInv, HomeOK
<1>4. \A m \in Name, e \in Doc :
        copy'[m][e] = IF e = d /\ m = f THEN 0 ELSE IF e = d /\ m = n THEN to ELSE copy[m][e]
  BY <1>1, <1>3 DEF Revs
<1>5. OldKept /\ FollowKept /\ UNCHANGED pullPoint /\ clock' >= clock
  BY <1>1, OldStays, SameUnfollowed, Clocked DEF FollowKept, WipeInv
<1>6. Old(d)' => to > 0 /\ d \notin MovingInto(f)
  <2> SUFFICES ASSUME Old(d)' PROVE to > 0 /\ d \notin MovingInto(f)
    OBVIOUS
  <2>1. Old(d) /\ d \notin MovingInto(f)
    BY <1>1, <1>5 DEF OldKept, Old
  <2>2. Moving(at[p], d)
    BY <1>1, <1>3 DEF MergeBacked, Moving
  <2>3. copy[n][d] > 0
    BY <1>3, <2>1, <2>2 DEF MergeHome
  <2> QED BY <2>1, <2>3
<1>7. CleanKept
  <2> SUFFICES ASSUME NEW m \in Name, NEW e \in Doc, copy'[m][e] > 0, <<m, e>> \notin dirty'
               PROVE  copy[m][e] > 0 /\ <<m, e>> \notin dirty
    BY DEF CleanKept
  <2>1. ~(e = d /\ m = f)
    BY <1>4
  <2>2. CASE e = d /\ m = n
    <3>1. ~again
      BY <1>1, <2>2
    <3> QED BY <1>1, <1>3, <1>4, <2>1, <2>2, <3>1
  <2>3. CASE ~(e = d /\ m = n)
    BY <1>1, <1>4, <2>1, <2>3
  <2> QED BY <2>2, <2>3
<1>8. HeldKept
  <2> SUFFICES ASSUME NEW e \in Doc, Old(e)', NEW m \in Name, copy[m][e] > 0 PROVE \E k \in Name : copy'[k][e] > 0
    BY DEF HeldKept, Held
  <2>1. CASE e = d
    BY <1>3, <1>4, <1>6, <2>1
  <2>2. CASE e # d
    BY <1>4, <2>2
  <2> QED BY <2>1, <2>2
<1>9. ASSUME NEW q \in Proc PROVE IntoKept(at[q])
  <2> SUFFICES ASSUME NEW k, k = at[q], NEW e \in Doc, Old(e)', Moving(k, e), copy[k.into][e] > 0
               PROVE  copy'[k.into][e] > 0
    BY DEF IntoKept
  <2>1. k.into \in Name
    BY AtPlace, Merges DEF Moving
  <2>2. e \in MovingInto(k.into)
    BY DEF MovingInto, Moving, At
  <2>3. CASE e = d /\ k.into = f
    BY <1>6, <2>2, <2>3
  <2>4. CASE e = d /\ k.into = n
    BY <1>3, <1>4, <1>6, <2>1, <2>4
  <2>5. CASE ~(e = d /\ k.into \in {f, n})
    BY <1>4, <2>1, <2>5
  <2> QED BY <2>3, <2>4, <2>5
<1>10. at'[p] = u /\ Alone(p)
  BY <1>2, WorksAlone
<1>11. /\ u.pc = pc /\ u.ids = ids /\ u.op = "merge" /\ u.docs = docs /\ u.into = n
       /\ pc \in {"mergeMove", "mergeCheck"}
  BY <1>1, <1>3, AtPlace DEF Task
<1>12. MergeHome(u)'
  <2> SUFFICES ASSUME NEW e \in Doc, Old(e)', docs[e] > 0, e \in ids PROVE copy'[n][e] > 0
    BY <1>11 DEF MergeHome, Moving
  <2>1. Old(e) /\ Moving(at[p], e) /\ e # d
    BY <1>1, <1>5 DEF OldKept, Moving
  <2>2. copy[n][e] > 0
    BY <1>3, <2>1 DEF MergeHome
  <2> QED BY <1>3, <1>4, <2>1, <2>2
<1>13. Merger(u)
  BY <1>11 DEF Merger
<1>14. HomeOK(u)'
  BY <1>12, <1>13, MergerNext
<1> QED BY <1>5, <1>7, <1>8, <1>9, <1>10, <1>14, WipeStep

LEMMA WipeMerging ==
  ASSUME TypeInv, TypeInv', LossInv, WipeInv, NEW p \in Proc, Merging(p)
  PROVE  WipeInv'
<1>1. ASSUME NEW from \in Name, NEW into \in Name, Merge(p, from, into) PROVE WipeInv'
  <2> SUFFICES ASSUME NEW pc, pc = IF In(from) = {} THEN "mergeRemove" ELSE "mergeCopy",
                      NEW docs, docs = copy[from], NEW sent, sent = Unsent(from, Doc),
                      NEW r, r = [Idle EXCEPT !.pc = pc, !.op = "merge", !.name = from, !.into = into,
                                              !.docs = docs, !.sent = sent]
               PROVE  WipeInv'
    OBVIOUS
  <2>1. pc \in {"mergeRemove", "mergeCopy"} /\ docs \in Revs /\ sent \in Revs
    BY StoreFacts, UnsentTyped
  <2>2. r \in Task /\ r.pc = pc /\ r.op = "merge"
    <3>1. pc \in PC /\ "merge" \in Op
      BY <2>1 DEF PC, Op
    <3> QED BY <2>1, <3>1, Revisions DEF Task, Idle
  <2>3. Free(r)
    BY <2>1, <2>2, FreePlaces DEF Free
  <2>4. Begin(p, r, {into}) /\ UNCHANGED <<rows, clock, copy, dirty, pullPoint, left, redirect, subscribed>>
    BY <1>1 DEF Merge, svc, storeVars, followVars
  <2> QED BY <2>2, <2>3, <2>4, FreeHome, WipeBegin
<1>2. CASE MergeVerify(p)
  <2> SUFFICES ASSUME NEW ids, ids = Moved(p), NEW v, v = [at[p] EXCEPT !.pc = "mergeMove", !.ids = ids],
                      NEW u, u \in {v, Idle}, Work(p, u)
               PROVE  WipeInv'
    BY <1>2 DEF MergeVerify
  <2>1. at[p].pc = "mergeVerify" /\ AtHome
    BY <1>2, SameUnfollowed DEF MergeVerify, At, AtHome, svc, storeVars, followVars, history, others
  <2>2. /\ v.pc = "mergeMove" /\ v.op = "merge" /\ v.docs = at[p].docs /\ v.into = at[p].into
        /\ MergeHome(at[p])
    BY <2>1, AtPlace, Merges DEF Task, WipeInv, HomeOK
  <2>3. MergeHome(v)
    BY <2>1, <2>2 DEF MergeHome, Moving
  <2>4. Merger(v)
    BY <2>2 DEF Merger
  <2>5. HomeOK(v) /\ HomeOK(Idle)
    BY <2>3, <2>4, MergerHome, FreeIdle, FreeHome
  <2>6. HomeOK(u)
    BY <2>5
  <2> QED BY <2>1, <2>6, WipeQuiet
<1>3. CASE MergeCheck(p)
  <2> SUFFICES ASSUME NEW v, v = [at[p] EXCEPT !.pc = "mergeRemove"],
                      NEW u, u \in {v, Idle}, Work(p, u)
               PROVE  WipeInv'
    BY <1>3 DEF MergeCheck, Then
  <2>1. at[p].pc = "mergeCheck" /\ AtHome
    BY <1>3, SameUnfollowed DEF MergeCheck, At, AtHome, svc, storeVars, followVars, history, others
  <2>2. "mergeRemove" \in PC \ Holding
    BY FreePlaces
  <2>3. Free(v) /\ Free(Idle)
    BY <2>1, <2>2, FreeThen, FreeIdle
  <2>4. HomeOK(u)
    BY <2>3, FreeHome
  <2> QED BY <2>1, <2>4, WipeQuiet
<1>4. CASE MergeRemove(p)
  <2> SUFFICES ASSUME NEW n, n = at[p].name, NEW u, u = [at[p] EXCEPT !.pc = "unfollow"] PROVE WipeInv'
    OBVIOUS
  <2>1. /\ at[p].pc = "mergeRemove" /\ Work(p, u)
        /\ Upsert(n, Unsent(n, Doc)) \/ UNCHANGED <<rows, clock, excused>>
        /\ UNCHANGED <<copy, dirty, subscribed, left, redirect, pullPoint, dropped, wiped>>
    BY <1>4 DEF MergeRemove, Then, At, svc, storeVars, followVars, others
  <2>2. n \in Name /\ "unfollow" \in PC \ Holding
    BY <2>1, AtPlace, FreePlaces DEF Nameless
  <2>3. HomeOK(u)
    BY <2>1, <2>2, FreeThen, FreeHome
  <2> QED BY <2>1, <2>2, <2>3, WipeService
<1>5. CASE MergeRedirect(p)
  <2> SUFFICES ASSUME NEW f, f = at[p].name, NEW n, n = at[p].into PROVE WipeInv'
    OBVIOUS
  <2>1. /\ at[p].pc = "redirect" /\ Wanted(p, n, Idle)
        /\ UNCHANGED <<rows, clock, copy, dirty, excused, dropped, wiped, pullPoint, subscribed, left>>
        /\ redirect' = [redirect EXCEPT ![f] = n, ![n] = Nowhere]
    BY <1>5 DEF MergeRedirect, At, AddRedirect, svc, storeVars
  <2>2. f \in dropped
    BY <2>1 DEF WipeInv, HomeOK, Dropping
  <2>3. FollowKept
    <3>1. redirect \in [Name -> Name \cup {Nowhere}]
      BY DEF TypeInv, FollowOK
    <3>2. Unfollowed' \subseteq Unfollowed \cup {f}
      BY <2>1, <3>1 DEF Unfollowed
    <3> QED BY <2>1, <2>2, <3>2 DEF FollowKept, WipeInv
  <2>4. OldKept /\ CleanKept /\ CopiesStay /\ clock' >= clock
    BY <2>1, OldStays, Clocked DEF CleanKept, CopiesStay
  <2>5. Idle \in Task /\ Free(Idle)
    BY Revisions, FreeIdle
  <2> QED BY <2>1, <2>3, <2>4, <2>5, WipeWanted
<1> QED BY <1>1, <1>2, <1>3, <1>4, <1>5, WipeMergeCopy, WipeMergeMove DEF Merging

LEMMA WipeWriting ==
  ASSUME TypeInv, TypeInv', WipeInv, NEW p \in Proc, Writing(p)
  PROVE  WipeInv'
<1>1. ASSUME NEW n \in Name, Write(p, n) PROVE WipeInv'
  <2> SUFFICES ASSUME NEW t, t = Resolve(n), NEW r, r = [Idle EXCEPT !.pc = "add", !.op = "write", !.name = t]
               PROVE  WipeInv'
    OBVIOUS
  <2>1. t \in Name
    BY ResolveTyped DEF TypeInv
  <2>2. r \in Task /\ r.pc = "add" /\ r.op = "write"
    BY <2>1, Revisions DEF Task, Idle, PC, Op
  <2>3. Free(r)
    BY <2>2, FreePlaces DEF Free
  <2>4. Begin(p, r, {}) /\ UNCHANGED <<rows, clock, copy, dirty, pullPoint, left, redirect, subscribed>>
    BY <1>1 DEF Write, svc, storeVars, followVars
  <2> QED BY <2>2, <2>3, <2>4, FreeHome, WipeBegin
<1>2. ASSUME NEW d \in Doc, Add(p, d) PROVE WipeInv'
  <2> SUFFICES ASSUME NEW n, n = at[p].name PROVE WipeInv'
    OBVIOUS
  <2>1. /\ at[p].pc = "add" /\ Work(p, Idle)
        /\ UNCHANGED <<rows, clock, wiped, excused, dropped, subscribed, left, redirect, pullPoint>>
        /\ copy' = [copy EXCEPT ![n][d] = 1] /\ dirty' = dirty \cup {<<n, d>>}
    BY <1>2 DEF Add, At, svc, followVars
  <2>2. \A m \in Name, e \in Doc : \/ copy'[m][e] = copy[m][e]
                                   \/ copy'[m][e] = 1 /\ <<m, e>> = <<n, d>>
    <3>1. copy \in [Name -> Revs] /\ n \in Name
      BY <2>1, StoreFacts, AtPlace DEF Nameless
    <3> QED BY <2>1, <3>1 DEF Revs
  <2>3. OldKept /\ CleanKept /\ CopiesStay /\ FollowKept /\ UNCHANGED pullPoint /\ clock' >= clock
    BY <2>1, <2>2, GrowsHome
  <2> QED BY <2>1, <2>3, FreeIdle, FreeHome, WipeMoves
<1> QED BY <1>1, <1>2 DEF Writing

LEMMA WipeEdit ==
  ASSUME TypeInv, TypeInv', WipeInv, NEW n \in Name, NEW d \in Doc, Edit(n, d)
  PROVE  WipeInv'
<1>1. /\ UNCHANGED <<rows, clock, wiped, excused, dropped, subscribed, left, redirect, pullPoint, at>>
      /\ copy' = [copy EXCEPT ![n][d] = 2] /\ dirty' = dirty \cup {<<n, d>>}
  BY DEF Edit, svc, followVars
<1>2. \A m \in Name, e \in Doc : \/ copy'[m][e] = copy[m][e]
                                 \/ copy'[m][e] = 2 /\ <<m, e>> = <<n, d>>
  BY <1>1, StoreFacts DEF Revs
<1>3. OldKept /\ CleanKept /\ CopiesStay /\ FollowKept /\ UNCHANGED pullPoint /\ clock' >= clock
  BY <1>1, <1>2, GrowsHome
<1> QED BY <1>1, <1>3, WipeOutside

\* What a teammate stores is not this user's.
LEMMA WipeTeammate ==
  ASSUME TypeInv, TypeInv', WipeInv, NEW d \in Doc, NEW n \in Name, TeammateStores(d, n)
  PROVE  WipeInv'
<1>1. /\ UNCHANGED <<copy, dirty, wiped, excused, dropped, subscribed, left, redirect, pullPoint, at>>
      /\ d \notin Mine /\ clock' = clock + 1
      /\ \A e \in Doc : e # d => rows'[e] = rows[e]
  <2>1. rows \in [Doc -> Row \cup {NoRow}]
    BY DEF TypeInv, StoreOK
  <2> QED BY <2>1 DEF TeammateStores, storeVars, followVars
<1>2. OldKept
  BY <1>1 DEF OldKept, Old
<1>3. CleanKept /\ CopiesStay /\ FollowKept /\ clock' >= clock
  BY <1>1, SameUnfollowed, Clocked DEF CleanKept, CopiesStay, FollowKept, WipeInv
<1> QED BY <1>1, <1>2, <1>3, WipeOutside

LEMMA WipeCycle ==
  ASSUME TypeInv, TypeInv', WipeInv, NEW p \in Proc, StartCycle(p) \/ Crash(p)
  PROVE  WipeInv'
<1>1. CASE StartCycle(p)
  <2> SUFFICES ASSUME NEW r, r = [Idle EXCEPT !.pc = "deletes", !.op = "cycle"] PROVE WipeInv'
    OBVIOUS
  <2>1. r \in Task /\ r.pc = "deletes" /\ r.op = "cycle"
    BY Revisions DEF Task, Idle, PC, Op
  <2>2. Free(r)
    BY <2>1, FreePlaces DEF Free
  <2>3. Begin(p, r, {}) /\ UNCHANGED <<rows, clock, copy, dirty, pullPoint, left, redirect, subscribed>>
    BY <1>1 DEF StartCycle, svc, storeVars, followVars
  <2> QED BY <2>1, <2>2, <2>3, FreeHome, WipeBegin
<1>2. CASE Crash(p)
  <2>1. Work(p, Idle) /\ AtHome
    BY <1>2, SameUnfollowed DEF Crash, AtHome, svc, storeVars, followVars, history, others
  <2> QED BY <2>1, FreeIdle, FreeHome, WipeQuiet
<1> QED BY <1>1, <1>2

\* A push, but for what it is about to settle, holds nothing.
LEMMA PushFree ==
  ASSUME TypeInv, NEW p \in Proc, at[p].pc \in Pushing \cup Pulling,
         NEW u, u.op = at[p].op, u.pc \in {"list", "send", "autoRead", "autoAdd", "pull"}
  PROVE  Free(u) /\ HomeOK(u)
<1>1. at[p].op # "remove"
  BY AtPlace, CyclesOn
<1>2. u.pc \notin Holding
  BY FreePlaces
<1>3. Free(u)
  BY <1>1, <1>2 DEF Free
<1> QED BY <1>3, FreeHome

LEMMA WipePush ==
  ASSUME TypeInv, TypeInv', WipeInv, NEW p \in Proc, Push(p)
  PROVE  WipeInv'
<1>1. CASE PushDeletes(p)
  <2> SUFFICES ASSUME NEW pc \in {"list", "pull"}, NEW u, u = [at[p] EXCEPT !.pc = pc], Work(p, u) PROVE WipeInv'
    BY <1>1 DEF PushDeletes, Then
  <2>1. /\ at[p].pc = "deletes" /\ rows' = [d \in Doc |-> IF d \in queue THEN NoRow ELSE rows[d]]
        /\ UNCHANGED <<clock, copy, dirty, excused, dropped, wiped, pullPoint, subscribed, left, redirect>>
    BY <1>1 DEF PushDeletes, At, storeVars, followVars, history, others
  <2>2. OldKept
    BY <2>1 DEF OldKept, Old
  <2>3. CleanKept /\ CopiesStay /\ FollowKept /\ clock' >= clock
    BY <2>1, SameUnfollowed, Clocked DEF CleanKept, CopiesStay, FollowKept, WipeInv
  <2>4. u.op = at[p].op /\ u.pc \in {"list", "pull"} /\ at[p].pc \in Pushing \cup Pulling
    BY <2>1, AtPlace DEF Task, Pushing
  <2>5. HomeOK(u)
    BY <2>4, PushFree
  <2> QED BY <2>1, <2>2, <2>3, <2>5, WipeMoves
<1>2. CASE PushDeletesFails(p)
  <2> SUFFICES ASSUME NEW pc \in {"list", "pull"}, NEW u, u = [at[p] EXCEPT !.pc = pc], Fails(p, {"deletes"}, u)
               PROVE  WipeInv'
    BY <1>2 DEF PushDeletesFails
  <2>1. u.op = at[p].op /\ u.pc \in {"list", "pull"} /\ at[p].pc \in Pushing \cup Pulling
    BY AtPlace DEF Fails, Task, Pushing
  <2>2. HomeOK(u)
    BY <2>1, PushFree
  <2> QED BY <2>2, WipeFails
<1>3. CASE ListCollections(p)
  <2> SUFFICES ASSUME NEW u, u = [at[p] EXCEPT !.pc = "send", !.todo = here] PROVE WipeInv'
    OBVIOUS
  <2>1. at[p].pc = "list" /\ Work(p, u) /\ AtHome
    BY <1>3, SameUnfollowed DEF ListCollections, At, AtHome, svc, storeVars, followVars, history, others
  <2>2. u.op = at[p].op /\ u.pc = "send" /\ at[p].pc \in Pushing \cup Pulling
    BY <2>1, AtPlace DEF Task, Pushing
  <2>3. HomeOK(u)
    BY <2>2, PushFree
  <2> QED BY <2>1, <2>3, WipeQuiet
<1>4. ASSUME NEW n \in Name, Send(p, n) PROVE WipeInv'
  <2> SUFFICES ASSUME NEW s, s = Unsent(n, Doc), NEW todo, todo = at[p].todo \ {n},
                      NEW v, v = [at[p] EXCEPT !.pc = "settle", !.name = n, !.sent = s, !.todo = todo],
                      NEW u, u = v \/ u \in Skips(p, n), Work(p, u)
               PROVE  WipeInv'
    BY <1>4 DEF Send
  <2>1. /\ at[p].pc = "send" /\ Upsert(n, Unsent(n, Doc))
        /\ UNCHANGED <<copy, dirty, subscribed, left, redirect, pullPoint, dropped, wiped>>
    BY <1>4 DEF Send, At, storeVars, followVars, others
  <2>2. at[p].pc \in Pushing \cup Pulling
    BY <2>1 DEF Pushing
  <2>3. CASE u = v
    <3>1. u.pc = "settle" /\ u.name = n /\ u.sent = s /\ u.op = at[p].op
      BY <2>3, AtPlace DEF Task
    <3>2. at[p].op # "remove"
      BY <2>2, AtPlace, CyclesOn
    <3>3. u.pc \in Settling /\ RemoveHome(u)
      BY <3>1, <3>2 DEF Settling, RemoveHome
    <3> QED BY <2>1, <3>1, <3>3, WipeService
  <2>4. CASE u \in Skips(p, n)
    <3>1. u.pc \in {"autoRead", "send"} /\ u.op = at[p].op
      BY <2>1, <2>4, SkipTask
    <3>2. HomeOK(u)
      BY <2>2, <3>1, PushFree
    <3> QED BY <2>1, <3>2, WipeService
  <2> QED BY <2>3, <2>4
<1>5. CASE SendFails(p)
  <2> SUFFICES ASSUME NEW n, NEW u \in Skips(p, n), Fails(p, {"send"}, u) PROVE WipeInv'
    BY <1>5 DEF SendFails
  <2>1. at[p].pc = "send"
    BY DEF Fails
  <2>2. u.op = at[p].op /\ u.pc \in {"autoRead", "send"} /\ at[p].pc \in Pushing \cup Pulling
    BY <2>1, SkipTask DEF Pushing
  <2>3. HomeOK(u)
    BY <2>2, PushFree
  <2> QED BY <2>3, WipeFails
<1>6. CASE PushSettle(p)
  <2> SUFFICES ASSUME NEW all, NEW u, u = [at[p] EXCEPT !.pc = "send", !.sent = NoDocs, !.name = Nowhere, !.all = all],
                      Work(p, u)
               PROVE  WipeInv'
    <3>1. \E u : /\ Work(p, u)
                 /\ \E all : u = [at[p] EXCEPT !.pc = "send", !.sent = NoDocs, !.name = Nowhere, !.all = all]
      BY <1>6 DEF PushSettle
    <3> QED BY <3>1
  <2>1. /\ at[p].pc = "settle" /\ at[p].pc \in Settling /\ Settle(at[p].name, at[p].sent)
        /\ UNCHANGED <<rows, clock, copy, excused, wiped, dropped, subscribed, left, redirect, pullPoint>>
    BY <1>6 DEF PushSettle, At, Settling, svc, followVars, history, others
  <2>2. OldKept /\ CleanKept /\ CopiesStay /\ FollowKept /\ UNCHANGED pullPoint /\ clock' >= clock
    BY <2>1, WipeSettles
  <2>3. u.op = at[p].op /\ u.pc = "send" /\ at[p].pc \in Pushing \cup Pulling
    BY <2>1, AtPlace DEF Task, Pushing
  <2>4. HomeOK(u)
    BY <2>3, PushFree
  <2> QED BY <2>2, <2>4, WipeMoves
<1>7. CASE SendDone(p)
  <2> SUFFICES ASSUME NEW u, u = [at[p] EXCEPT !.pc = "autoRead"] PROVE WipeInv'
    OBVIOUS
  <2>1. at[p].pc = "send" /\ Work(p, u) /\ AtHome
    BY <1>7, SameUnfollowed DEF SendDone, At, Then, AtHome, svc, storeVars, followVars, history, others
  <2>2. u.op = at[p].op /\ u.pc = "autoRead" /\ at[p].pc \in Pushing \cup Pulling
    BY <2>1, AtPlace DEF Task, Pushing
  <2>3. HomeOK(u)
    BY <2>2, PushFree
  <2> QED BY <2>1, <2>3, WipeQuiet
<1>8. CASE AutoSubscribe(p)
  <2> SUFFICES ASSUME NEW ns, ns = AutoSubscribes(p), NEW v, v = [Fresh(p, "autoAdd") EXCEPT !.all = ns],
                      NEW u, u \in {v, Fresh(p, "pull")}, Work(p, u)
               PROVE  WipeInv'
    BY <1>8 DEF AutoSubscribe
  <2>1. at[p].pc = "autoRead" /\ AtHome
    BY <1>8, SameUnfollowed DEF AutoSubscribe, At, AtHome, svc, storeVars, followVars, history, others
  <2>2. u.op = at[p].op /\ u.pc \in {"autoAdd", "pull"} /\ at[p].pc \in Pushing \cup Pulling
    <3>1. v.op = at[p].op /\ v.pc = "autoAdd" /\ Fresh(p, "pull").op = at[p].op /\ Fresh(p, "pull").pc = "pull"
      BY DEF Fresh, Idle
    <3> QED BY <2>1, <3>1 DEF Pushing
  <2>3. HomeOK(u)
    BY <2>2, PushFree
  <2> QED BY <2>1, <2>3, WipeQuiet
<1>9. CASE Subscribes(p, "autoAdd", at[p].all, Fresh(p, "pull"))
  <2> SUFFICES ASSUME NEW u, u = Fresh(p, "pull") PROVE WipeInv'
    OBVIOUS
  <2>1. u.op = at[p].op /\ u.pc = "pull" /\ at[p].pc \in Pushing \cup Pulling
    BY <1>9 DEF Subscribes, At, Fresh, Idle, Pushing
  <2>2. HomeOK(u)
    BY <2>1, PushFree
  <2> QED BY <1>9, <2>2, WipeSubscribes
<1> QED BY <1>1, <1>2, <1>3, <1>4, <1>5, <1>6, <1>7, <1>8, <1>9 DEF Push

\* What HomeOK says of a pull.
Puller(u) == u.op \in {"subscribe", "cycle"} /\ u.pc \in Pulling \ {"pull"}

LEMMA PullerElse ==
  ASSUME NEW u, Puller(u)
  PROVE  /\ RemoveHome(u) /\ Dropping(u) /\ MergeHome(u)
         /\ RemoveHome(u)' /\ Dropping(u)' /\ MergeHome(u)'
<1>1. u.pc \notin {"leave", "drop", "redirect", "mergeVerify", "mergeMove"} /\ u.op # "remove"
  BY DEF Puller, Pulling
<1> QED BY <1>1 DEF RemoveHome, Dropping, MergeHome, Moving

LEMMA PullerHome ==
  ASSUME NEW u, Puller(u), SentHome(u), MoveHome(u), Restores(u)
  PROVE  HomeOK(u)
BY PullerElse DEF HomeOK

LEMMA PullerNext ==
  ASSUME NEW u, Puller(u), SentHome(u)', MoveHome(u)', Restores(u)'
  PROVE  HomeOK(u)'
BY PullerElse DEF HomeOK

LEMMA Pulls ==
  ASSUME TypeInv, NEW p \in Proc, at[p].pc \in Pulling, NEW u, u.op = at[p].op, u.pc \in Pulling \ {"pull"}
  PROVE  Puller(u)
BY AtPlace, CyclesOn DEF Puller

\* Between its fetches and its drops a pull holds nothing.
Unladen(u) == u.pc \in {"recover", "recoverAdd", "choose", "each", "fetch", "clear"}

LEMMA NothingSent ==
  ASSUME NEW u, Unladen(u)
  PROVE  SentHome(u) /\ MoveHome(u) /\ SentHome(u)' /\ MoveHome(u)'
<1>1. u.pc \notin Answered /\ u.pc # "moveDrop"
  BY DEF Unladen, Answered, Settling
<1> QED BY <1>1 DEF SentHome, MoveHome

LEMMA OldPlace ==
  ASSUME TypeInv, WipeInv, NEW d \in Doc, Old(d)
  PROVE  rows[d].in \in Name /\ rows[d].in \notin Unfollowed
<1>1. rows[d] \in Row
  BY Numbers DEF Old
<1> QED BY <1>1 DEF Old, WipeInv, Row

\* A pull of a store that was wiped finds where this user's documents are.
LEMMA WipeRecovering ==
  ASSUME TypeInv, TypeInv', WipeInv, NEW p \in Proc,
         \/ StartPull(p) \/ Recover(p)
         \/ Subscribes(p, "recoverAdd", at[p].all, [at[p] EXCEPT !.pc = "choose", !.all = {}])
  PROVE  WipeInv'
<1>1. CASE StartPull(p)
  <2> SUFFICES ASSUME NEW pc, pc = IF pullPoint = 0 THEN "recover" ELSE "choose", NEW t, t = clock, NEW f, f = pullPoint,
                      NEW u, u = [Fresh(p, pc) EXCEPT !.start = t, !.from = f]
               PROVE  WipeInv'
    OBVIOUS
  <2>1. at[p].pc = "pull" /\ Work(p, u) /\ AtHome
    BY <1>1, SameUnfollowed DEF StartPull, At, AtHome, svc, storeVars, followVars, history, others
  <2>2. u.op = at[p].op /\ u.pc = pc /\ u.start = t /\ u.from = f /\ at[p].pc \in Pulling
    BY <2>1 DEF Fresh, Idle, Pulling
  <2>3. pc \in {"recover", "choose"} /\ (f = 0 => pc = "recover") /\ t > 0
    BY DEF WipeInv
  <2>4. Restores(u)
    BY <2>2, <2>3 DEF Restores, Coming, EachOf
  <2>5. Unladen(u) /\ u.pc \in Pulling \ {"pull"}
    BY <2>2, <2>3 DEF Unladen, Pulling
  <2>6. HomeOK(u)
    BY <2>2, <2>4, <2>5, Pulls, NothingSent, PullerHome
  <2> QED BY <2>1, <2>6, WipeQuiet
<1>2. CASE Recover(p)
  <2> SUFFICES ASSUME NEW ns, ns = OfUser \ Unfollowed,
                      NEW u, u = [at[p] EXCEPT !.pc = "recoverAdd", !.all = ns]
               PROVE  WipeInv'
    OBVIOUS
  <2>1. at[p].pc = "recover" /\ Work(p, u) /\ AtHome
    BY <1>2, SameUnfollowed DEF Recover, At, AtHome, svc, storeVars, followVars, history, others
  <2>2. u.op = at[p].op /\ u.pc = "recoverAdd" /\ u.start = at[p].start /\ u.from = at[p].from /\ u.all = ns
    <3>1. ns \subseteq Name
      BY DEF OfUser
    <3> QED BY <3>1, AtPlace DEF Task
  <2>3. at[p].pc \in Pulling /\ at[p].start > 0
    BY <2>1 DEF WipeInv, HomeOK, Restores, Pulling
  <2>4. Restores(u)
    <3>1. \A d \in Doc : Old(d) => rows[d].in \in ns
      BY OldPlace DEF Old, OfUser
    <3> QED BY <2>2, <2>3, <3>1 DEF Restores, Coming, EachOf
  <2>5. Unladen(u) /\ u.pc \in Pulling \ {"pull"}
    BY <2>2 DEF Unladen, Pulling
  <2>6. HomeOK(u)
    BY <2>2, <2>3, <2>4, <2>5, Pulls, NothingSent, PullerHome
  <2> QED BY <2>1, <2>6, WipeQuiet
<1>3. CASE Subscribes(p, "recoverAdd", at[p].all, [at[p] EXCEPT !.pc = "choose", !.all = {}])
  <2> SUFFICES ASSUME NEW all, all = at[p].all, NEW u, u = [at[p] EXCEPT !.pc = "choose", !.all = {}] PROVE WipeInv'
    OBVIOUS
  <2>1. at[p].pc = "recoverAdd" /\ Work(p, u) /\ AtHome /\ subscribed' = subscribed \cup all /\ rows' = rows
    BY <1>3, SameUnfollowed DEF Subscribes, At, AtHome, svc, storeVars, history, others
  <2>2. u.op = at[p].op /\ u.pc = "choose" /\ u.start = at[p].start /\ u.from = at[p].from
    BY AtPlace DEF Task
  <2>3. at[p].pc \in Pulling /\ at[p].start > 0 /\ Restores(at[p])
    BY <2>1 DEF WipeInv, HomeOK, Restores, Pulling
  <2>4. OldKept /\ CleanKept /\ CopiesStay /\ FollowKept /\ UNCHANGED pullPoint /\ clock' >= clock
    BY <2>1, AtHomeKeeps
  <2>5. Restores(u)'
    <3>1. \A d \in Doc : u.from = 0 /\ Old(d)' => rows'[d].in \in subscribed'
      BY <2>1, <2>2, <2>3, <2>4 DEF Restores, Coming, OldKept
    <3> QED BY <2>2, <2>3, <3>1 DEF Restores, Coming, EachOf
  <2>6. Unladen(u) /\ u.pc \in Pulling \ {"pull"}
    BY <2>2 DEF Unladen, Pulling
  <2>7. HomeOK(u)'
    BY <2>2, <2>3, <2>5, <2>6, Pulls, NothingSent, PullerNext
  <2> QED BY <2>1, <2>4, <2>7, WipeMoves
<1> QED BY <1>1, <1>2, <1>3

\* What a pull from nothing failed to read is given up.
LEMMA WipeGivesUp ==
  ASSUME TypeInv, TypeInv', WipeInv, NEW p \in Proc, RecoverFails(p) \/ FetchFails(p)
  PROVE  WipeInv'
<1> SUFFICES ASSUME NEW pc \in {"choose", "each"}, NEW u, u = [at[p] EXCEPT !.pc = pc], Work(p, u),
                    at[p].pc = IF pc = "choose" THEN "recover" ELSE "fetch",
                    RecoverFails(p) <=> pc = "choose", FetchFails(p) <=> pc = "each"
             PROVE  WipeInv'
  BY DEF RecoverFails, FetchFails, Then, At
<1>1. /\ UNCHANGED <<rows, clock, copy, dirty, excused, wiped, pullPoint, subscribed, left, redirect>>
      /\ dropped \subseteq dropped'
  BY DEF RecoverFails, FetchFails, svc, storeVars, followVars
<1>2. OldKept /\ CleanKept /\ CopiesStay /\ FollowKept /\ UNCHANGED pullPoint /\ clock' >= clock
  BY <1>1, OldStays, SameUnfollowed, Clocked DEF CleanKept, CopiesStay, FollowKept, WipeInv
<1>3. /\ u.pc = pc /\ u.op = at[p].op /\ u.name = at[p].name /\ u.todo = at[p].todo
      /\ u.start = at[p].start /\ u.from = at[p].from
  BY AtPlace DEF Task
<1>4. at[p].pc \in Pulling /\ at[p].start > 0 /\ Restores(at[p])
  BY DEF WipeInv, HomeOK, Restores, Pulling
<1>5. ASSUME NEW d \in Doc, u.from = 0, Old(d)' PROVE Coming(u, d)'
  <2>1. Old(d) /\ rows'[d] = rows[d] /\ rows[d].in \notin dropped'
    BY <1>2, <1>5 DEF OldKept, Old
  <2>2. CASE pc = "choose"
    <3>1. rows[d].in \in OfUser
      BY <2>1, OldPlace DEF Old, OfUser
    <3>2. rows[d].in \in subscribed
      BY <2>1, <2>2, <3>1 DEF RecoverFails
    <3> QED BY <1>1, <1>3, <2>1, <2>2, <3>2 DEF Coming, EachOf
  <2>3. CASE pc = "each"
    <3>1. rows[d].in # at[p].name
      BY <1>3, <1>5, <2>1, <2>3 DEF FetchFails, Recovering
    <3>2. Held(d) \/ rows[d].in \in at[p].todo
      BY <1>3, <1>4, <1>5, <2>1, <2>3, <3>1 DEF Restores, Coming, EachOf
    <3>3. Held(d)' \/ rows'[d].in \in u.todo
      BY <1>1, <1>3, <2>1, <3>2 DEF Held
    <3> QED BY <1>3, <2>3, <3>3 DEF Coming
  <2> QED BY <2>2, <2>3
<1>6. Restores(u)'
  BY <1>3, <1>4, <1>5 DEF Restores
<1>7. Unladen(u) /\ u.pc \in Pulling \ {"pull"}
  BY <1>3 DEF Unladen, Pulling
<1>8. HomeOK(u)'
  BY <1>3, <1>4, <1>6, <1>7, Pulls, NothingSent, PullerNext
<1> QED BY <1>2, <1>8, WipeMoves

\* It goes through all that is followed, and leaves what is not at home.
LEMMA WipeChoosing ==
  ASSUME TypeInv, TypeInv', WipeInv, NEW p \in Proc, Choose(p) \/ \E n \in Name : EachCollection(p, n)
  PROVE  WipeInv'
<1>1. CASE Choose(p)
  <2> SUFFICES ASSUME NEW whole, whole = Backfills(p) \ Unfollowed, NEW new, new = (subscribed \ Unfollowed) \ here,
                      NEW todo, todo = (here \ Unfollowed) \cup new \cup (whole \cap subscribed),
                      NEW marked, marked = pending \ Unfollowed,
                      NEW u, u = [at[p] EXCEPT !.pc = "each", !.todo = todo, !.all = todo, !.whole = whole,
                                               !.marked = marked]
               PROVE  WipeInv'
    OBVIOUS
  <2>1. at[p].pc = "choose" /\ Work(p, u) /\ AtHome
    BY <1>1, SameUnfollowed DEF Choose, At, AtHome, svc, followVars, history, others
  <2>2. u.op = at[p].op /\ u.pc = "each" /\ u.todo = todo /\ u.start = at[p].start /\ u.from = at[p].from
    BY AtPlace DEF Task
  <2>3. at[p].pc \in Pulling /\ at[p].start > 0 /\ Restores(at[p])
    BY <2>1 DEF WipeInv, HomeOK, Restores, Pulling
  <2>4. Restores(u)
    <3>1. \A d \in Doc : u.from = 0 /\ Old(d) => rows[d].in \in todo
      BY <2>1, <2>2, <2>3, OldPlace DEF Restores, Coming
    <3> QED BY <2>2, <2>3, <3>1 DEF Restores, Coming, EachOf
  <2>5. Unladen(u) /\ u.pc \in Pulling \ {"pull"}
    BY <2>2 DEF Unladen, Pulling
  <2>6. HomeOK(u)
    BY <2>2, <2>3, <2>4, <2>5, Pulls, NothingSent, PullerHome
  <2> QED BY <2>1, <2>6, WipeQuiet
<1>2. ASSUME NEW n \in Name, EachCollection(p, n) PROVE WipeInv'
  <2> SUFFICES ASSUME NEW ids \in {MovedOut(p, n), {}}, NEW pc, pc = IF ids = {} THEN "fetch" ELSE "moveDrop",
                      NEW todo, todo = at[p].todo \ {n},
                      NEW u, u = [at[p] EXCEPT !.pc = pc, !.ids = ids, !.name = n, !.todo = todo], Work(p, u)
               PROVE  WipeInv'
    BY <1>2 DEF EachCollection
  <2>1. at[p].pc = "each" /\ AtHome
    BY <1>2, SameUnfollowed DEF EachCollection, At, AtHome, svc, storeVars, followVars, history, others
  <2>2. /\ u.op = at[p].op /\ u.pc = pc /\ u.todo = todo /\ u.name = n /\ u.ids = ids
        /\ u.start = at[p].start /\ u.from = at[p].from
    BY AtPlace DEF Task
  <2>3. at[p].pc \in Pulling /\ at[p].start > 0 /\ Restores(at[p]) /\ pc \in {"fetch", "moveDrop"}
    BY <2>1 DEF WipeInv, HomeOK, Restores, Pulling
  <2>4. Restores(u)
    <3>1. ASSUME NEW d \in Doc, u.from = 0, Old(d) PROVE Held(d) \/ rows[d].in \in todo \/ n = rows[d].in
      BY <2>1, <2>2, <2>3, <3>1 DEF Restores, Coming, EachOf
    <3> QED BY <2>2, <2>3, <3>1 DEF Restores, Coming
  <2>5. SentHome(u)
    BY <2>2, <2>3 DEF SentHome, Answered, Settling
  <2>6. MoveHome(u)
    BY <2>2 DEF MoveHome, MovedOut
  <2>7. u.pc \in Pulling \ {"pull"}
    BY <2>2, <2>3 DEF Pulling
  <2>8. HomeOK(u)
    BY <2>2, <2>3, <2>4, <2>5, <2>6, <2>7, Pulls, PullerHome
  <2> QED BY <2>1, <2>8, WipeQuiet
<1> QED BY <1>1, <1>2

LEMMA WipeMoveDrop ==
  ASSUME TypeInv, TypeInv', WipeInv, NEW p \in Proc, MoveDrop(p)
  PROVE  WipeInv'
<1> SUFFICES ASSUME NEW n, n = at[p].name, NEW ids, ids = at[p].ids,
                    NEW u, u = [at[p] EXCEPT !.pc = "fetch", !.ids = {}]
             PROVE  WipeInv'
  OBVIOUS
<1>1. /\ at[p].pc = "moveDrop" /\ Work(p, u)
      /\ UNCHANGED <<rows, clock, subscribed, left, redirect, pullPoint, dropped, wiped>>
      /\ copy' = [copy EXCEPT ![n] = [d \in Doc |-> IF d \in ids THEN 0 ELSE @[d]]]
      /\ dirty' = dirty \ Copies(n, ids) /\ excused' = excused \cup (ids \cap Dirty(n))
  BY DEF MoveDrop, At, svc, followVars, others
<1>2. /\ u.pc = "fetch" /\ u.op = at[p].op /\ u.name = n /\ u.todo = at[p].todo
      /\ u.start = at[p].start /\ u.from = at[p].from
  BY AtPlace DEF Task
<1>3. /\ at[p].pc \in Pulling /\ at[p].start > 0 /\ Restores(at[p])
      /\ n \in Name /\ \A d \in ids : Old(d) => rows[d].in # n
  <2>1. n \in Name
    BY <1>1, AtPlace DEF Nameless
  <2>2. MoveHome(at[p]) /\ Restores(at[p]) /\ at[p].pc \in Pulling \ {"pull"}
    BY <1>1 DEF WipeInv, HomeOK, Pulling
  <2> QED BY <1>1, <2>1, <2>2 DEF MoveHome, Restores
<1>4. OldKept /\ FollowKept /\ UNCHANGED pullPoint /\ clock' >= clock
  BY <1>1, OldStays, SameUnfollowed, Clocked DEF FollowKept, WipeInv
<1>5. \A m \in Name, d \in Doc : copy'[m][d] = IF m = n /\ d \in ids THEN 0 ELSE copy[m][d]
  BY <1>1, <1>3, StoreFacts DEF Revs
<1>6. CopiesStay
  <2> SUFFICES ASSUME NEW d \in Doc, Old(d)', copy[n][d] > 0, d \in ids PROVE FALSE
    BY <1>5 DEF CopiesStay
  <2>1. Old(d) /\ d \notin excused'
    BY <1>4 DEF OldKept, Old
  <2>2. <<n, d>> \notin dirty
    BY <1>1, <2>1 DEF Dirty
  <2>3. rows[d].in = n
    BY <1>3, <2>1, <2>2 DEF WipeInv, CleanHome
  <2> QED BY <1>3, <2>1, <2>3
<1>7. CleanKept
  <2> SUFFICES ASSUME NEW m \in Name, NEW d \in Doc, copy'[m][d] > 0, <<m, d>> \notin dirty'
               PROVE  copy[m][d] > 0 /\ <<m, d>> \notin dirty
    BY DEF CleanKept
  <2>1. ~(m = n /\ d \in ids)
    BY <1>5
  <2>2. <<m, d>> \notin Copies(n, ids)
    BY <2>1 DEF Copies
  <2> QED BY <1>1, <1>5, <2>1, <2>2
<1>8. Restores(u)
  <2>1. ASSUME NEW d \in Doc, u.from = 0, Old(d) PROVE Held(d) \/ rows[d].in \in u.todo \/ n = rows[d].in
    BY <1>1, <1>2, <1>3, <2>1 DEF Restores, Coming, EachOf
  <2> QED BY <1>2, <1>3, <2>1 DEF Restores, Coming
<1>9. Unladen(u) /\ u.pc \in Pulling \ {"pull"}
  BY <1>2 DEF Unladen, Pulling
<1>10. HomeOK(u)
  BY <1>2, <1>3, <1>8, <1>9, Pulls, NothingSent, PullerHome
<1> QED BY <1>1, <1>4, <1>6, <1>7, <1>10, WipeMoves

\* A pull from nothing asks for all there is, this device's own writes too.
LEMMA WipePullFetch ==
  ASSUME TypeInv, TypeInv', HistInv, WipeInv, NEW p \in Proc, Fetch(p, "fetch", "apply", Own(p))
  PROVE  WipeInv'
<1> SUFFICES ASSUME NEW n, n = at[p].name, NEW own, own = Own(p), NEW since, since = Since(p),
                    NEW s, s = Feed(n, since, own), NEW u, u = [at[p] EXCEPT !.pc = "apply", !.sent = s]
             PROVE  WipeInv'
  OBVIOUS
<1>1. at[p].pc = "fetch" /\ Work(p, u) /\ AtHome
  BY SameUnfollowed DEF Fetch, At, AtHome, svc, storeVars, followVars, history, others
<1>2. /\ u.pc = "apply" /\ u.op = at[p].op /\ u.name = n /\ u.sent = s /\ u.todo = at[p].todo
      /\ u.start = at[p].start /\ u.from = at[p].from
  BY AtPlace DEF Task
<1>3. at[p].pc \in Pulling /\ at[p].start > 0 /\ Restores(at[p])
  BY <1>1 DEF WipeInv, HomeOK, Restores, Pulling
<1>4. ASSUME NEW d \in Doc, at[p].from = 0, Old(d), rows[d].in = n PROVE s[d] > 0
  <2>1. since = 0 /\ own
    BY <1>4 DEF Since, Own, Recovering
  <2>2. rows[d] # NoRow /\ rows[d].at = 1 /\ rows[d].rev > 0
    BY <1>4 DEF Old, HistInv, Stamped
  <2> QED BY <1>4, <2>1, <2>2 DEF Feed
<1>5. Restores(u)
  <2>1. ASSUME NEW d \in Doc, u.from = 0, Old(d)
        PROVE  Held(d) \/ rows[d].in \in u.todo \/ (n = rows[d].in /\ s[d] > 0)
    BY <1>1, <1>2, <1>3, <1>4, <2>1 DEF Restores, Coming, EachOf
  <2> QED BY <1>2, <1>3, <2>1 DEF Restores, Coming
<1>6. SentHome(u)
  BY <1>2, FeedHome DEF SentHome
<1>7. MoveHome(u)
  BY <1>2 DEF MoveHome
<1>8. u.pc \in Pulling \ {"pull"}
  BY <1>2 DEF Pulling
<1>9. HomeOK(u)
  BY <1>2, <1>3, <1>5, <1>6, <1>7, <1>8, Pulls, PullerHome
<1> QED BY <1>1, <1>9, WipeQuiet

LEMMA WipeApplied ==
  ASSUME TypeInv, TypeInv', WipeInv, NEW p \in Proc, Applied(p)
  PROVE  WipeInv'
<1> SUFFICES ASSUME NEW n, n = at[p].name, NEW sent, sent = at[p].sent,
                    NEW pc, pc = IF n \in at[p].marked THEN "clear" ELSE "each",
                    NEW v, v = [at[p] EXCEPT !.pc = pc], NEW u, u = [v EXCEPT !.sent = NoDocs]
             PROVE  WipeInv'
  OBVIOUS
<1>1. at[p].pc = "apply" /\ Work(p, u) /\ ApplyPage(p, "apply", v)
  BY DEF Applied, Apply, ApplyPage, At
<1>2. u.pc = pc /\ u.op = at[p].op /\ u.todo = at[p].todo /\ u.start = at[p].start /\ u.from = at[p].from
  BY AtPlace DEF Task
<1>3. at[p].pc \in Pulling /\ at[p].start > 0 /\ Restores(at[p]) /\ "apply" \in Answered \ Settling /\ pc \in {"clear", "each"}
  BY <1>1 DEF WipeInv, HomeOK, Restores, Pulling, Answered, Settling
<1>4. /\ OldKept /\ CleanKept /\ CopiesStay /\ FollowKept /\ UNCHANGED pullPoint /\ clock' >= clock
      /\ \A d \in Doc : Old(d) /\ sent[d] > 0 => Held(d)'
  BY <1>1, <1>3, PageHome
<1>5. Restores(u)'
  <2>1. ASSUME NEW d \in Doc, u.from = 0, Old(d)' PROVE Held(d)' \/ rows'[d].in \in u.todo
    <3>1. Old(d) /\ rows'[d] = rows[d]
      BY <1>4, <2>1 DEF OldKept
    <3>2. Held(d) => Held(d)'
      BY <1>4, <2>1 DEF CopiesStay, Held
    <3>3. Held(d) \/ rows[d].in \in at[p].todo \/ sent[d] > 0
      BY <1>1, <1>2, <1>3, <2>1, <3>1 DEF Restores, Coming, EachOf
    <3> QED BY <1>2, <1>4, <3>1, <3>2, <3>3
  <2> QED BY <1>2, <1>3, <2>1 DEF Restores, Coming
<1>6. Unladen(u) /\ u.pc \in Pulling \ {"pull"}
  BY <1>2, <1>3 DEF Unladen, Pulling
<1>7. HomeOK(u)'
  BY <1>2, <1>3, <1>5, <1>6, Pulls, NothingSent, PullerNext
<1> QED BY <1>1, <1>3, <1>7, WipePage

\* A pull from nothing that is done has brought all there was.
LEMMA WipeEndPull ==
  ASSUME TypeInv, TypeInv', HistInv, WipeInv, NEW p \in Proc, EndPull(p)
  PROVE  WipeInv'
<1>1. /\ at[p].pc = "each" /\ at[p].todo = {} /\ Work(p, Idle)
      /\ UNCHANGED <<rows, clock, copy, dirty, excused, dropped, wiped, subscribed, left, redirect>>
  BY DEF EndPull, At, svc, storeVars, followVars, history, others
<1>2. OldKept /\ CleanKept /\ CopiesStay /\ FollowKept
  BY <1>1, OldStays, SameUnfollowed DEF CleanKept, CopiesStay, FollowKept, WipeInv
<1>3. HeldKept /\ \A q \in Proc : IntoKept(at[q])
  BY <1>2, AtPlace, IdleOK, CopiesKeep
<1>4. CleanHome'
  BY <1>2 DEF WipeInv, CleanHome, CleanKept, OldKept
<1>5. \A d \in Doc : Old(d) => Held(d)
  <2>1. at[p].pc \in Pulling \ {"pull"} /\ at[p].pc \in EachOf
    BY <1>1 DEF Pulling, EachOf
  <2>2. Restores(at[p]) /\ at[p].from = pullPoint /\ at[p].from \in Nat
    BY <2>1, PullFields DEF WipeInv, HomeOK, HistInv, PullOK
  <2>3. CASE at[p].from = 0
    BY <1>1, <2>1, <2>2, <2>3 DEF Restores, Coming
  <2>4. CASE at[p].from > 0
    BY <2>2, <2>4 DEF WipeInv
  <2> QED BY <2>2, <2>3, <2>4
<1>6. (\A d \in Doc : Old(d) => Held(d))'
  BY <1>2, <1>3, <1>5 DEF OldKept, HeldKept
<1>7. at'[p] = Idle /\ Alone(p)
  BY <1>1, WorksAlone
<1>8. ASSUME NEW q \in Proc PROVE HomeOK(at[q])'
  <2> SUFFICES ASSUME NEW k, k = at[q], NEW m, m = at'[q] PROVE HomeOK(m)'
    BY DEF HomeOK, SentHome, RemoveHome, Dropping, MergeHome, MoveHome, Restores, Coming, Moving
  <2>1. CASE q = p
    <3>1. m = Idle
      BY <1>7, <2>1
    <3> QED BY <3>1, FreeIdle, FreeHome
  <2>2. CASE q # p
    <3>1. SamePull(k, m) /\ HomeOK(k) /\ IntoKept(k) /\ k.ids \subseteq Doc
      BY <1>3, <1>7, <2>2, AtPlace DEF Alone, WipeInv
    <3> QED BY <1>2, <1>3, <3>1, HomeKept
  <2> QED BY <2>1, <2>2
<1> QED BY <1>1, <1>2, <1>4, <1>6, <1>8 DEF WipeInv, FollowKept

LEMMA WipePull ==
  ASSUME TypeInv, TypeInv', HistInv, WipeInv, NEW p \in Proc, Pull(p)
  PROVE  WipeInv'
<1>1. CASE Fails(p, {"recover", "fetch"}, Idle)
  BY <1>1, FreeIdle, FreeHome, WipeFails
<1>2. CASE PullClear(p)
  <2> SUFFICES ASSUME NEW n, n = at[p].name, NEW marked, marked = at[p].marked \ {n},
                      NEW u, u = [at[p] EXCEPT !.pc = "each", !.marked = marked]
               PROVE  WipeInv'
    OBVIOUS
  <2>1. at[p].pc = "clear" /\ Work(p, u) /\ AtHome
    BY <1>2, SameUnfollowed DEF PullClear, ClearBackfill, At, AtHome, svc, storeVars, history, others
  <2>2. u.op = at[p].op /\ u.pc = "each" /\ u.todo = at[p].todo /\ u.start = at[p].start /\ u.from = at[p].from
    BY AtPlace DEF Task
  <2>3. at[p].pc \in Pulling /\ at[p].start > 0 /\ Restores(at[p])
    BY <2>1 DEF WipeInv, HomeOK, Restores, Pulling
  <2>4. Restores(u)
    <3>1. ASSUME NEW d \in Doc, u.from = 0, Old(d) PROVE Held(d) \/ rows[d].in \in u.todo
      BY <2>1, <2>2, <2>3, <3>1 DEF Restores, Coming, EachOf
    <3> QED BY <2>2, <2>3, <3>1 DEF Restores, Coming
  <2>5. Unladen(u) /\ u.pc \in Pulling \ {"pull"}
    BY <2>2 DEF Unladen, Pulling
  <2>6. HomeOK(u)
    BY <2>2, <2>3, <2>4, <2>5, Pulls, NothingSent, PullerHome
  <2> QED BY <2>1, <2>6, WipeQuiet
<1> QED BY <1>1, <1>2, WipeRecovering, WipeGivesUp, WipeChoosing, WipeMoveDrop, WipePullFetch, WipeApplied, WipeEndPull DEF Pull

LEMMA WipeVisiting ==
  ASSUME TypeInv, TypeInv', WipeInv, NEW p \in Proc, Visiting(p)
  PROVE  WipeInv'
<1>1. ASSUME NEW n \in Name, Visit(p, n) PROVE WipeInv'
  <2> SUFFICES ASSUME NEW whole, whole = IF n \in subscribed /\ n \notin pending THEN {} ELSE {n},
                      NEW marked, marked = pending \cap {n}, NEW f, f = pullPoint,
                      NEW r, r = [Idle EXCEPT !.pc = "visitFetch", !.op = "visit", !.name = n, !.from = f,
                                              !.whole = whole, !.marked = marked]
               PROVE  WipeInv'
    OBVIOUS
  <2>1. f \in Nat /\ whole \subseteq Name /\ marked \subseteq Name
    BY Moments
  <2>2. r \in Task
    BY <2>1, VisitTask
  <2>3. r.pc = "visitFetch" /\ r.op = "visit"
    BY DEF Idle
  <2>4. HomeOK(r)
    BY <2>3, FreePlaces, FreeHome DEF Free
  <2>5. Begin(p, r, {}) /\ UNCHANGED <<rows, clock, copy, dirty, pullPoint, left, redirect, subscribed>>
    BY <1>1 DEF Visit, svc, storeVars, followVars
  <2> QED BY <2>2, <2>4, <2>5, WipeBegin
<1>2. CASE Fetch(p, "visitFetch", "visitApply", FALSE)
  <2>1. at[p].pc = "visitFetch"
    BY <1>2 DEF Fetch, At
  <2>2. at[p].op # "remove"
    BY <2>1, AtPlace DEF TaskOK, OnItsWay
  <2> QED BY <1>2, <2>2, WipeFetch
<1>3. "visitApply" \in Answered \ Settling
  BY DEF Answered, Settling
<1>4. CASE Apply(p, "visitApply", [at[p] EXCEPT !.pc = IF at[p].marked = {} THEN "visitFollow" ELSE "visitDone"])
  <2> SUFFICES ASSUME NEW pc, pc = IF at[p].marked = {} THEN "visitFollow" ELSE "visitDone",
                      NEW v, v = [at[p] EXCEPT !.pc = pc], NEW u, u = [v EXCEPT !.sent = NoDocs]
               PROVE  WipeInv'
    OBVIOUS
  <2>1. at[p].pc = "visitApply" /\ Work(p, u) /\ ApplyPage(p, "visitApply", v)
    BY <1>4 DEF Apply, ApplyPage, At
  <2>2. pc \in PC \ Holding
    BY FreePlaces
  <2>3. Free(v) /\ v \in Task
    BY <2>1, <2>2, FreeThen
  <2>4. u.pc = v.pc /\ u.op = v.op
    BY <2>3 DEF Task
  <2>5. HomeOK(u)
    BY <2>3, <2>4, FreeHome DEF Free
  <2> QED BY <1>3, <2>1, <2>5, WipePage
<1>5. CASE VisitTimesOut(p)
  <2>1. CASE Fails(p, {"visitFetch", "visitApply"}, Idle)
    BY <2>1, FreeIdle, FreeHome, WipeFails
  <2>2. CASE ApplyPage(p, "visitApply", Idle)
    <3> SUFFICES ASSUME NEW u, u = [Idle EXCEPT !.sent = NoDocs] PROVE WipeInv'
      OBVIOUS
    <3>1. Work(p, u)
      BY <2>2 DEF ApplyPage
    <3>2. u.pc = Idle.pc /\ u.op = Idle.op
      BY DEF Idle
    <3>3. HomeOK(u)
      BY <3>2, FreeIdle, FreeHome DEF Free
    <3> QED BY <1>3, <2>2, <3>1, <3>3, WipePage
  <2> QED BY <1>5, <2>1, <2>2 DEF VisitTimesOut
<1>6. CASE ClearBackfill(p, "visitDone", at[p].marked, [at[p] EXCEPT !.pc = "visitFollow", !.marked = {}])
  <2> SUFFICES ASSUME NEW u, u = [at[p] EXCEPT !.pc = "visitFollow", !.marked = {}] PROVE WipeInv'
    OBVIOUS
  <2>1. at[p].pc = "visitDone" /\ Work(p, u) /\ AtHome
    BY <1>6, SameUnfollowed DEF ClearBackfill, At, AtHome, svc, storeVars, history, others
  <2>2. u.pc = "visitFollow" /\ u.op = at[p].op /\ "visitFollow" \notin Holding
    BY AtPlace, FreePlaces DEF Task
  <2>3. HomeOK(u)
    BY <2>1, <2>2, FreeOn, FreeHome
  <2> QED BY <2>1, <2>3, WipeQuiet
<1>7. CASE Subscribes(p, "visitFollow", at[p].whole, Idle)
  BY <1>7, FreeIdle, FreeHome, WipeSubscribes
<1> QED BY <1>1, <1>2, <1>4, <1>5, <1>6, <1>7 DEF Visiting

LEMMA WipeInit == Init => WipeInv
<1> SUFFICES ASSUME Init PROVE WipeInv
  OBVIOUS
<1>1. clock > 0 /\ Unfollowed \subseteq dropped
  BY DEF Init, Unfollowed
<1>2. ASSUME NEW n \in Name, NEW d \in Doc, wiped PROVE copy[n][d] = 0
  BY <1>2 DEF Init
<1>3. CleanHome
  BY <1>2 DEF CleanHome, Old
<1>4. wiped => pullPoint = 0
  BY DEF Init
<1>5. ASSUME NEW p \in Proc PROVE HomeOK(at[p])
  <2>1. at[p] = Idle
    BY DEF Init
  <2> QED BY <2>1, FreeIdle, FreeHome
<1> QED BY <1>1, <1>3, <1>4, <1>5 DEF WipeInv, Old

LEMMA WipeNext == TypeInv /\ LossInv /\ HistInv /\ WipeInv /\ [Next]_vars => WipeInv'
<1> SUFFICES ASSUME TypeInv, LossInv, HistInv, WipeInv, [Next]_vars PROVE WipeInv'
  OBVIOUS
<1>0. TypeInv'
  BY TypeStep
<1>1. ASSUME NEW p \in Session, Creating(p) \/ Subscribing(p) \/ Removing(p) \/ Merging(p) \/ Writing(p)
      PROVE  WipeInv'
  <2>1. p \in Proc
    BY DEF Proc
  <2> QED BY <1>0, <1>1, <2>1, WipeCreating, WipeSubscribing, WipeRemoving, WipeMerging, WipeWriting
<1>2. ASSUME NEW p \in Cycle, StartCycle(p) PROVE WipeInv'
  BY <1>0, <1>2, WipeCycle DEF Proc
<1>3. ASSUME NEW p \in Cycle \cup Session, Push(p) \/ Pull(p) PROVE WipeInv'
  BY <1>0, <1>3, WipePush, WipePull DEF Proc
<1>4. ASSUME NEW p \in Hook, Visiting(p) PROVE WipeInv'
  BY <1>0, <1>4, WipeVisiting DEF Proc
<1>5. ASSUME NEW p \in Proc, Crash(p) PROVE WipeInv'
  BY <1>0, <1>5, WipeCycle
<1>6. ASSUME NEW n \in Name, NEW d \in Doc, Edit(n, d) \/ TeammateStores(d, n) PROVE WipeInv'
  BY <1>0, <1>6, WipeEdit, WipeTeammate
<1>7. CASE UNCHANGED vars
  <2>1. AtHome /\ UNCHANGED <<at, pullPoint>>
    BY <1>7, SameUnfollowed DEF vars, AtHome, storeVars, followVars, history, others
  <2> QED BY <1>0, <2>1, AtHomeKeeps, WipeOutside
<1> QED BY <1>1, <1>2, <1>3, <1>4, <1>5, <1>6, <1>7 DEF Next

\* A wiped store that has pulled holds what is old.
LEMMA WipeWhole == WipeInv => Recovered
<1> SUFFICES ASSUME WipeInv, wiped, pullPoint > 0, NEW d \in Mine \ excused,
                    rows[d] # NoRow, rows[d].at = 1, rows[d].in \notin dropped \cup Unfollowed
             PROVE  Held(d)
  BY DEF Recovered, Held
<1>1. Old(d) /\ d \in Doc
  BY FollowingAssumption DEF Old
<1> QED BY <1>1 DEF WipeInv

\* A collection followed again after it was left has its teammates' documents
\* once the backfill that rejoinCollection marked is done (getPendingBackfills
\* in pullFromRemote, the prompt hook's first visit), and a store wiped or new
\* has this user's own documents again once it has pulled (pullFromRemote's
\* recovery), whatever ran, failed or crashed in between.
THEOREM HistoryComesBack == Spec => []HistoryBack
<1> DEFINE Inv == TypeInv /\ LossInv /\ HistInv /\ WipeInv
<1>1. Init => Inv
  BY TypeInit, LossInit, HistInit, WipeInit
<1>2. Inv /\ [Next]_vars => Inv'
  BY TypeStep, LossStep, HistNext, WipeNext
<1>3. Inv => HistoryBack
  BY HistWhole, WipeWhole DEF HistoryBack
<1> QED BY <1>1, <1>2, <1>3, PTL DEF Spec
=============================================================================
