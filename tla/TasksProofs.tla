----------------------------- MODULE TasksProofs -----------------------------
(***************************************************************************)
(* Proofs about Tasks, for any number of sessions, tasks and calls and any *)
(* bounds: a claim is kept or told, a write keeps what others wrote, a     *)
(* number goes to one task and a completion makes one next occurrence.     *)
(***************************************************************************)
EXTENDS Tasks, FiniteSetTheorems, WellFoundedInduction, TLAPS

Pc == {"idle", "claim", "note", "try", "lock", "write", "release", "delete",
       "max", "number", "taken", "add"}
Op == {"none", "start", "next", "finish", "aside", "delete", "create", "link", "unlink"}
Starting == {"start", "next"}
Linking == {"link", "unlink"}
Numbering == {"max", "number", "taken", "add"}
Counter == {"service", "machine"}
Via == Counter \cup {"max"}

Call == [pc : Pc, op : Op, on : Id \cup {0}, other : Id \cup {0}, n : Nat, to : Status,
         reclaim : BOOLEAN, seen : Task \cup {NoTask}, cur : Task \cup {NoTask},
         claim : {"none", "granted", "unshared"}, queue : SUBSET Id, floor : Nat,
         via : Via \cup {"none"}, alone : BOOLEAN]

StoreOK ==
  /\ tasks \in [Id -> Task \cup {NoTask}]
  /\ lease \in [Id -> [by : Session \cup {Other, NoOne}, live : BOOLEAN]]
  /\ \A i \in Id : lease[i].live => lease[i].by # NoOne
  /\ watch \in [Session -> SUBSET Id]
  /\ told \in SUBSET (Session \X Id)
  /\ started \in [Session -> SUBSET Id]

RetryOK ==
  /\ retry \in [pc : {"idle", "claim", "clear"}, todo : SUBSET (Session \X Id),
               claim : {"none", "granted", "refused"}]
  /\ retry.pc # "idle" => retry.todo # {}
  /\ retry.pc = "clear" => retry.claim \in {"granted", "refused"}

\* What a call knows at each of its steps.
CallOK(c) ==
  /\ c.pc # "idle" => c.n \in 1..calls
  /\ c.pc \in {"claim", "note", "lock", "write", "release", "delete"} => c.on \in Id
  /\ c.pc = "write" => c.cur \in Task
  /\ c.pc \in {"claim", "note", "try"} => c.op \in Starting
  /\ c.pc \in {"release"} \cup Numbering => c.op \notin Starting \cup Linking
  /\ c.pc = "delete" => c.op = "delete"
  /\ c.op = "finish" => c.on \in Id
  /\ c.op \in Linking => c.other \in Id
  /\ c.op \in Starting => c.to = "in_progress"
  /\ c.pc = "note" => c.claim = "granted"
  /\ c.pc \in {"lock", "write"} => (c.op \in Starting <=> c.claim # "none")
  /\ c.pc \in Numbering /\ c.op = "finish" => Recurs(c)
  /\ c.pc \in {"taken", "add"} => c.floor \in Id /\ c.via \in Via

CallsOK ==
  /\ calls \in 0..MaxCalls
  /\ call \in [Session -> Call]
  /\ \A s \in Session : CallOK(call[s])

\* A document's lock is held by the call that writes it.
LockInv ==
  /\ lock \in [Id -> Session \cup {NoOne}]
  /\ \A i \in Id : lock[i] # NoOne => call[lock[i]].pc = "write" /\ call[lock[i]].on = i
  /\ \A s \in Session : call[s].pc = "write" => lock[call[s].on] = s

\* The task as it was read under the lock is as it is now, but for its mark,
\* unless it was deleted, or deleted and made again, meanwhile.
AsRead(t, u) ==
  \/ t = NoTask
  \/ t.status = u.status /\ t.closed = u.closed /\ t.deps = u.deps /\ t.blocks = u.blocks
  \/ t.status = "pending" /\ t.closed = 0 /\ t.deps = {} /\ t.blocks = {}
ReadInv == \A s \in Session : call[s].pc = "write" => AsRead(tasks[call[s].on], call[s].cur)

\* A session's claim is noted, marked, wiped or told.
Noted(s, i) == i \in watch[s] \/ <<s, i>> \in told
Kept(s, i) ==
  Noted(s, i) \/ <<s, i>> \in wiped \/ (tasks[i] # NoTask /\ tasks[i].unshared = s)
Claims(c, i) == c.pc \in {"note", "lock", "write"} /\ c.on = i /\ c.claim # "none"
CallKept(s, c) ==
  /\ \A i \in started[s] : tasks[i] # NoTask => Kept(s, i) \/ Claims(c, i)
  /\ c.pc = "release" => c.on \notin started[s]
  /\ c.pc \in {"lock", "write"} /\ c.claim = "granted" => Noted(s, c.on)
  /\ c.pc = "write" /\ c.claim = "unshared" /\ c.cur.unshared = s => Kept(s, c.on)
KeptInv == \A s \in Session : CallKept(s, call[s])

\* A counter's numbers are each given once.
Given(c) == c.pc \in {"taken", "add"} /\ c.via # "max"
NumberOf(s, c) ==
  Given(c) =>
    /\ c.floor <= numbers[c.via]
    /\ from[c.floor] # c.via
    /\ \A u \in Session : u # s /\ Given(call[u]) /\ call[u].via = c.via => call[u].floor # c.floor
NumberInv ==
  /\ numbers \in [Counter -> Nat]
  /\ from \in [Id -> Via \cup {"none"}]
  /\ \A i \in Id : from[i] \in Counter => i <= numbers[from[i]]
  /\ \A s \in Session : NumberOf(s, call[s])

\* Who has completed a recurring task and not made its next occurrence yet.
Owes(c, i) == c.op = "finish" /\ c.on = i /\ c.pc \in {"release"} \cup Numbering /\ Recurs(c)
Owed(i) == {s \in Session : Owes(call[s], i)}
NextInv ==
  /\ closes \in [Id -> Nat]
  /\ nexts \in [Id -> Nat]
  /\ \A i \in Id : nexts[i] + Cardinality(Owed(i)) <= closes[i]

Inv ==
  /\ StoreOK /\ RetryOK /\ CallsOK /\ LockInv /\ ReadInv /\ KeptInv /\ NumberInv /\ NextInv
-----------------------------------------------------------------------------
LEMMA Constants ==
  /\ Session # {} => NoOne \notin Session
  /\ NoOne \notin Session /\ NoTask \notin Task /\ IsFiniteSet(Session)
  /\ MaxId \in Nat /\ MaxCalls \in Nat /\ 0 \notin Id /\ Id \subseteq Nat
  BY TasksAssumption, TaskAssumption DEF Id

\* The greatest of a finite set of numbers.
LEMMA HasMax ==
  ASSUME NEW S, S \subseteq Nat, IsFiniteSet(S), S # {}
  PROVE  Max(S) \in S /\ \A y \in S : Max(S) >= y
<1> DEFINE Above(x) == {y \in S : y > x}
           T == {Above(x) : x \in S}
<1>0. T # {}
  OBVIOUS
<1>1. T \subseteq FiniteSubsetsOf(S)
  BY FS_FiniteSubsetsOfFinite
<1>2. \E A \in T : \A B \in T : <<B, A>> \notin StrictSubsetOrdering(S)
  <2> HIDE DEF T
  <2> QED
    BY <1>0, <1>1, FS_StrictSubsetOrderingWellFounded, WFMin
<1>3. PICK m \in S : \A B \in T : <<B, Above(m)>> \notin StrictSubsetOrdering(S)
  BY <1>2
<1>4. ASSUME NEW y \in S, y > m
      PROVE  FALSE
  <2>1. y \in Above(m) /\ y \notin Above(y)
    BY <1>4
  <2>2. \A z \in Nat : z > y => z > m
    <3>1. y \in Nat /\ m \in Nat
      OBVIOUS
    <3>2. QED
      BY <1>4, <3>1
  <2>3. Above(y) \subseteq Above(m)
    BY <2>2
  <2>4. Above(y) \in T
    OBVIOUS
  <2>5. Above(y) \subseteq S /\ Above(m) \subseteq S /\ Above(y) # Above(m)
    BY <2>1
  <2> HIDE DEF Above, T
  <2>6. <<Above(y), Above(m)>> \in StrictSubsetOrdering(S)
    BY <2>3, <2>5 DEF StrictSubsetOrdering
  <2>7. QED
    BY <2>4, <2>6, <1>3
<1>5. \A y \in S : m >= y
  BY <1>4
<1>6. QED
  BY <1>5 DEF Max

LEMMA CallAt ==
  ASSUME call \in [Session -> Call], NEW s \in Session, NEW d,
         call' = [call EXCEPT ![s] = d]
  PROVE  /\ call'[s] = d
         /\ \A u \in Session : u # s => call'[u] = call[u]
         /\ d \in Call => call' \in [Session -> Call]
  OBVIOUS

\* A call moves on to d.
LEMMA CallMoves ==
  ASSUME CallsOK, NEW s \in Session, NEW d \in Call, call' = [call EXCEPT ![s] = d],
         calls' \in calls..MaxCalls, CallOK(d)'
  PROVE  CallsOK'
<1>1. /\ call'[s] = d
      /\ \A u \in Session : u # s => call'[u] = call[u]
      /\ call' \in [Session -> Call]
  BY CallAt DEF CallsOK
<1>2. calls' \in 0..MaxCalls
  BY Constants DEF CallsOK
<1>3. ASSUME NEW u \in Session, u # s
      PROVE  CallOK(call[u])'
  <2>1. CallOK(call[u]) /\ call'[u] = call[u]
    BY <1>1, <1>3 DEF CallsOK
  <2>2. 1..calls \subseteq 1..calls'
    BY Constants DEF CallsOK
  <2>3. QED
    BY <2>1, <2>2 DEF CallOK
<1>4. CallOK(call[s])'
  BY <1>1 DEF CallOK
<1>5. QED
  BY <1>1, <1>2, <1>3, <1>4 DEF CallsOK

LEMMA CallsStay ==
  ASSUME CallsOK, UNCHANGED calls
  PROVE  calls' \in calls..MaxCalls
  BY Constants DEF CallsOK

LEMMA CallStays ==
  ASSUME CallsOK, UNCHANGED <<call, calls>>
  PROVE  CallsOK'
  BY DEF CallsOK, CallOK

\* The lock's holders stay when a call that does not write moves on to another.
LEMMA LockStays ==
  ASSUME CallsOK, LockInv, NEW s \in Session, NEW d, call' = [call EXCEPT ![s] = d],
         call[s].pc # "write", d.pc # "write", UNCHANGED lock
  PROVE  LockInv'
<1>1. /\ call'[s] = d
      /\ \A u \in Session : u # s => call'[u] = call[u]
  BY CallAt DEF CallsOK
<1>2. QED
  BY <1>1, Constants DEF LockInv

LEMMA ReadStays ==
  ASSUME CallsOK, ReadInv, NEW s \in Session, NEW d, call' = [call EXCEPT ![s] = d],
         d.pc # "write", UNCHANGED tasks
  PROVE  ReadInv'
<1>1. /\ call'[s] = d
      /\ \A u \in Session : u # s => call'[u] = call[u]
  BY CallAt DEF CallsOK
<1>2. QED
  BY <1>1 DEF ReadInv

\* What the other sessions have claimed stays known.
Stays(u) ==
  /\ started'[u] \subseteq started[u]
  /\ \A i \in Id : /\ Noted(u, i) => Noted(u, i)'
                   /\ Kept(u, i) => Kept(u, i)'
                   /\ i \in started'[u] /\ tasks'[i] # NoTask => tasks[i] # NoTask

LEMMA CallKeptStays ==
  ASSUME CallsOK, StoreOK, NEW u \in Session, CallKept(u, call[u]), Stays(u), call'[u] = call[u]
  PROVE  CallKept(u, call[u])'
<1> DEFINE c == call[u]
<1>1. CallOK(c) /\ started[u] \subseteq Id
  BY DEF CallsOK, StoreOK
<1>2. \A i \in started'[u] : tasks'[i] # NoTask => Kept(u, i)' \/ Claims(c, i)
  BY <1>1 DEF CallKept, Stays
<1>3. c.pc = "release" => c.on \notin started'[u]
  BY <1>1 DEF CallKept, Stays
<1>4. c.pc \in {"lock", "write"} => c.on \in Id
  BY <1>1 DEF CallOK
<1>5. c.pc \in {"lock", "write"} /\ c.claim = "granted" => Noted(u, c.on)'
  BY <1>4 DEF CallKept, Stays
<1>6. c.pc = "write" /\ c.claim = "unshared" /\ c.cur.unshared = u => Kept(u, c.on)'
  BY <1>4 DEF CallKept, Stays
<1>7. QED
  BY <1>2, <1>3, <1>5, <1>6 DEF CallKept, Claims

LEMMA KeptStays ==
  ASSUME CallsOK, StoreOK, KeptInv, NEW s \in Session, NEW d, call' = [call EXCEPT ![s] = d],
         \A u \in Session : u # s => Stays(u), CallKept(s, d)'
  PROVE  KeptInv'
<1>1. /\ call'[s] = d
      /\ \A u \in Session : u # s => call'[u] = call[u]
  BY CallAt DEF CallsOK
<1>2. \A u \in Session : u # s => CallKept(u, call[u])'
  BY <1>1, CallKeptStays DEF KeptInv
<1>3. CallKept(s, call[s])'
  BY <1>1 DEF CallKept
<1>4. QED
  BY <1>2, <1>3 DEF KeptInv

LEMMA StaysAll ==
  ASSUME CallsOK, StoreOK, KeptInv, UNCHANGED call, \A u \in Session : Stays(u)
  PROVE  KeptInv'
  BY CallKeptStays DEF KeptInv

LEMMA StaysWhenUnchanged ==
  ASSUME UNCHANGED <<tasks, watch, told, started, wiped>>, NEW u \in Session
  PROVE  Stays(u)
  BY DEF Stays, Noted, Kept

\* A number that is not among those given goes to d.
LEMMA NumberStays ==
  ASSUME CallsOK, NumberInv, NEW s \in Session, NEW d, call' = [call EXCEPT ![s] = d],
         UNCHANGED <<numbers, from>>, NumberOf(s, d)
  PROVE  NumberInv'
<1>1. /\ call'[s] = d
      /\ \A u \in Session : u # s => call'[u] = call[u]
  BY CallAt DEF CallsOK
<1>2. ASSUME NEW u \in Session
      PROVE  NumberOf(u, call[u])'
  <2>1. NumberOf(u, call[u])
    BY DEF NumberInv
  <2>2. CASE u = s
    BY <1>1, <2>2 DEF NumberOf, Given
  <2>3. CASE u # s
    BY <1>1, <2>1, <2>3 DEF NumberOf, Given
  <2>4. QED
    BY <2>2, <2>3
<1>3. QED
  BY <1>2 DEF NumberInv

LEMMA NextStays ==
  ASSUME CallsOK, NextInv, NEW s \in Session, NEW d, call' = [call EXCEPT ![s] = d],
         UNCHANGED <<closes, nexts>>, \A i \in Id : Owes(d, i) <=> Owes(call[s], i)
  PROVE  NextInv'
<1>1. /\ call'[s] = d
      /\ \A u \in Session : u # s => call'[u] = call[u]
  BY CallAt DEF CallsOK
<1>2. ASSUME NEW i \in Id
      PROVE  Owed(i)' = Owed(i)
  BY <1>1, Zenon DEF Owed
<1>3. QED
  BY <1>2 DEF NextInv

RestSame == UNCHANGED <<tasks, lock, watch, told, retry, started, wiped, from, closes, nexts>>

\* A call that neither writes nor takes a number moves on to d; of the store, the
\* leases and what is known of the claims may change.
LEMMA MovesWith ==
  ASSUME Inv, NEW s \in Session, NEW d \in Call, call' = [call EXCEPT ![s] = d],
         calls' \in calls..MaxCalls,
         UNCHANGED <<tasks, lock, retry, numbers, from, closes, nexts>>,
         CallOK(d)', NumberOf(s, d), call[s].pc # "write", d.pc # "write",
         \A i \in Id : Owes(d, i) <=> Owes(call[s], i),
         StoreOK', \A u \in Session : u # s => Stays(u), CallKept(s, d)'
  PROVE  Inv'
<1>1. CallsOK'
  BY CallMoves DEF Inv
<1>2. LockInv' /\ ReadInv'
  BY LockStays, ReadStays DEF Inv
<1>3. KeptInv'
  BY KeptStays DEF Inv
<1>4. NumberInv' /\ NextInv'
  BY NumberStays, NextStays DEF Inv
<1>5. RetryOK'
  BY DEF Inv, RetryOK
<1>6. QED
  BY <1>1, <1>2, <1>3, <1>4, <1>5 DEF Inv

\* The same, and the rest stays.
LEMMA MovesOn ==
  ASSUME Inv, NEW s \in Session, NEW d \in Call, call' = [call EXCEPT ![s] = d],
         calls' \in calls..MaxCalls, RestSame, UNCHANGED <<lease, numbers>>,
         CallOK(d)', CallKept(s, d), NumberOf(s, d),
         call[s].pc # "write", d.pc # "write", \A i \in Id : Owes(d, i) <=> Owes(call[s], i)
  PROVE  Inv'
<1>1. \A u \in Session : u # s => Stays(u)
  BY StaysWhenUnchanged DEF RestSame
<1>2. CallKept(s, d)'
  BY DEF CallKept, RestSame, Kept, Noted
<1>3. StoreOK'
  BY DEF Inv, StoreOK, RestSame
<1>4. UNCHANGED <<tasks, lock, retry, numbers, from, closes, nexts>>
  BY DEF RestSame
<1>5. QED
  BY <1>1, <1>2, <1>3, <1>4, MovesWith

\* A call that claims nothing leaves its session's claims kept without it.
LEMMA NothingClaimed ==
  ASSUME NEW s \in Session, NEW d, CallKept(s, call[s]),
         call[s].pc \notin {"note", "lock", "write"} \/ call[s].claim = "none",
         d.pc \in {"idle", "claim", "try", "delete"} \cup Numbering \/ (d.pc = "lock" /\ d.claim = "none")
  PROVE  CallKept(s, d)
<1>1. \A i \in started[s] : tasks[i] # NoTask => Kept(s, i)
  BY DEF CallKept, Claims
<1>2. QED
  BY <1>1 DEF CallKept, Numbering

LEMMA IdleCall ==
  /\ Idle \in Call /\ Idle.pc = "idle" /\ Idle.op = "none" /\ Idle.claim = "none"
  /\ CallOK(Idle)
  /\ \A s \in Session : NumberOf(s, Idle)
  /\ \A i \in Id : ~Owes(Idle, i)
<1>1. Idle \in Call /\ Idle.pc = "idle" /\ Idle.op = "none" /\ Idle.claim = "none"
  BY DEF Idle, Call, Pc, Op, Status, Counter
<1>2. CallOK(Idle)
  BY <1>1 DEF CallOK, Starting, Linking, Numbering
<1>3. QED
  BY <1>1, <1>2 DEF NumberOf, Given, Owes

\* A call begins: what is asked of its first step.
Opens(c) ==
  /\ c.pc \in {"claim", "lock", "delete", "max"} /\ c.claim = "none"
  /\ c.pc # "max" => c.on \in Id
  /\ c.pc = "claim" <=> c.op \in Starting
  /\ c.pc = "delete" => c.op = "delete"
  /\ c.pc = "max" => c.op \notin Starting \cup Linking \cup {"finish"}
  /\ c.op \in Linking => c.other \in Id
  /\ c.op \in Starting => c.to = "in_progress"
  /\ c.op \in Linking \cup {"finish"} => c.pc = "lock"

LEMMA BeginKeeps ==
  ASSUME Inv, NEW s \in Session, NEW c \in Call, Opens(c), Begin(s, c)
  PROVE  Inv'
<1>1. calls' = calls + 1 /\ calls' \in calls..MaxCalls /\ calls' \in Nat /\ calls' \in 1..calls'
  BY Constants DEF Begin, Inv, CallsOK
<1>2. [c EXCEPT !.n = calls + 1] \in Call
  BY <1>1 DEF Call
<1>3. PICK d \in Call :
        /\ d = [c EXCEPT !.n = calls + 1]
        /\ d.n = calls' /\ d.pc = c.pc /\ d.op = c.op /\ d.on = c.on /\ d.other = c.other
        /\ d.to = c.to /\ d.claim = c.claim
  BY <1>1, <1>2 DEF Call
<1>4. call[s].pc = "idle" /\ call' = [call EXCEPT ![s] = d]
  BY <1>3 DEF Begin
<1>5. CallOK(d)'
  BY <1>1, <1>3 DEF CallOK, Opens, Starting, Linking, Numbering
<1>6. CallKept(s, d)
  BY <1>3, <1>4, NothingClaimed DEF Opens, Inv, KeptInv, Numbering
<1>7. NumberOf(s, d) /\ \A i \in Id : Owes(d, i) <=> Owes(call[s], i)
  BY <1>3, <1>4 DEF NumberOf, Given, Owes, Opens, Numbering, Linking
<1>8. RestSame /\ UNCHANGED <<lease, numbers>> /\ d.pc # "write"
  BY <1>3 DEF Begin, RestSame, seenVars, Opens
<1>9. QED
  BY <1>1, <1>4, <1>5, <1>6, <1>7, <1>8, MovesOn

LEMMA ReadTask ==
  ASSUME Inv, NEW i \in There
  PROVE  i \in Id /\ tasks[i] \in Task
  BY DEF Inv, StoreOK, There

LEMMA StartKeeps ==
  ASSUME Inv, NEW s \in Session, Start(s)
  PROVE  Inv'
<1>1. PICK i \in There, r \in BOOLEAN :
        Begin(s, [Idle EXCEPT !.pc = "claim", !.op = "start", !.on = i, !.to = "in_progress",
                              !.reclaim = r, !.seen = tasks[i]])
  BY DEF Start
<1> DEFINE c == [Idle EXCEPT !.pc = "claim", !.op = "start", !.on = i, !.to = "in_progress",
                             !.reclaim = r, !.seen = tasks[i]]
<1>2. c \in Call /\ Opens(c)
  BY ReadTask DEF Idle, Call, Opens, Pc, Op, Status, Counter, Via, Starting, Linking
<1>3. QED
  BY <1>1, <1>2, BeginKeeps

LEMMA FinishKeeps ==
  ASSUME Inv, NEW s \in Session, Finish(s)
  PROVE  Inv'
<1>1. PICK i \in There :
        Begin(s, [Idle EXCEPT !.pc = "lock", !.op = "finish", !.on = i, !.to = "complete",
                              !.seen = tasks[i]])
  BY DEF Finish
<1> DEFINE c == [Idle EXCEPT !.pc = "lock", !.op = "finish", !.on = i, !.to = "complete",
                             !.seen = tasks[i]]
<1>2. c \in Call /\ Opens(c)
  BY ReadTask DEF Idle, Call, Opens, Pc, Op, Status, Counter, Via, Starting, Linking
<1>3. QED
  BY <1>1, <1>2, BeginKeeps

LEMMA SetAsideKeeps ==
  ASSUME Inv, NEW s \in Session, SetAside(s)
  PROVE  Inv'
<1>1. PICK i \in There, to \in {"pending", "blocked"} :
        Begin(s, [Idle EXCEPT !.pc = "lock", !.op = "aside", !.on = i, !.to = to,
                              !.seen = tasks[i]])
  BY DEF SetAside
<1> DEFINE c == [Idle EXCEPT !.pc = "lock", !.op = "aside", !.on = i, !.to = to, !.seen = tasks[i]]
<1>2. c \in Call /\ Opens(c)
  BY ReadTask DEF Idle, Call, Opens, Pc, Op, Status, Counter, Via, Starting, Linking
<1>3. QED
  BY <1>1, <1>2, BeginKeeps

LEMMA DeleteKeeps ==
  ASSUME Inv, NEW s \in Session, Delete(s)
  PROVE  Inv'
<1>1. PICK i \in There :
        Begin(s, [Idle EXCEPT !.pc = "delete", !.op = "delete", !.on = i, !.seen = tasks[i]])
  BY DEF Delete
<1> DEFINE c == [Idle EXCEPT !.pc = "delete", !.op = "delete", !.on = i, !.seen = tasks[i]]
<1>2. c \in Call /\ Opens(c)
  BY ReadTask DEF Idle, Call, Opens, Pc, Op, Status, Counter, Via, Starting, Linking
<1>3. QED
  BY <1>1, <1>2, BeginKeeps

LEMMA CreateKeeps ==
  ASSUME Inv, NEW s \in Session, Create(s)
  PROVE  Inv'
<1> DEFINE c == [Idle EXCEPT !.pc = "max", !.op = "create"]
<1>1. c \in Call /\ Opens(c)
  BY DEF Idle, Call, Opens, Pc, Op, Status, Counter, Via, Starting, Linking
<1>2. QED
  BY <1>1, BeginKeeps DEF Create

LEMMA LinkKeeps ==
  ASSUME Inv, NEW s \in Session, Link(s)
  PROVE  Inv'
<1>1. PICK i \in Id, j \in Id, op \in {"link", "unlink"} :
        \/ Begin(s, [Idle EXCEPT !.pc = "lock", !.op = op, !.on = i, !.other = j, !.seen = tasks[j]])
        \/ Begin(s, [Idle EXCEPT !.pc = "lock", !.op = op, !.on = j, !.other = i, !.to = "blocked"])
  BY DEF Link
<1> DEFINE c == [Idle EXCEPT !.pc = "lock", !.op = op, !.on = i, !.other = j, !.seen = tasks[j]]
           d == [Idle EXCEPT !.pc = "lock", !.op = op, !.on = j, !.other = i, !.to = "blocked"]
<1>2. tasks[j] \in Task \cup {NoTask}
  BY DEF Inv, StoreOK
<1>3. c \in Call /\ Opens(c)
  BY <1>2 DEF Idle, Call, Opens, Pc, Op, Status, Counter, Via, Starting, Linking
<1>4. d \in Call /\ Opens(d)
  BY <1>2 DEF Idle, Call, Opens, Pc, Op, Status, Counter, Via, Starting, Linking
<1>5. QED
  BY <1>1, <1>3, <1>4, BeginKeeps

LEMMA NextTaskKeeps ==
  ASSUME Inv, NEW s \in Session, NextTask(s)
  PROVE  Inv'
<1>1. PICK q \in SUBSET Id :
        call' = [call EXCEPT ![s] = [Idle EXCEPT !.pc = "try", !.op = "next", !.n = calls + 1,
                                       !.to = "in_progress", !.queue = q]]
  BY DEF NextTask, There
<1>2. calls' = calls + 1 /\ calls' \in calls..MaxCalls /\ calls' \in Nat /\ calls' \in 1..calls'
  BY Constants DEF NextTask, Inv, CallsOK
<1>3. PICK d \in Call :
        /\ d = [Idle EXCEPT !.pc = "try", !.op = "next", !.n = calls + 1,
                            !.to = "in_progress", !.queue = q]
        /\ d.n = calls' /\ d.pc = "try" /\ d.op = "next" /\ d.to = "in_progress"
  <2>1. [Idle EXCEPT !.pc = "try", !.op = "next", !.n = calls + 1, !.to = "in_progress",
                     !.queue = q] \in Call
    BY <1>2 DEF Idle, Call, Pc, Op, Status, Counter
  <2>2. QED
    BY <1>2, <2>1 DEF Idle
<1>4. call' = [call EXCEPT ![s] = d] /\ call[s].pc = "idle"
  BY <1>1, <1>3 DEF NextTask
<1>5. CallOK(d)'
  BY <1>2, <1>3 DEF CallOK, Starting, Linking, Numbering
<1>6. CallKept(s, d)
  BY <1>3, <1>4, NothingClaimed DEF Inv, KeptInv
<1>7. NumberOf(s, d) /\ \A i \in Id : Owes(d, i) <=> Owes(call[s], i)
  BY <1>3, <1>4 DEF NumberOf, Given, Owes, Numbering
<1>8. RestSame /\ UNCHANGED <<lease, numbers>>
  BY DEF NextTask, RestSame, seenVars
<1>9. QED
  BY <1>2, <1>3, <1>4, <1>5, <1>6, <1>7, <1>8, MovesOn

LEMMA TryKeeps ==
  ASSUME Inv, NEW s \in Session, Try(s)
  PROVE  Inv'
<1> DEFINE c == call[s]
<1>1. c \in Call /\ CallOK(c) /\ c.pc = "try" /\ CallKept(s, c)
  BY DEF Try, Inv, CallsOK, KeptInv
<1>2. UNCHANGED calls /\ calls' \in calls..MaxCalls
  <2>1. UNCHANGED calls
    BY DEF Try, budget
  <2>2. QED
    BY <2>1, CallsStay DEF Inv
<1>3. RestSame /\ UNCHANGED <<lease, numbers>>
  BY DEF Try, RestSame, seenVars
<1>4. \E d \in Call :
        /\ call' = [call EXCEPT ![s] = d]
        /\ \/ d = Idle
           \/ /\ d.pc \in {"try", "claim"} /\ d.on \in Id \cup {0} /\ (d.pc = "claim" => d.on \in Id)
              /\ d.n = c.n /\ d.op = c.op /\ d.to = c.to
  <2>1. CASE call' = [call EXCEPT ![s] = Idle]
    BY <2>1, IdleCall
  <2>2. ASSUME NEW i \in c.queue, tasks[i] # NoTask,
               call' = [call EXCEPT ![s] = [c EXCEPT !.queue = c.queue \ {i}]]
        PROVE  \E d \in Call : /\ call' = [call EXCEPT ![s] = d]
                               /\ d.pc = "try" /\ d.on \in Id \cup {0}
                               /\ d.n = c.n /\ d.op = c.op /\ d.to = c.to
    <3> DEFINE d == [c EXCEPT !.queue = c.queue \ {i}]
    <3>1. d \in Call /\ d.pc = "try" /\ d.on \in Id \cup {0} /\ d.n = c.n /\ d.op = c.op /\ d.to = c.to
      BY <1>1 DEF Call
    <3>2. QED
      BY <3>1, <2>2
  <2>3. ASSUME NEW i \in c.queue, tasks[i] # NoTask,
               call' = [call EXCEPT ![s] = [c EXCEPT !.pc = "claim", !.on = i, !.seen = tasks[i],
                                                     !.queue = c.queue \ {i}]]
        PROVE  \E d \in Call : /\ call' = [call EXCEPT ![s] = d]
                               /\ d.pc = "claim" /\ d.on \in Id
                               /\ d.n = c.n /\ d.op = c.op /\ d.to = c.to
    <3> DEFINE d == [c EXCEPT !.pc = "claim", !.on = i, !.seen = tasks[i], !.queue = c.queue \ {i}]
    <3>1. i \in Id /\ tasks[i] \in Task
      BY <1>1, <2>3 DEF Call, Inv, StoreOK
    <3>2. d \in Call /\ d.pc = "claim" /\ d.on \in Id /\ d.n = c.n /\ d.op = c.op /\ d.to = c.to
      BY <1>1, <3>1 DEF Call, Pc
    <3>3. QED
      BY <3>2, <2>3
  <2>4. QED
    BY <2>1, <2>2, <2>3 DEF Try
<1>5. PICK d \in Call :
        /\ call' = [call EXCEPT ![s] = d]
        /\ \/ d = Idle
           \/ /\ d.pc \in {"try", "claim"} /\ (d.pc = "claim" => d.on \in Id)
              /\ d.n = c.n /\ d.op = c.op /\ d.to = c.to
  BY <1>4
<1>6. CallOK(d)'
  <2>1. CASE d = Idle
    BY <2>1, IdleCall DEF CallOK
  <2>2. CASE d # Idle
    BY <1>1, <1>2, <1>5, <2>2 DEF CallOK, Starting, Linking, Numbering
  <2>3. QED
    BY <2>1, <2>2
<1>7. d.pc \in {"idle", "try", "claim"}
  BY <1>5, IdleCall
<1>8. CallKept(s, d)
  BY <1>1, <1>7, NothingClaimed
<1>9. NumberOf(s, d) /\ \A i \in Id : Owes(d, i) <=> Owes(call[s], i)
  BY <1>1, <1>7 DEF NumberOf, Given, Owes, Numbering
<1>10. QED
  BY <1>1, <1>2, <1>3, <1>5, <1>6, <1>7, <1>8, <1>9, MovesOn

LEMMA ReadMaxKeeps ==
  ASSUME Inv, NEW s \in Session, ReadMax(s)
  PROVE  Inv'
<1> DEFINE c == call[s]
<1>1. c \in Call /\ CallOK(c) /\ c.pc = "max" /\ CallKept(s, c)
  BY DEF ReadMax, Inv, CallsOK, KeptInv
<1>2. UNCHANGED calls /\ calls' \in calls..MaxCalls
  <2>1. UNCHANGED calls
    BY DEF ReadMax, budget
  <2>2. QED
    BY <2>1, CallsStay DEF Inv
<1>3. RestSame /\ UNCHANGED <<lease, numbers>>
  BY DEF ReadMax, RestSame, seenVars
<1>4. Max({c.floor} \cup There) \in Nat
  <2>1. There \subseteq Id /\ Id \subseteq Nat /\ IsFiniteSet(Id) /\ c.floor \in Nat
    <3>1. There \subseteq Id /\ Id \subseteq Nat /\ c.floor \in Nat
      BY <1>1, Constants DEF There, Call
    <3>2. IsFiniteSet(Id)
      BY Constants, FS_Interval DEF Id
    <3>3. QED
      BY <3>1, <3>2
  <2>2. IsFiniteSet(There)
    BY <2>1, FS_Subset
  <2>3. IsFiniteSet(There \cup {c.floor})
    BY <2>2, FS_AddElement
  <2>4. {c.floor} \cup There \subseteq Nat /\ {c.floor} \cup There = There \cup {c.floor}
    BY <2>1
  <2>5. QED
    BY <2>3, <2>4, HasMax
<1>5. PICK d \in Call :
        /\ d = [c EXCEPT !.pc = "number", !.floor = Max({c.floor} \cup There)]
        /\ d.pc = "number" /\ d.op = c.op /\ d.on = c.on /\ d.n = c.n /\ d.to = c.to
        /\ d.other = c.other /\ d.seen = c.seen /\ d.cur = c.cur
  <2>1. [c EXCEPT !.pc = "number", !.floor = Max({c.floor} \cup There)] \in Call
    BY <1>1, <1>4 DEF Call, Pc
  <2>2. QED
    BY <1>1, <2>1 DEF Call
<1>6. call' = [call EXCEPT ![s] = d]
  BY <1>5 DEF ReadMax
<1>7. Recurs(d) <=> Recurs(c)
  BY <1>5 DEF Recurs
<1>8. CallOK(d)'
  BY <1>1, <1>2, <1>5, <1>7 DEF CallOK, Starting, Linking, Numbering
<1>9. CallKept(s, d)
  BY <1>1, <1>5, NothingClaimed DEF Numbering
<1>10. NumberOf(s, d) /\ \A i \in Id : Owes(d, i) <=> Owes(call[s], i)
  BY <1>1, <1>5, <1>7 DEF NumberOf, Given, Owes, Numbering
<1>11. QED
  BY <1>1, <1>2, <1>3, <1>5, <1>6, <1>8, <1>9, <1>10, MovesOn

LEMMA TakenKeeps ==
  ASSUME Inv, NEW s \in Session, Taken(s)
  PROVE  Inv'
<1> DEFINE c == call[s]
<1>1. c \in Call /\ CallOK(c) /\ c.pc = "taken" /\ CallKept(s, c) /\ NumberOf(s, c)
  BY DEF Taken, Inv, CallsOK, KeptInv, NumberInv
<1>2. UNCHANGED calls /\ calls' \in calls..MaxCalls
  <2>1. UNCHANGED calls
    BY DEF Taken, budget
  <2>2. QED
    BY <2>1, CallsStay DEF Inv
<1>3. RestSame /\ UNCHANGED <<lease, numbers>>
  BY DEF Taken, RestSame, seenVars
<1>4. \E d \in Call :
        /\ call' = [call EXCEPT ![s] = d]
        /\ d.pc \in {"max", "add"} /\ d.op = c.op /\ d.on = c.on /\ d.n = c.n /\ d.to = c.to
        /\ d.other = c.other /\ d.seen = c.seen /\ d.cur = c.cur /\ d.floor = c.floor /\ d.via = c.via
  <2>1. CASE c.floor \in There
    <3>1. PICK d \in Call :
            /\ d = [c EXCEPT !.pc = "max", !.alone = TRUE]
            /\ d.pc = "max" /\ d.op = c.op /\ d.on = c.on /\ d.n = c.n /\ d.to = c.to
            /\ d.other = c.other /\ d.seen = c.seen /\ d.cur = c.cur /\ d.floor = c.floor /\ d.via = c.via
      <4>1. [c EXCEPT !.pc = "max", !.alone = TRUE] \in Call
        BY <1>1 DEF Call, Pc
      <4>2. QED
        BY <1>1, <4>1 DEF Call
    <3>2. QED
      BY <2>1, <3>1 DEF Taken
  <2>2. CASE c.floor \notin There
    <3>1. PICK d \in Call :
            /\ d = [c EXCEPT !.pc = "add"]
            /\ d.pc = "add" /\ d.op = c.op /\ d.on = c.on /\ d.n = c.n /\ d.to = c.to
            /\ d.other = c.other /\ d.seen = c.seen /\ d.cur = c.cur /\ d.floor = c.floor /\ d.via = c.via
      <4>1. [c EXCEPT !.pc = "add"] \in Call
        BY <1>1 DEF Call, Pc
      <4>2. QED
        BY <1>1, <4>1 DEF Call
    <3>2. QED
      BY <2>2, <3>1 DEF Taken
  <2>3. QED
    BY <2>1, <2>2
<1>5. PICK d \in Call :
        /\ call' = [call EXCEPT ![s] = d]
        /\ d.pc \in {"max", "add"} /\ d.op = c.op /\ d.on = c.on /\ d.n = c.n /\ d.to = c.to
        /\ d.other = c.other /\ d.seen = c.seen /\ d.cur = c.cur /\ d.floor = c.floor /\ d.via = c.via
  BY <1>4
<1>6. Recurs(d) <=> Recurs(c)
  BY <1>5 DEF Recurs
<1>7. CallOK(d)'
  BY <1>1, <1>2, <1>5, <1>6 DEF CallOK, Starting, Linking, Numbering
<1>8. CallKept(s, d)
  BY <1>1, <1>5, NothingClaimed DEF Numbering
<1>9. NumberOf(s, d) /\ \A i \in Id : Owes(d, i) <=> Owes(call[s], i)
  BY <1>1, <1>5, <1>6 DEF NumberOf, Given, Owes, Numbering
<1>10. QED
  BY <1>1, <1>2, <1>3, <1>5, <1>7, <1>8, <1>9, MovesOn

\* A step of Number that takes the number v offers.
NumberBy(s, v) ==
  LET c == call[s]  k == NumberFrom(v, c.floor) IN
  /\ k \in Id
  /\ numbers' = IF v = "max" THEN numbers ELSE [numbers EXCEPT ![v] = k]
  /\ call' = [call EXCEPT ![s] = [c EXCEPT !.pc = "taken", !.floor = k, !.via = v]]

\* A number that no counter gave changes nothing of the counters'.
LEMMA PlainNumberKeeps ==
  ASSUME Inv, NEW s \in Session, Number(s), NumberBy(s, "max")
  PROVE  Inv'
<1> DEFINE c == call[s]  k == NumberFrom("max", c.floor)
<1>1. c \in Call /\ CallOK(c) /\ c.pc = "number" /\ CallKept(s, c)
  BY DEF Number, Inv, CallsOK, KeptInv
<1>2. UNCHANGED calls /\ calls' \in calls..MaxCalls
  <2>1. UNCHANGED calls
    BY DEF Number
  <2>2. QED
    BY <2>1, CallsStay DEF Inv
<1>3. RestSame /\ UNCHANGED <<lease, numbers>>
  BY DEF Number, NumberBy, RestSame, seenVars
<1>4. PICK d \in Call :
        /\ call' = [call EXCEPT ![s] = d]
        /\ d.pc = "taken" /\ d.op = c.op /\ d.on = c.on /\ d.n = c.n /\ d.to = c.to
        /\ d.other = c.other /\ d.seen = c.seen /\ d.cur = c.cur /\ d.floor \in Id
        /\ d.via = "max"
  <2>1. k \in Id /\ k \in Nat
    BY Constants DEF NumberBy
  <2>2. [c EXCEPT !.pc = "taken", !.floor = k, !.via = "max"] \in Call
    <3> HIDE DEF k
    <3>1. QED
      BY <1>1, <2>1 DEF Call, Pc, Via
  <2>3. call' = [call EXCEPT ![s] = [c EXCEPT !.pc = "taken", !.floor = k, !.via = "max"]]
    BY DEF NumberBy
  <2> HIDE DEF k
  <2>4. QED
    BY <1>1, <2>1, <2>2, <2>3 DEF Call
<1>5. Recurs(d) <=> Recurs(c)
  BY <1>4 DEF Recurs
<1>6. CallOK(d)'
  BY <1>1, <1>2, <1>4, <1>5 DEF CallOK, Starting, Linking, Numbering, Via
<1>7. CallKept(s, d)
  BY <1>1, <1>4, NothingClaimed DEF Numbering
<1>8. NumberOf(s, d) /\ \A i \in Id : Owes(d, i) <=> Owes(call[s], i)
  BY <1>1, <1>4, <1>5 DEF NumberOf, Given, Owes, Numbering
<1>9. QED
  BY <1>1, <1>2, <1>3, <1>4, <1>6, <1>7, <1>8, MovesOn

LEMMA CountedNumberKeeps ==
  ASSUME Inv, NEW s \in Session, Number(s),
         \E v \in Counter :
           /\ NumberFrom(v, call[s].floor) \in Id
           /\ numbers' = [numbers EXCEPT ![v] = NumberFrom(v, call[s].floor)]
           /\ call' = [call EXCEPT ![s] = [call[s] EXCEPT !.pc = "taken",
                          !.floor = NumberFrom(v, call[s].floor), !.via = v]]
  PROVE  Inv'
<1> DEFINE c == call[s]
<1>1. c \in Call /\ CallOK(c) /\ c.pc = "number" /\ CallKept(s, c)
  BY DEF Number, Inv, CallsOK, KeptInv
<1>2. UNCHANGED calls /\ calls' \in calls..MaxCalls
  <2>1. UNCHANGED calls
    BY DEF Number
  <2>2. QED
    BY <2>1, CallsStay DEF Inv
<1>3. PICK via \in Counter :
        /\ NumberFrom(via, c.floor) \in Id
        /\ numbers' = [numbers EXCEPT ![via] = NumberFrom(via, c.floor)]
        /\ call' = [call EXCEPT ![s] = [c EXCEPT !.pc = "taken", !.floor = NumberFrom(via, c.floor),
                                                 !.via = via]]
  OBVIOUS
<1>4. PICK k \in Id : k = NumberFrom(via, c.floor) /\ k > numbers[via]
  <2>1. numbers[via] \in Nat /\ c.floor \in Nat
    BY <1>1 DEF Inv, NumberInv, Call
  <2>2. IsFiniteSet({numbers[via], c.floor})
    <3>1. IsFiniteSet({numbers[via]})
      BY FS_Singleton
    <3>2. IsFiniteSet({numbers[via]} \cup {c.floor})
      BY <3>1, FS_AddElement
    <3>3. {numbers[via]} \cup {c.floor} = {numbers[via], c.floor}
      OBVIOUS
    <3>4. QED
      BY <3>2, <3>3
  <2>3. Max({numbers[via], c.floor}) >= numbers[via] /\ Max({numbers[via], c.floor}) \in Nat
    <3>1. {numbers[via], c.floor} \subseteq Nat /\ {numbers[via], c.floor} # {}
      BY <2>1
    <3>2. QED
      BY <2>1, <2>2, <3>1, HasMax
  <2>4. NumberFrom(via, c.floor) > numbers[via]
    BY <2>1, <2>3 DEF NumberFrom, Counter
  <2>5. QED
    BY <1>3, <2>4
<1>5. PICK d \in Call :
        /\ d = [c EXCEPT !.pc = "taken", !.floor = k, !.via = via]
        /\ d.pc = "taken" /\ d.op = c.op /\ d.on = c.on /\ d.n = c.n /\ d.to = c.to
        /\ d.other = c.other /\ d.seen = c.seen /\ d.cur = c.cur /\ d.floor = k /\ d.via = via
  <2>1. k \in Nat
    BY Constants
  <2>2. [c EXCEPT !.pc = "taken", !.floor = k, !.via = via] \in Call
    BY <1>1, <2>1 DEF Call, Pc, Via
  <2>3. QED
    BY <1>1, <2>2 DEF Call
<1>6. call' = [call EXCEPT ![s] = d] /\ numbers' = [numbers EXCEPT ![via] = k]
  BY <1>3, <1>4, <1>5
<1>7. RestSame /\ UNCHANGED lease
  BY DEF Number, RestSame, seenVars
<1>8. Recurs(d) <=> Recurs(c)
  BY <1>5 DEF Recurs
<1>9. CallOK(d)'
  BY <1>1, <1>2, <1>5, <1>8 DEF CallOK, Starting, Linking, Numbering, Via
<1>10. CallsOK'
  BY <1>2, <1>6, <1>9, CallMoves DEF Inv
<1>11. LockInv' /\ ReadInv'
  BY <1>1, <1>5, <1>6, <1>7, LockStays, ReadStays DEF Inv, RestSame
<1>12. KeptInv'
  <2>1. \A u \in Session : u # s => Stays(u)
    BY <1>7, StaysWhenUnchanged DEF RestSame
  <2>2. CallKept(s, d)
    BY <1>1, <1>5, NothingClaimed DEF Numbering
  <2>3. CallKept(s, d)'
    BY <1>7, <2>2 DEF CallKept, RestSame, Kept, Noted
  <2>4. QED
    BY <1>6, <2>1, <2>3, KeptStays DEF Inv
<1>13. NumberInv'
  <2>1. /\ call'[s] = d
        /\ \A u \in Session : u # s => call'[u] = call[u]
    BY <1>6, CallAt DEF Inv, CallsOK
  <2>2. /\ numbers' \in [Counter -> Nat]
        /\ numbers'[via] = k
        /\ \A v \in Counter : v # via => numbers'[v] = numbers[v]
        /\ \A v \in Counter : numbers[v] \in Nat /\ numbers[v] <= numbers'[v]
    BY <1>4, <1>6, Constants DEF Inv, NumberInv
  <2>3. UNCHANGED from /\ from \in [Id -> Via \cup {"none"}]
    BY <1>7 DEF RestSame, Inv, NumberInv
  <2>4. \A i \in Id : from[i] \in Counter => i <= numbers[from[i]]
    BY DEF Inv, NumberInv
  <2>5. \A i \in Id : from'[i] \in Counter => i <= numbers'[from'[i]]
    <3> SUFFICES ASSUME NEW i \in Id, from[i] \in Counter
                 PROVE  i <= numbers'[from[i]]
      BY <2>3
    <3>1. from[i] \in Counter /\ i <= numbers[from[i]] /\ i \in Nat
      BY <2>3, <2>4, Constants
    <3>2. QED
      BY <2>2, <3>1
  <2>6. ASSUME NEW u \in Session, u # s, Given(call[u])
        PROVE  /\ call[u].via \in Counter /\ call[u].floor \in Id /\ call[u].floor \in Nat
               /\ call[u].floor <= numbers[call[u].via]
               /\ call[u].floor <= numbers'[call[u].via]
               /\ call[u].via = via => call[u].floor # k
    <3>1. call[u].via \in Counter /\ call[u].floor \in Id /\ call[u].floor \in Nat
      BY <2>6, Constants DEF Inv, CallsOK, CallOK, Given, Via
    <3>2. call[u].floor <= numbers[call[u].via]
      BY <2>6 DEF Inv, NumberInv, NumberOf
    <3>3. QED
      BY <3>1, <3>2, <2>2, <1>4
  <2>7. ASSUME NEW u \in Session, u # s
        PROVE  NumberOf(u, call[u])'
    <3>1. NumberOf(u, call[u])
      BY DEF Inv, NumberInv
    <3>2. call'[u] = call[u]
      BY <2>1, <2>7
    <3>3. ASSUME Given(call[u])
          PROVE  /\ call[u].floor <= numbers'[call[u].via]
                 /\ from'[call[u].floor] # call[u].via
      BY <2>3, <2>6, <2>7, <3>1, <3>3 DEF NumberOf
    <3>4. ASSUME Given(call[u]), NEW w \in Session, w # u, Given(call[w])',
                 call'[w].via = call[u].via
          PROVE  call'[w].floor # call[u].floor
      <4>1. CASE w = s
        <5>1. call'[w].via = via /\ call'[w].floor = k
          BY <1>5, <2>1, <4>1
        <5>2. call[u].via = via => call[u].floor # k
          BY <2>6, <2>7, <3>4
        <5>3. QED
          BY <3>4, <5>1, <5>2
      <4>2. CASE w # s
        BY <2>1, <3>1, <3>4, <4>2 DEF NumberOf
      <4>3. QED
        BY <4>1, <4>2
    <3>5. QED
      BY <3>2, <3>3, <3>4 DEF NumberOf, Given
  <2>8. NumberOf(s, call[s])'
    <3>1. from[k] # via
      BY <1>4, <2>2, <2>4, Constants DEF Counter
    <3>2. k <= numbers'[via]
      BY <2>2, Constants
    <3>3. \A u \in Session : u # s /\ Given(call'[u]) /\ call'[u].via = via
                              => call'[u].floor # k
      BY <2>1, <2>6
    <3>4. call'[s].via = via /\ call'[s].floor = k /\ from' = from
      BY <1>5, <2>1, <2>3
    <3>5. QED
      BY <3>1, <3>2, <3>3, <3>4 DEF NumberOf, Given
  <2>9. QED
    BY <2>2, <2>3, <2>5, <2>7, <2>8 DEF NumberInv
<1>14. NextInv'
  <2>1. \A i \in Id : Owes(d, i) <=> Owes(call[s], i)
    BY <1>1, <1>5, <1>8 DEF Owes, Numbering
  <2>2. QED
    BY <1>6, <1>7, <2>1, NextStays DEF Inv, RestSame
<1>15. StoreOK' /\ RetryOK'
  BY <1>7 DEF Inv, StoreOK, RetryOK, RestSame
<1>16. QED
  BY <1>10, <1>11, <1>12, <1>13, <1>14, <1>15 DEF Inv

LEMMA NumberKeeps ==
  ASSUME Inv, NEW s \in Session, Number(s)
  PROVE  Inv'
<1>1. PICK v \in Via : NumberBy(s, v)
  BY DEF Number, NumberBy, Via, Counter
<1>2. CASE v = "max"
  BY <1>1, <1>2, PlainNumberKeeps
<1>3. CASE v # "max"
  BY <1>1, <1>3, CountedNumberKeeps DEF NumberBy, Via
<1>4. QED
  BY <1>2, <1>3

LEMMA NoteKeeps ==
  ASSUME Inv, NEW s \in Session, Note(s)
  PROVE  Inv'
<1> DEFINE c == call[s]
<1>1. c \in Call /\ CallOK(c) /\ c.pc = "note" /\ CallKept(s, c)
  BY DEF Note, Inv, CallsOK, KeptInv
<1>2. UNCHANGED calls /\ calls' \in calls..MaxCalls
  <2>1. UNCHANGED calls
    BY DEF Note, budget
  <2>2. QED
    BY <2>1, CallsStay DEF Inv
<1>3. PICK d \in Call :
        /\ d = [c EXCEPT !.pc = "lock"]
        /\ d.pc = "lock" /\ d.op = c.op /\ d.on = c.on /\ d.n = c.n /\ d.to = c.to
        /\ d.other = c.other /\ d.claim = c.claim
  <2>1. [c EXCEPT !.pc = "lock"] \in Call
    BY <1>1 DEF Call, Pc
  <2>2. QED
    BY <1>1, <2>1 DEF Call
<1>4. call' = [call EXCEPT ![s] = d] /\ watch' = [watch EXCEPT ![s] = watch[s] \cup {c.on}]
  BY <1>3 DEF Note, Inv, CallsOK
<1>5. UNCHANGED <<tasks, lock, lease, told, retry, numbers, started, wiped, from, closes, nexts>>
  BY DEF Note, seenVars
<1>6. CallOK(d)'
  BY <1>1, <1>2, <1>3 DEF CallOK, Starting, Linking, Numbering
<1>7. /\ watch' \in [Session -> SUBSET Id]
      /\ c.on \in watch'[s]
      /\ \A u \in Session : watch[u] \subseteq watch'[u]
  BY <1>1, <1>4 DEF CallOK, Inv, StoreOK
<1>8. StoreOK'
  BY <1>5, <1>7 DEF Inv, StoreOK
<1>9. \A u \in Session : Stays(u)
  BY <1>5, <1>7 DEF Stays, Noted, Kept
<1>10. CallKept(s, d)'
  <2>1. \A i \in started[s] : tasks[i] # NoTask => Kept(s, i) \/ i = c.on
    BY <1>1 DEF CallKept, Claims
  <2>2. \A i \in started[s] : tasks[i] # NoTask => Kept(s, i)'
    BY <1>5, <1>7, <2>1 DEF Kept, Noted
  <2>3. Noted(s, d.on)'
    BY <1>3, <1>7 DEF Noted
  <2>4. QED
    BY <1>3, <1>5, <2>2, <2>3 DEF CallKept
<1>11. NumberOf(s, d) /\ \A i \in Id : Owes(d, i) <=> Owes(call[s], i)
  BY <1>1, <1>3 DEF NumberOf, Given, Owes, Numbering
<1>12. QED
  BY <1>1, <1>2, <1>3, <1>4, <1>5, <1>6, <1>8, <1>9, <1>10, <1>11, MovesWith

LEMMA LeaseType ==
  ASSUME StoreOK, NEW s \in Session, NEW i \in Id,
         lease' = lease \/ lease' = [lease EXCEPT ![i] = [by |-> s, live |-> TRUE]]
                        \/ lease' = [lease EXCEPT ![i] = Free]
  PROVE  /\ lease' \in [Id -> [by : Session \cup {Other, NoOne}, live : BOOLEAN]]
         /\ \A j \in Id : lease'[j].live => lease'[j].by # NoOne
<1>1. lease \in [Id -> [by : Session \cup {Other, NoOne}, live : BOOLEAN]]
  BY DEF StoreOK
<1>2. /\ [by |-> s, live |-> TRUE] \in [by : Session \cup {Other, NoOne}, live : BOOLEAN]
      /\ Free \in [by : Session \cup {Other, NoOne}, live : BOOLEAN] /\ ~Free.live /\ s # NoOne
  BY Constants DEF Free
<1>3. lease' \in [Id -> [by : Session \cup {Other, NoOne}, live : BOOLEAN]]
  BY <1>1, <1>2
<1>4. ASSUME NEW j \in Id
      PROVE  lease'[j] = lease[j] \/ lease'[j] = [by |-> s, live |-> TRUE] \/ lease'[j] = Free
  BY <1>1
<1>5. \A j \in Id : lease'[j].live => lease'[j].by # NoOne
  BY <1>2, <1>4 DEF StoreOK
<1>6. QED
  BY <1>3, <1>5

LEMMA ClaimKeeps ==
  ASSUME Inv, NEW s \in Session, Claim(s)
  PROVE  Inv'
<1> DEFINE c == call[s]
<1>1. c \in Call /\ CallOK(c) /\ c.pc = "claim" /\ CallKept(s, c) /\ c.on \in Id /\ c.op \in Starting
  BY DEF Claim, Inv, CallsOK, KeptInv, CallOK
<1>2. UNCHANGED calls /\ calls' \in calls..MaxCalls
  <2>1. UNCHANGED calls
    BY DEF Claim
  <2>2. QED
    BY <2>1, CallsStay DEF Inv
<1>3. UNCHANGED <<tasks, lock, watch, retry, numbers, started, from, closes, nexts>>
  BY DEF Claim
<1>4. lease' = lease \/ lease' = [lease EXCEPT ![c.on] = [by |-> s, live |-> TRUE]]
  BY DEF Claim, Answered, Outage
<1>5. \E d \in Call :
        /\ call' = [call EXCEPT ![s] = d]
        /\ \/ /\ d.pc = "note" /\ d.claim = "granted" /\ Anew(s, c.on)
              /\ d.op = c.op /\ d.on = c.on /\ d.n = c.n /\ d.to = c.to
           \/ /\ d.pc = "lock" /\ d.claim = "unshared" /\ Anew(s, c.on)
              /\ d.op = c.op /\ d.on = c.on /\ d.n = c.n /\ d.to = c.to
           \/ /\ d.pc = "try" /\ UNCHANGED <<told, wiped>>
              /\ d.op = c.op /\ d.on = c.on /\ d.n = c.n /\ d.to = c.to
           \/ d = Idle /\ UNCHANGED <<told, wiped>>
  <2> DEFINE d1 == [c EXCEPT !.pc = "note", !.claim = "granted"]
             d2 == [c EXCEPT !.pc = "lock", !.claim = "unshared"]
             d3 == [c EXCEPT !.pc = "try"]
  <2>1. d1 \in Call /\ d2 \in Call /\ d3 \in Call
    BY <1>1 DEF Call, Pc
  <2>2. d1.pc = "note" /\ d1.claim = "granted" /\ d1.op = c.op /\ d1.on = c.on /\ d1.n = c.n /\ d1.to = c.to
    BY <1>1 DEF Call
  <2>3. d2.pc = "lock" /\ d2.claim = "unshared" /\ d2.op = c.op /\ d2.on = c.on /\ d2.n = c.n /\ d2.to = c.to
    BY <1>1 DEF Call
  <2>4. d3.pc = "try" /\ d3.op = c.op /\ d3.on = c.on /\ d3.n = c.n /\ d3.to = c.to
    BY <1>1 DEF Call
  <2>5. \/ call' = [call EXCEPT ![s] = d1] /\ Anew(s, c.on)
        \/ call' = [call EXCEPT ![s] = d2] /\ Anew(s, c.on)
        \/ call' = [call EXCEPT ![s] = d3] /\ UNCHANGED <<told, wiped>>
        \/ call' = [call EXCEPT ![s] = Idle] /\ UNCHANGED <<told, wiped>>
    BY DEF Claim
  <2> HIDE DEF d1, d2, d3
  <2>6. QED
    BY <2>1, <2>2, <2>3, <2>4, <2>5, IdleCall
<1>6. PICK d \in Call :
        /\ call' = [call EXCEPT ![s] = d]
        /\ \/ /\ d.pc = "note" /\ d.claim = "granted" /\ Anew(s, c.on)
              /\ d.op = c.op /\ d.on = c.on /\ d.n = c.n /\ d.to = c.to
           \/ /\ d.pc = "lock" /\ d.claim = "unshared" /\ Anew(s, c.on)
              /\ d.op = c.op /\ d.on = c.on /\ d.n = c.n /\ d.to = c.to
           \/ /\ d.pc = "try" /\ UNCHANGED <<told, wiped>>
              /\ d.op = c.op /\ d.on = c.on /\ d.n = c.n /\ d.to = c.to
           \/ d = Idle /\ UNCHANGED <<told, wiped>>
  BY <1>5
<1>7. CallOK(d)'
  <2>1. CASE d = Idle
    BY <2>1, IdleCall DEF CallOK
  <2>2. CASE d # Idle
    BY <1>1, <1>2, <1>6, <2>2 DEF CallOK, Starting, Linking, Numbering
  <2>3. QED
    BY <2>1, <2>2
<1>8. d.pc \in {"note", "lock", "try", "idle"}
  BY <1>6, IdleCall
<1>9. /\ told' \subseteq told
      /\ \A u \in Session : \A i \in Id : u # s \/ i # c.on =>
           (<<u, i>> \in told => <<u, i>> \in told') /\ (<<u, i>> \in wiped => <<u, i>> \in wiped')
  BY <1>6 DEF Anew
<1>10. StoreOK'
  <2>1. /\ lease' \in [Id -> [by : Session \cup {Other, NoOne}, live : BOOLEAN]]
        /\ \A j \in Id : lease'[j].live => lease'[j].by # NoOne
    BY <1>1, <1>4, LeaseType DEF Inv
  <2>2. QED
    BY <1>3, <1>9, <2>1 DEF Inv, StoreOK
<1>11. \A u \in Session : u # s => Stays(u)
  BY <1>3, <1>9 DEF Stays, Noted, Kept
<1>12. CallKept(s, d)'
  <2>1. \A i \in started[s] : i \in Id /\ (tasks[i] # NoTask => Kept(s, i))
    BY <1>1 DEF CallKept, Claims, Inv, StoreOK
  <2>2. \A i \in started[s] : tasks[i] # NoTask /\ i # c.on => Kept(s, i)'
    BY <1>3, <1>9, <2>1 DEF Kept, Noted
  <2>3. CASE d.pc \in {"note", "lock"}
    <3>1. d.on = c.on /\ d.claim # "none" /\ (d.pc = "lock" => d.claim = "unshared")
      BY <1>6, <2>3, IdleCall
    <3>2. QED
      BY <1>3, <2>2, <2>3, <3>1 DEF CallKept, Claims
  <2>4. CASE d.pc \in {"try", "idle"}
    <3>1. UNCHANGED <<told, wiped>>
      BY <1>6, <2>4
    <3>2. QED
      BY <1>3, <2>1, <2>4, <3>1 DEF CallKept, Kept, Noted
  <2>5. QED
    BY <1>8, <2>3, <2>4
<1>13. NumberOf(s, d) /\ \A i \in Id : Owes(d, i) <=> Owes(call[s], i)
  BY <1>1, <1>8 DEF NumberOf, Given, Owes, Numbering
<1>14. QED
  BY <1>1, <1>2, <1>3, <1>6, <1>7, <1>8, <1>10, <1>11, <1>12, <1>13, MovesWith

LEMMA ReleaseKeeps ==
  ASSUME Inv, NEW s \in Session, Release(s)
  PROVE  Inv'
<1> DEFINE c == call[s]
<1>1. /\ c \in Call /\ CallOK(c) /\ c.pc = "release" /\ CallKept(s, c) /\ c.on \in Id
      /\ c.op \notin Starting \cup Linking /\ c.on \notin started[s]
  BY DEF Release, Inv, CallsOK, KeptInv, CallOK, CallKept
<1>2. UNCHANGED calls /\ calls' \in calls..MaxCalls
  <2>1. UNCHANGED calls
    BY DEF Release
  <2>2. QED
    BY <2>1, CallsStay DEF Inv
<1>3. UNCHANGED <<tasks, lock, told, retry, numbers, started, wiped, from, closes, nexts>>
  BY DEF Release, seenVars
<1>4. lease' = lease \/ lease' = [lease EXCEPT ![c.on] = Free]
  BY DEF Release
<1>5. PICK d \in Call :
        /\ call' = [call EXCEPT ![s] = d]
        /\ \/ /\ Recurs(c) /\ d.pc = "max" /\ d.op = c.op /\ d.on = c.on /\ d.n = c.n /\ d.to = c.to
              /\ d.seen = c.seen /\ d.cur = c.cur /\ d.claim = c.claim
           \/ ~Recurs(c) /\ d = Idle
  <2>1. CASE Recurs(c)
    <3> DEFINE d == [c EXCEPT !.pc = "max"]
    <3>1. d \in Call
      BY <1>1 DEF Call, Pc
    <3>2. /\ d.pc = "max" /\ d.op = c.op /\ d.on = c.on /\ d.n = c.n /\ d.to = c.to
          /\ d.seen = c.seen /\ d.cur = c.cur /\ d.claim = c.claim
      BY <1>1 DEF Call
    <3>3. call' = [call EXCEPT ![s] = d]
      BY <2>1 DEF Release, AfterRelease
    <3>4. QED
      BY <2>1, <3>1, <3>2, <3>3
  <2>2. CASE ~Recurs(c)
    BY <2>2, IdleCall DEF Release, AfterRelease
  <2>3. QED
    BY <2>1, <2>2
<1>6. d.pc \in {"max", "idle"} /\ (Recurs(c) => Recurs(d))
  BY <1>5, IdleCall DEF Recurs
<1>7. CallOK(d)'
  <2>1. CASE d = Idle
    BY <2>1, IdleCall DEF CallOK
  <2>2. CASE d # Idle
    BY <1>1, <1>2, <1>5, <1>6, <2>2 DEF CallOK, Starting, Linking, Numbering
  <2>3. QED
    BY <2>1, <2>2
<1>8. /\ watch' \in [Session -> SUBSET Id]
      /\ \A u \in Session : u # s => watch'[u] = watch[u]
      /\ \A i \in Id : i # c.on /\ i \in watch[s] => i \in watch'[s]
  BY DEF Release, Inv, StoreOK
<1>9. StoreOK'
  <2>1. /\ lease' \in [Id -> [by : Session \cup {Other, NoOne}, live : BOOLEAN]]
        /\ \A j \in Id : lease'[j].live => lease'[j].by # NoOne
    BY <1>1, <1>4, LeaseType DEF Inv
  <2>2. QED
    BY <1>3, <1>8, <2>1 DEF Inv, StoreOK
<1>10. \A u \in Session : u # s => Stays(u)
  BY <1>3, <1>8 DEF Stays, Noted, Kept
<1>11. CallKept(s, d)'
  <2>1. \A i \in started[s] : i \in Id /\ i # c.on /\ (tasks[i] # NoTask => Kept(s, i))
    BY <1>1 DEF CallKept, Claims, Inv, StoreOK
  <2>2. \A i \in started[s] : tasks[i] # NoTask => Kept(s, i)'
    BY <1>3, <1>8, <2>1 DEF Kept, Noted
  <2>3. QED
    BY <1>3, <1>6, <2>2 DEF CallKept
<1>12. NumberOf(s, d)
  BY <1>6 DEF NumberOf, Given
<1>13. \A i \in Id : Owes(d, i) <=> Owes(call[s], i)
  BY <1>1, <1>5, <1>6, IdleCall DEF Owes, Numbering
<1>14. QED
  BY <1>1, <1>2, <1>3, <1>5, <1>6, <1>7, <1>9, <1>10, <1>11, <1>12, <1>13, MovesWith

\* A link goes on to the other task's edges or ends, any other call ends.
LEMMA OtherEdgeGoes ==
  ASSUME NEW c \in Call, c.op \in Linking => c.on \in Id /\ c.other \in Id
  PROVE  /\ OtherEdge(c) \in Call
         /\ \/ OtherEdge(c) = Idle
            \/ /\ OtherEdge(c).pc = "lock" /\ c.op \in Linking /\ OtherEdge(c).op = c.op
               /\ OtherEdge(c).on = c.other /\ OtherEdge(c).other = c.on
               /\ OtherEdge(c).n = c.n /\ OtherEdge(c).claim = c.claim
<1>1. CASE c.op \in Linking /\ c.to = "pending" /\ c.seen # NoTask
  <2> DEFINE d == [c EXCEPT !.pc = "lock", !.to = "blocked", !.on = c.other, !.other = c.on]
  <2>1. OtherEdge(c) = d
    BY <1>1 DEF OtherEdge, Linking
  <2>2. d \in Call
    BY <1>1 DEF Call, Pc, Status
  <2>3. /\ d.pc = "lock" /\ d.op = c.op /\ d.on = c.other /\ d.other = c.on
        /\ d.n = c.n /\ d.claim = c.claim
    BY DEF Call
  <2>4. QED
    BY <1>1, <2>1, <2>2, <2>3
<1>2. CASE ~(c.op \in Linking /\ c.to = "pending" /\ c.seen # NoTask)
  <2>1. OtherEdge(c) = Idle
    BY <1>2 DEF OtherEdge, Linking
  <2>2. QED
    BY <2>1, IdleCall
<1>3. QED
  BY <1>1, <1>2

LEMMA LockKeeps ==
  ASSUME Inv, NEW s \in Session, Lock(s)
  PROVE  Inv'
<1> DEFINE c == call[s]
<1>1. c \in Call /\ CallOK(c) /\ c.pc = "lock" /\ CallKept(s, c) /\ c.on \in Id
  BY DEF Lock, Inv, CallsOK, KeptInv, CallOK
<1>2. UNCHANGED calls /\ calls' \in calls..MaxCalls
  <2>1. UNCHANGED calls
    BY DEF Lock, budget
  <2>2. QED
    BY <2>1, CallsStay DEF Inv
<1>3. /\ UNCHANGED <<tasks, watch, told, retry, started, wiped, from, closes, nexts>>
      /\ UNCHANGED <<lease, numbers>>
  BY DEF Lock, seenVars
<1>4. CASE tasks[c.on] = NoTask /\ call' = [call EXCEPT ![s] = OtherEdge(c)] /\ UNCHANGED lock
  <2>1. PICK d \in Call :
          /\ call' = [call EXCEPT ![s] = d]
          /\ \/ d = Idle
             \/ /\ d.pc = "lock" /\ c.op \in Linking /\ d.op = c.op /\ d.on = c.other
                /\ d.other = c.on /\ d.n = c.n /\ d.claim = c.claim
    <3>1. c.op \in Linking => c.on \in Id /\ c.other \in Id
      BY <1>1 DEF CallOK
    <3>2. QED
      BY <1>1, <1>4, <3>1, OtherEdgeGoes
  <2>2. CallOK(d)'
    <3>1. CASE d = Idle
      BY <3>1, IdleCall DEF CallOK
    <3>2. CASE d # Idle
      BY <1>1, <1>2, <2>1, <3>2 DEF CallOK, Starting, Linking, Numbering
    <3>3. QED
      BY <3>1, <3>2
  <2>3. CallKept(s, d)
    <3>1. CASE d = Idle
      BY <1>1, <1>4, <3>1, IdleCall DEF CallKept, Claims
    <3>2. CASE d # Idle
      <4>1. c.claim = "none"
        BY <1>1, <2>1, <3>2 DEF CallOK, Starting, Linking
      <4>2. QED
        BY <1>1, <2>1, <3>2, <4>1 DEF CallKept, Claims
    <3>3. QED
      BY <3>1, <3>2
  <2>4. NumberOf(s, d) /\ d.pc # "write" /\ \A i \in Id : Owes(d, i) <=> Owes(call[s], i)
    BY <1>1, <2>1, IdleCall DEF Owes, Numbering, NumberOf, Given
  <2>5. RestSame
    BY <1>3, <1>4 DEF RestSame
  <2>6. QED
    BY <1>1, <1>2, <1>3, <2>1, <2>2, <2>3, <2>4, <2>5, MovesOn
<1>5. CASE /\ tasks[c.on] # NoTask /\ lock[c.on] = NoOne /\ lock' = [lock EXCEPT ![c.on] = s]
           /\ call' = [call EXCEPT ![s] = [c EXCEPT !.pc = "write", !.cur = tasks[c.on]]]
  <2>1. tasks[c.on] \in Task
    BY <1>1, <1>5 DEF Inv, StoreOK
  <2>2. PICK d \in Call :
          /\ d = [c EXCEPT !.pc = "write", !.cur = tasks[c.on]]
          /\ d.pc = "write" /\ d.op = c.op /\ d.on = c.on /\ d.n = c.n /\ d.to = c.to
          /\ d.other = c.other /\ d.claim = c.claim /\ d.cur = tasks[c.on]
    <3>1. [c EXCEPT !.pc = "write", !.cur = tasks[c.on]] \in Call
      BY <1>1, <2>1 DEF Call, Pc
    <3>2. QED
      BY <1>1, <3>1 DEF Call
  <2>3. call' = [call EXCEPT ![s] = d]
    BY <1>5, <2>2
  <2>4. /\ call'[s] = d
        /\ \A u \in Session : u # s => call'[u] = call[u]
    BY <2>3, CallAt DEF Inv, CallsOK
  <2>5. CallOK(d)'
    BY <1>1, <1>2, <2>1, <2>2 DEF CallOK, Starting, Linking, Numbering
  <2>6. CallsOK'
    BY <1>2, <2>3, <2>5, CallMoves DEF Inv
  <2>7. LockInv'
    <3>1. lock' \in [Id -> Session \cup {NoOne}]
      BY <1>1, <1>5 DEF Inv, LockInv
    <3>2. lock'[c.on] = s /\ \A i \in Id : i # c.on => lock'[i] = lock[i]
      BY <1>1, <1>5 DEF Inv, LockInv
    <3>3. \A i \in Id : lock'[i] # NoOne => call'[lock'[i]].pc = "write" /\ call'[lock'[i]].on = i
      <4> SUFFICES ASSUME NEW i \in Id, lock'[i] # NoOne
                   PROVE  call'[lock'[i]].pc = "write" /\ call'[lock'[i]].on = i
        OBVIOUS
      <4>1. CASE i = c.on
        BY <2>2, <2>4, <3>2, <4>1
      <4>2. CASE i # c.on
        <5>1. lock[i] \in Session /\ call[lock[i]].pc = "write" /\ call[lock[i]].on = i
          BY <3>2, <4>2 DEF Inv, LockInv
        <5>2. QED
          BY <1>1, <2>4, <3>2, <4>2, <5>1
      <4>3. QED
        BY <4>1, <4>2
    <3>4. \A u \in Session : call'[u].pc = "write" => lock'[call'[u].on] = u
      <4> SUFFICES ASSUME NEW u \in Session, call'[u].pc = "write"
                   PROVE  lock'[call'[u].on] = u
        OBVIOUS
      <4>1. CASE u = s
        BY <2>2, <2>4, <3>2, <4>1
      <4>2. CASE u # s
        <5>1. lock[call[u].on] = u /\ call[u].on \in Id
          BY <2>4, <4>2 DEF Inv, LockInv, CallsOK, CallOK
        <5>2. call[u].on # c.on
          BY <1>5, <5>1, Constants
        <5>3. QED
          BY <2>4, <3>2, <4>2, <5>1, <5>2
      <4>3. QED
        BY <4>1, <4>2
    <3>5. QED
      BY <3>1, <3>3, <3>4 DEF LockInv
  <2>8. ReadInv'
    <3>1. AsRead(tasks[c.on], tasks[c.on])
      BY DEF AsRead
    <3>2. QED
      BY <1>3, <2>2, <2>4, <3>1 DEF Inv, ReadInv
  <2>9. KeptInv'
    <3>1. \A u \in Session : u # s => Stays(u)
      BY <1>3, StaysWhenUnchanged
    <3>2. tasks[c.on].unshared = s => Kept(s, c.on)
      BY <1>5 DEF Kept
    <3>3. CallKept(s, d)
      BY <1>1, <2>2, <3>2 DEF CallKept, Claims
    <3>4. CallKept(s, d)'
      BY <1>3, <3>3 DEF CallKept, Kept, Noted
    <3>5. QED
      BY <2>3, <3>1, <3>4, KeptStays DEF Inv
  <2>10. NumberInv' /\ NextInv'
    <3>1. NumberOf(s, d) /\ \A i \in Id : Owes(d, i) <=> Owes(call[s], i)
      BY <1>1, <2>2 DEF NumberOf, Given, Owes, Numbering
    <3>2. QED
      BY <1>3, <2>3, <3>1, NumberStays, NextStays DEF Inv
  <2>11. StoreOK' /\ RetryOK'
    BY <1>3 DEF Inv, StoreOK, RetryOK
  <2>12. QED
    BY <2>6, <2>7, <2>8, <2>9, <2>10, <2>11 DEF Inv
<1>6. QED
  BY <1>4, <1>5 DEF Lock
-----------------------------------------------------------------------------
\* Heartbeats, the retry, and the colleague.

\* A step that moves no call.
LEMMA NoCall ==
  ASSUME Inv, UNCHANGED <<call, calls, lock, numbers, from, closes, nexts>>,
         StoreOK', RetryOK', ReadInv', \A u \in Session : Stays(u)
  PROVE  Inv'
<1>1. CallsOK' /\ LockInv'
  BY CallStays DEF Inv, LockInv
<1>2. KeptInv'
  BY StaysAll DEF Inv
<1>3. NumberInv' /\ NextInv'
  BY DEF Inv, NumberInv, NumberOf, Given, NextInv, Owed, Owes
<1>4. QED
  BY <1>1, <1>2, <1>3 DEF Inv

\* A step that changes only leases, heartbeats, the retry and the bounds.
LEMMA LeasesMove ==
  ASSUME Inv, UNCHANGED <<tasks, lock, watch, told, call, calls, numbers, seenVars>>, RetryOK',
         lease' \in [Id -> [by : Session \cup {Other, NoOne}, live : BOOLEAN]],
         \A i \in Id : lease'[i].live => lease'[i].by # NoOne
  PROVE  Inv'
<1>1. StoreOK' /\ ReadInv'
  BY DEF Inv, StoreOK, ReadInv, seenVars
<1>2. \A u \in Session : Stays(u)
  BY StaysWhenUnchanged DEF seenVars
<1>3. QED
  BY <1>1, <1>2, NoCall DEF seenVars

LEMMA BeatKeeps ==
  ASSUME Inv, NEW s \in Session, Beat(s)
  PROVE  Inv'
<1>1. UNCHANGED <<tasks, lock, watch, told, call, calls, numbers, seenVars>> /\ UNCHANGED retry
  BY DEF Beat, budget
<1>2. PICK mine \in SUBSET Id :
        lease' = [i \in Id |-> IF i \in mine THEN [by |-> s, live |-> TRUE] ELSE lease[i]]
  BY DEF Beat
<1>3. s # NoOne
  BY Constants
<1>4. lease' \in [Id -> [by : Session \cup {Other, NoOne}, live : BOOLEAN]]
  BY <1>2 DEF Inv, StoreOK
<1>5. \A i \in Id : lease'[i].live => lease'[i].by # NoOne
  BY <1>2, <1>3 DEF Inv, StoreOK
<1>6. RetryOK'
  BY <1>1 DEF Inv, RetryOK
<1>7. QED
  BY <1>1, <1>4, <1>5, <1>6, LeasesMove

LEMMA NoteBeatKeeps ==
  ASSUME Inv, NEW s \in Session, NoteBeat(s)
  PROVE  Inv'
<1>1. UNCHANGED <<tasks, lock, lease, call, calls, retry, numbers, started, wiped, from, closes, nexts>>
  BY DEF NoteBeat, budget, seenVars
<1>2. /\ told' = told \cup ({s} \X (watch[s] \ beat[s]))
      /\ watch' = [watch EXCEPT ![s] = watch[s] \cap beat[s]]
      /\ watch \in [Session -> SUBSET Id] /\ told \subseteq Session \X Id
  BY DEF NoteBeat, LostOf, Inv, StoreOK
<1>3. watch' \in [Session -> SUBSET Id] /\ told' \subseteq Session \X Id
  BY <1>2
<1>4. \A u \in Session : \A i \in Id : Noted(u, i) => Noted(u, i)'
  <2> SUFFICES ASSUME NEW u \in Session, NEW i \in Id, Noted(u, i)
               PROVE  i \in watch'[u] \/ <<u, i>> \in told'
    BY DEF Noted
  <2>1. CASE u # s
    BY <1>2, <2>1 DEF Noted
  <2>2. CASE u = s
    BY <1>2, <2>2 DEF Noted
  <2>3. QED
    BY <2>1, <2>2
<1>5. \A u \in Session : Stays(u)
  BY <1>1, <1>4 DEF Stays, Kept
<1>6. StoreOK' /\ RetryOK' /\ ReadInv'
  BY <1>1, <1>3 DEF Inv, StoreOK, RetryOK, ReadInv
<1>7. QED
  BY <1>1, <1>5, <1>6, NoCall

LEMMA RetryListKeeps ==
  ASSUME Inv, RetryList
  PROVE  Inv'
<1>1. UNCHANGED <<tasks, lock, watch, told, call, calls, numbers, seenVars>> /\ UNCHANGED lease
  BY DEF RetryList, budget
<1>2. PICK todo \in SUBSET (Session \X Id) :
        todo # {} /\ retry' = [NoRetry EXCEPT !.pc = "claim", !.todo = todo]
  BY DEF RetryList, There
<1>3. RetryOK'
  BY <1>2 DEF RetryOK, NoRetry
<1>4. QED
  BY <1>1, <1>3, LeasesMove DEF Inv, StoreOK

LEMMA RetryClaimKeeps ==
  ASSUME Inv, RetryClaim
  PROVE  Inv'
<1> DEFINE e == CHOOSE x \in retry.todo : TRUE
<1>1. UNCHANGED <<tasks, lock, watch, told, call, calls, numbers, seenVars>> /\ retry.pc = "claim"
  BY DEF RetryClaim
<1>2. e \in retry.todo /\ e[1] \in Session /\ e[2] \in Id
  BY <1>1 DEF Inv, RetryOK
<1>3. lease' = lease \/ lease' = [lease EXCEPT ![e[2]] = [by |-> e[1], live |-> TRUE]]
  BY DEF RetryClaim, Answered, Outage
<1>4. \/ \E x \in {"granted", "refused"} : retry' = [retry EXCEPT !.pc = "clear", !.claim = x]
      \/ retry' = NoRetry
  BY DEF RetryClaim
<1>5. RetryOK'
  <2>1. CASE retry' = NoRetry
    BY <2>1 DEF RetryOK, NoRetry
  <2>2. ASSUME NEW x \in {"granted", "refused"}, retry' = [retry EXCEPT !.pc = "clear", !.claim = x]
        PROVE  RetryOK'
    <3>1. /\ retry \in [pc : {"idle", "claim", "clear"}, todo : SUBSET (Session \X Id),
                      claim : {"none", "granted", "refused"}]
          /\ retry.todo # {}
      BY <1>1 DEF Inv, RetryOK
    <3>2. /\ retry' \in [pc : {"idle", "claim", "clear"}, todo : SUBSET (Session \X Id),
                       claim : {"none", "granted", "refused"}]
          /\ retry'.pc = "clear" /\ retry'.todo = retry.todo /\ retry'.claim = x
      BY <2>2, <3>1
    <3>3. QED
      BY <3>1, <3>2 DEF RetryOK
  <2>3. QED
    BY <1>4, <2>1, <2>2
<1>6. /\ lease' \in [Id -> [by : Session \cup {Other, NoOne}, live : BOOLEAN]]
      /\ \A j \in Id : lease'[j].live => lease'[j].by # NoOne
  BY <1>2, <1>3, LeaseType DEF Inv
<1>7. QED
  BY <1>1, <1>5, <1>6, LeasesMove

LEMMA RetryClearKeeps ==
  ASSUME Inv, RetryClear
  PROVE  Inv'
<1> DEFINE e == CHOOSE x \in retry.todo : TRUE
           s == e[1]
           i == e[2]
           left == retry.todo \ {e}
<1>1. UNCHANGED <<lock, lease, call, calls, numbers, started, from, closes, nexts>> /\ retry.pc = "clear"
  BY DEF RetryClear, budget
<1>2. e \in retry.todo /\ e \in Session \X Id /\ s \in Session /\ i \in Id /\ e = <<s, i>>
  BY <1>1 DEF Inv, RetryOK
<1>3. retry.claim \in {"granted", "refused"}
  BY <1>1 DEF Inv, RetryOK
<1>4. /\ watch' = IF retry.claim = "granted" THEN [watch EXCEPT ![s] = watch[s] \cup {i}] ELSE watch
      /\ told' = IF retry.claim = "refused" THEN told \cup {e} ELSE told
      /\ tasks' = IF tasks[i] = NoTask THEN tasks ELSE [tasks EXCEPT ![i].unshared = NoOne]
      /\ wiped' = IF tasks[i] # NoTask /\ tasks[i].unshared \notin {NoOne, s}
                  THEN wiped \cup {<<tasks[i].unshared, i>>} ELSE wiped
      /\ retry' = IF left = {} THEN NoRetry ELSE [NoRetry EXCEPT !.pc = "claim", !.todo = left]
  BY DEF RetryClear, RetryTells
<1> HIDE DEF e, s, i
<1>5. /\ watch' \in [Session -> SUBSET Id] /\ told' \subseteq Session \X Id
      /\ \A u \in Session : watch[u] \subseteq watch'[u]
      /\ told \subseteq told' /\ wiped \subseteq wiped'
      /\ i \in watch'[s] \/ <<s, i>> \in told'
  BY <1>2, <1>3, <1>4 DEF Inv, StoreOK
<1>6. /\ tasks' \in [Id -> Task \cup {NoTask}]
      /\ \A j \in Id : j # i => tasks'[j] = tasks[j]
      /\ tasks[i] = NoTask => tasks'[i] = NoTask
      /\ tasks[i] # NoTask => /\ tasks[i] \in Task /\ tasks'[i] \in Task
                             /\ tasks'[i].status = tasks[i].status /\ tasks'[i].closed = tasks[i].closed
                             /\ tasks'[i].deps = tasks[i].deps /\ tasks'[i].blocks = tasks[i].blocks
  <2>1. tasks[i] \in Task \cup {NoTask} /\ tasks \in [Id -> Task \cup {NoTask}]
    BY <1>2 DEF Inv, StoreOK
  <2>2. CASE tasks[i] = NoTask
    BY <1>4, <2>1, <2>2
  <2>3. CASE tasks[i] # NoTask
    <3>1. PICK t \in Task : t = [tasks[i] EXCEPT !.unshared = NoOne]
      BY <2>1, <2>3 DEF Task
    <3>2. /\ t.status = tasks[i].status /\ t.closed = tasks[i].closed
          /\ t.deps = tasks[i].deps /\ t.blocks = tasks[i].blocks
      BY <2>1, <2>3, <3>1 DEF Task
    <3>3. tasks' = [tasks EXCEPT ![i] = t]
      BY <1>4, <2>3, <3>1
    <3>4. QED
      BY <1>2, <2>1, <2>3, <3>2, <3>3
  <2>4. QED
    BY <2>2, <2>3
<1>7. StoreOK'
  BY <1>1, <1>5, <1>6 DEF Inv, StoreOK
<1>8. ReadInv'
  <2>1. \A j \in Id : \A u : AsRead(tasks[j], u) => AsRead(tasks'[j], u)
    BY <1>2, <1>6 DEF AsRead
  <2>2. \A u \in Session : call[u].pc = "write" => call[u].on \in Id
    BY DEF Inv, CallsOK, CallOK
  <2>3. QED
    BY <1>1, <2>1, <2>2 DEF Inv, ReadInv
<1>9. ASSUME NEW u \in Session
      PROVE  Stays(u)
  <2>1. \A j \in Id : Noted(u, j) => Noted(u, j)'
    BY <1>5 DEF Noted
  <2>2. ASSUME NEW j \in Id, tasks[j] # NoTask, tasks[j].unshared = u
        PROVE  Kept(u, j)'
    <3>1. CASE j # i
      BY <1>6, <2>2, <3>1 DEF Kept
    <3>2. CASE j = i /\ u = s
      BY <1>5, <3>2 DEF Kept, Noted
    <3>3. CASE j = i /\ u # s
      BY <1>4, <2>2, <3>3, Constants DEF Kept
    <3>4. QED
      BY <3>1, <3>2, <3>3
  <2>3. \A j \in Id : Kept(u, j) => Kept(u, j)'
    BY <1>5, <2>1, <2>2 DEF Kept
  <2>4. \A j \in Id : tasks'[j] # NoTask => tasks[j] # NoTask
    BY <1>2, <1>6
  <2>5. QED
    BY <1>1, <2>1, <2>3, <2>4 DEF Stays
<1>10. RetryOK'
  <2>1. left \subseteq Session \X Id
    BY DEF Inv, RetryOK
  <2> HIDE DEF left
  <2>2. QED
    BY <1>4, <2>1 DEF RetryOK, NoRetry
<1>11. QED
  BY <1>1, <1>7, <1>8, <1>9, <1>10, NoCall

LEMMA LapseKeeps ==
  ASSUME Inv, NEW i \in Id, Lapse(i)
  PROVE  Inv'
<1>1. UNCHANGED <<tasks, lock, watch, told, call, calls, numbers, seenVars>> /\ UNCHANGED retry
  BY DEF Lapse
<1>2. lease' = [lease EXCEPT ![i].live = FALSE]
  BY DEF Lapse
<1>3. lease' \in [Id -> [by : Session \cup {Other, NoOne}, live : BOOLEAN]]
  BY <1>2 DEF Inv, StoreOK
<1>4. \A j \in Id : lease'[j].live => lease'[j].by # NoOne
  BY <1>2 DEF Inv, StoreOK
<1>5. RetryOK'
  BY <1>1 DEF Inv, RetryOK
<1>6. QED
  BY <1>1, <1>3, <1>4, <1>5, LeasesMove

LEMMA OtherTakesKeeps ==
  ASSUME Inv, NEW i \in Id, OtherTakes(i)
  PROVE  Inv'
<1>1. UNCHANGED <<tasks, lock, watch, told, call, calls, numbers, seenVars>> /\ UNCHANGED retry
  BY DEF OtherTakes, budget
<1>2. lease' = [lease EXCEPT ![i] = [by |-> Other, live |-> TRUE]] /\ Other # NoOne
  BY TasksAssumption DEF OtherTakes
<1>3. lease' \in [Id -> [by : Session \cup {Other, NoOne}, live : BOOLEAN]]
  BY <1>2 DEF Inv, StoreOK
<1>4. \A j \in Id : lease'[j].live => lease'[j].by # NoOne
  BY <1>2 DEF Inv, StoreOK
<1>5. RetryOK'
  BY <1>1 DEF Inv, RetryOK
<1>6. QED
  BY <1>1, <1>3, <1>4, <1>5, LeasesMove
-----------------------------------------------------------------------------
\* Writes.

LEMMA UpdatedType ==
  ASSUME CallsOK, NEW s \in Session, NEW c \in Call, CallOK(c), c.pc = "write", NEW t \in Task
  PROVE  /\ Updated(s, c, t) \in Task
         /\ c.op \in Linking => Updated(s, c, t).unshared = t.unshared
         /\ c.op \notin Linking => Updated(s, c, t).unshared =
              IF Mark(s, c) = c.cur.unshared THEN t.unshared ELSE Mark(s, c)
<1>1. c.cur \in Task /\ c.n \in 1..calls /\ c.to \in Status
  BY DEF CallOK, Call
<1>2. CASE c.op \in Linking
  <2>1. c.other \in Id
    BY <1>2 DEF CallOK
  <2>2. Edges(c.cur.deps, c.op, c.other) \in SUBSET Id /\ Edges(c.cur.blocks, c.op, c.other) \in SUBSET Id
    BY <1>1, <2>1 DEF Edges, Task
  <2>3. \A e \in SUBSET Id : /\ [t EXCEPT !.deps = e] \in Task /\ [t EXCEPT !.deps = e].unshared = t.unshared
                            /\ [t EXCEPT !.blocks = e] \in Task /\ [t EXCEPT !.blocks = e].unshared = t.unshared
    BY DEF Task
  <2>4. \/ Updated(s, c, t) = [t EXCEPT !.deps = Edges(c.cur.deps, c.op, c.other)]
        \/ Updated(s, c, t) = [t EXCEPT !.blocks = Edges(c.cur.blocks, c.op, c.other)]
    BY <1>2 DEF Updated, Linking
  <2>5. QED
    BY <1>2, <2>2, <2>3, <2>4
<1>3. CASE c.op \notin Linking
  <2>1. ClosedAt(c) \in 0..MaxCalls + 1
    <3>1. c.n \in 0..MaxCalls + 1
      BY <1>1, Constants DEF CallsOK
    <3>2. c.cur.closed \in 0..MaxCalls + 1
      BY <1>1 DEF Task
    <3>3. QED
      BY <3>1, <3>2 DEF ClosedAt
  <2>2. Mark(s, c) \in Session \cup {NoOne}
    BY DEF Mark
  <2>3. PICK m \in Session \cup {NoOne} :
          m = IF Mark(s, c) = c.cur.unshared THEN t.unshared ELSE Mark(s, c)
    BY <2>2 DEF Task
  <2>4. Updated(s, c, t) = [t EXCEPT !.status = c.to, !.closed = ClosedAt(c), !.unshared = m]
    BY <1>3, <2>3 DEF Updated, Linking
  <2>5. [t EXCEPT !.status = c.to, !.closed = ClosedAt(c), !.unshared = m] \in Task
    BY <1>1, <2>1 DEF Task
  <2>6. [t EXCEPT !.status = c.to, !.closed = ClosedAt(c), !.unshared = m].unshared = m
    BY DEF Task
  <2>7. QED
    BY <1>3, <2>3, <2>4, <2>5, <2>6
<1>4. QED
  BY <1>2, <1>3

\* Where a call goes on after its write.
Goes(c, d) ==
  \/ d = Idle /\ (c.op \in Linking \cup Starting \/ ~Recurs(c))
  \/ /\ d.pc = "lock" /\ c.op \in Linking /\ d.op = c.op /\ d.on = c.other /\ d.other = c.on
     /\ d.n = c.n /\ d.claim = c.claim
  \/ /\ d.pc \in {"release", "max"} /\ c.op \notin Linking \cup Starting
     /\ d.pc = "max" => Recurs(c)
     /\ d.op = c.op /\ d.on = c.on /\ d.n = c.n /\ d.to = c.to
     /\ d.seen = c.seen /\ d.cur = c.cur /\ d.claim = c.claim

LEMMA AfterWriteGoes ==
  ASSUME NEW c \in Call, CallOK(c), c.pc = "write"
  PROVE  AfterWrite(c) \in Call /\ Goes(c, AfterWrite(c))
<1>1. CASE c.op \in Linking
  <2>1. c.on \in Id /\ c.other \in Id
    BY <1>1 DEF CallOK
  <2>2. AfterWrite(c) = OtherEdge(c)
    BY <1>1 DEF AfterWrite, Linking
  <2>3. QED
    BY <1>1, <2>1, <2>2, OtherEdgeGoes DEF Goes
<1>2. CASE c.op \in Starting
  <2>1. AfterWrite(c) = Idle
    BY <1>2 DEF AfterWrite, Starting
  <2>2. QED
    BY <1>2, <2>1, IdleCall DEF Goes
<1>3. CASE c.op \notin Linking \cup Starting
  <2>1. AfterWrite(c) = IF Releases(c) THEN [c EXCEPT !.pc = "release"] ELSE AfterRelease(c)
    BY <1>3 DEF AfterWrite, Linking, Starting
  <2>2. AfterRelease(c) = IF Recurs(c) THEN [c EXCEPT !.pc = "max"] ELSE Idle
    BY DEF AfterRelease
  <2>3. ASSUME NEW pc \in {"release", "max"}
        PROVE  LET d == [c EXCEPT !.pc = pc] IN
               /\ d \in Call /\ d.pc = pc
               /\ d.op = c.op /\ d.on = c.on /\ d.n = c.n /\ d.to = c.to
               /\ d.seen = c.seen /\ d.cur = c.cur /\ d.claim = c.claim
    <3>1. [c EXCEPT !.pc = pc] \in Call
      BY DEF Call, Pc
    <3>2. QED
      BY <3>1 DEF Call
  <2>4. QED
    BY <1>3, <2>1, <2>2, <2>3, IdleCall DEF Goes
<1>4. QED
  BY <1>1, <1>2, <1>3

LEMMA WriteKeeps ==
  ASSUME Inv, NEW s \in Session, Write(s)
  PROVE  Inv'
<1> DEFINE c == call[s]
<1>0. PICK i \in Id : i = c.on
  BY DEF Write, Inv, CallsOK, CallOK
<1> DEFINE t == tasks[i]
<1>1. /\ c \in Call /\ CallOK(c) /\ c.pc = "write" /\ CallKept(s, c) /\ i = c.on /\ c.cur \in Task
      /\ lock[i] = s /\ AsRead(t, c.cur)
  BY <1>0 DEF Write, Inv, CallsOK, KeptInv, CallOK, LockInv, ReadInv
<1>2. UNCHANGED calls /\ calls' \in calls..MaxCalls
  <2>1. UNCHANGED calls
    BY DEF Write, budget
  <2>2. QED
    BY <2>1, CallsStay DEF Inv
<1>3. UNCHANGED <<lease, watch, told, retry, numbers, from, nexts>>
  BY DEF Write
<1>4. PICK d \in Call : call' = [call EXCEPT ![s] = d] /\ Goes(c, d)
  BY <1>1, AfterWriteGoes DEF Write
<1>5. /\ call'[s] = d
      /\ \A u \in Session : u # s => call'[u] = call[u]
  BY <1>4, CallAt DEF Inv, CallsOK
<1>6. d.pc \in {"idle", "lock", "release", "max"}
  BY <1>4, IdleCall DEF Goes
<1>7. d # Idle => d.on \in Id /\ (Recurs(c) /\ d.pc # "lock" => Recurs(d))
  <2>1. c.op \in Linking => c.other \in Id
    BY <1>1 DEF CallOK
  <2>2. QED
    BY <1>1, <1>4, <2>1 DEF Goes, Recurs
<1>8. CallOK(d)'
  <2>1. CASE d = Idle
    BY <2>1, IdleCall DEF CallOK
  <2>2. CASE d # Idle /\ d.pc = "lock"
    BY <1>1, <1>2, <1>4, <1>7, <2>2 DEF CallOK, Goes, Starting, Linking, Numbering
  <2>3. CASE d # Idle /\ d.pc # "lock"
    BY <1>1, <1>2, <1>4, <1>7, <2>3 DEF CallOK, Goes, Starting, Linking, Numbering
  <2>4. QED
    BY <2>1, <2>2, <2>3
<1>9. CallsOK'
  BY <1>2, <1>4, <1>8, CallMoves DEF Inv
<1>10. /\ lock' = [lock EXCEPT ![i] = NoOne]
       /\ \A u \in Session : u # s /\ call[u].pc = "write" => call[u].on \in Id \ {i}
  <2>1. lock' = [lock EXCEPT ![i] = NoOne]
    BY <1>1 DEF Write, Unlocked
  <2>2. \A u \in Session : call[u].pc = "write" => call[u].on \in Id /\ lock[call[u].on] = u
    BY DEF Inv, LockInv, CallsOK, CallOK
  <2>3. QED
    BY <1>1, <2>1, <2>2
<1>11. LockInv'
  <2>1. lock' \in [Id -> Session \cup {NoOne}]
    BY <1>10 DEF Inv, LockInv
  <2>2. ASSUME NEW j \in Id, lock'[j] # NoOne
        PROVE  call'[lock'[j]].pc = "write" /\ call'[lock'[j]].on = j
    <3>1. j # i /\ lock'[j] = lock[j] /\ lock[j] \in Session
      BY <1>1, <1>10, <2>2 DEF Inv, LockInv
    <3>2. call[lock[j]].pc = "write" /\ call[lock[j]].on = j
      BY <2>2, <3>1 DEF Inv, LockInv
    <3>3. lock[j] # s
      BY <1>1, <3>1, <3>2
    <3>4. QED
      BY <1>5, <3>1, <3>2, <3>3
  <2>3. ASSUME NEW u \in Session, call'[u].pc = "write"
        PROVE  lock'[call'[u].on] = u
    <3>1. u # s
      BY <1>5, <1>6, <2>3
    <3>2. call'[u] = call[u] /\ call[u].on \in Id \ {i} /\ lock[call[u].on] = u
      BY <1>5, <1>10, <2>3, <3>1 DEF Inv, LockInv
    <3>3. QED
      BY <1>10, <3>2 DEF Inv, LockInv
  <2>4. QED
    BY <2>1, <2>2, <2>3 DEF LockInv
<1>12. /\ tasks' \in [Id -> Task \cup {NoTask}]
       /\ \A j \in Id : j # i => tasks'[j] = tasks[j]
       /\ t = NoTask => tasks'[i] = NoTask
       /\ t # NoTask => t \in Task /\ tasks'[i] \in Task /\ tasks'[i] = Updated(s, c, t)
  <2>1. t \in Task \cup {NoTask} /\ tasks \in [Id -> Task \cup {NoTask}]
    BY <1>1 DEF Inv, StoreOK
  <2>2. tasks' = IF t = NoTask THEN tasks ELSE [tasks EXCEPT ![i] = Updated(s, c, t)]
    BY <1>1 DEF Write
  <2>3. t # NoTask => Updated(s, c, t) \in Task
    BY <1>1, <2>1, UpdatedType DEF Inv
  <2>4. QED
    BY <1>1, <2>1, <2>2, <2>3
<1>13. ReadInv'
  BY <1>5, <1>6, <1>10, <1>12 DEF Inv, ReadInv
<1>14. /\ started' \in [Session -> SUBSET Id]
       /\ \A u \in Session : u # s => started'[u] = started[u]
       /\ c.op \in Linking => started'[s] = started[s]
       /\ c.op \in Starting => \A j \in started'[s] : j \in started[s] \/ (j = i /\ t # NoTask)
       /\ c.op \notin Linking \cup Starting => started'[s] = started[s] \ {i}
       /\ started'[s] \subseteq Id
  <2>1. started' = [u \in Session |->
          IF u # s \/ c.op \in Linking THEN started[u]
          ELSE IF c.op \in Starting /\ t # NoTask THEN started[u] \cup {i}
          ELSE started[u] \ {i}]
    BY <1>1 DEF Write, Linking, Starting
  <2>2. started \in [Session -> SUBSET Id]
    BY DEF Inv, StoreOK
  <2>3. c.op \in Starting => c.op \notin Linking
    BY DEF Starting, Linking
  <2>4. QED
    BY <1>1, <2>1, <2>2, <2>3
<1>15. StoreOK' /\ RetryOK'
  BY <1>3, <1>12, <1>14 DEF Inv, StoreOK, RetryOK
<1>16. wiped' = IF t # NoTask /\ t.unshared \notin {NoOne, s} /\ tasks'[i].unshared # t.unshared
                THEN wiped \cup {<<t.unshared, i>>} ELSE wiped
  BY <1>1 DEF Write
<1>17. ASSUME NEW u \in Session, u # s
       PROVE  Stays(u)
  <2>1. \A j \in Id : Noted(u, j) => Noted(u, j)'
    BY <1>3 DEF Noted
  <2>2. ASSUME NEW j \in Id, tasks[j] # NoTask, tasks[j].unshared = u
        PROVE  Kept(u, j)'
    <3>1. CASE j # i
      BY <1>12, <2>2, <3>1 DEF Kept
    <3>2. CASE j = i
      BY <1>12, <1>16, <1>17, <2>2, <3>2, Constants DEF Kept
    <3>3. QED
      BY <3>1, <3>2
  <2>3. \A j \in Id : Kept(u, j) => Kept(u, j)'
    BY <1>16, <2>1, <2>2 DEF Kept
  <2>4. \A j \in Id : tasks'[j] # NoTask => tasks[j] # NoTask
    BY <1>1, <1>12
  <2>5. QED
    BY <1>14, <1>17, <2>1, <2>3, <2>4 DEF Stays
<1>18. CallKept(s, d)'
  <2>1. \A j \in Id : j # i /\ Kept(s, j) => Kept(s, j)'
    BY <1>3, <1>12, <1>16 DEF Kept, Noted
  <2>2. \A j \in started[s] : j \in Id /\ (j # i /\ tasks[j] # NoTask => Kept(s, j))
    BY <1>1 DEF CallKept, Claims, Inv, StoreOK
  <2>3. \A j \in started[s] : j # i /\ tasks'[j] # NoTask => Kept(s, j)'
    BY <1>12, <2>1, <2>2
  <2>4. CASE c.op \in Linking
    <3>1. c.claim = "none" /\ c.op \notin Starting
      BY <1>1, <2>4 DEF CallOK, Linking, Starting
    <3>2. i \in started[s] /\ t # NoTask => Kept(s, i)
      BY <1>1, <3>1 DEF CallKept, Claims
    <3>3. t # NoTask => tasks'[i].unshared = t.unshared
      BY <1>1, <1>12, <2>4, UpdatedType DEF Inv
    <3>4. i \in started[s] /\ tasks'[i] # NoTask => Kept(s, i)'
      BY <1>3, <1>12, <1>16, <3>2, <3>3 DEF Kept, Noted
    <3>5. d.pc = "idle" \/ (d.pc = "lock" /\ d.claim = "none")
      BY <1>4, <2>4, <3>1, IdleCall DEF Goes
    <3>6. QED
      BY <1>14, <2>3, <2>4, <3>4, <3>5 DEF CallKept
  <2>5. CASE c.op \in Starting
    <3>1. d = Idle /\ c.claim \in {"granted", "unshared"} /\ c.op \notin Linking
      BY <1>1, <1>4, <2>5 DEF Goes, CallOK, Call, Starting, Linking
    <3>2. ASSUME t # NoTask, c.claim = "granted"
          PROVE  Kept(s, i)'
      BY <1>1, <1>3, <3>2 DEF CallKept, Kept, Noted
    <3>3. ASSUME t # NoTask, c.claim = "unshared", c.cur.unshared = s
          PROVE  Kept(s, i)'
      <4>1. Kept(s, i)
        BY <1>1, <3>3 DEF CallKept
      <4>2. tasks'[i].unshared = t.unshared /\ tasks'[i] # NoTask
        BY <1>1, <1>12, <3>1, <3>3, UpdatedType, Constants DEF Inv, Mark
      <4>3. QED
        BY <1>3, <1>16, <4>1, <4>2 DEF Kept, Noted
    <3>4. ASSUME t # NoTask, c.claim = "unshared", c.cur.unshared # s
          PROVE  Kept(s, i)'
      <4>1. tasks'[i].unshared = s /\ tasks'[i] # NoTask
        BY <1>1, <1>12, <3>1, <3>4, UpdatedType, Constants DEF Inv, Mark
      <4>2. QED
        BY <4>1 DEF Kept
    <3>5. tasks'[i] # NoTask => Kept(s, i)'
      BY <1>12, <3>1, <3>2, <3>3, <3>4
    <3>6. QED
      BY <1>14, <2>3, <2>5, <3>1, <3>5, IdleCall DEF CallKept
  <2>6. CASE c.op \notin Linking \cup Starting
    <3>1. started'[s] = started[s] \ {i}
      BY <1>14, <2>6
    <3>2. d.pc \in {"idle", "release", "max"} /\ (d.pc = "release" => d.on = i)
      BY <1>1, <1>4, <2>6, IdleCall DEF Goes
    <3>3. QED
      BY <2>3, <3>1, <3>2 DEF CallKept
  <2>7. QED
    BY <2>4, <2>5, <2>6
<1>19. KeptInv'
  BY <1>4, <1>17, <1>18, KeptStays DEF Inv
<1>20. NumberInv'
  <2>1. NumberOf(s, d)
    BY <1>6 DEF NumberOf, Given
  <2>2. QED
    BY <1>3, <1>4, <2>1, NumberStays DEF Inv
<1>21. NextInv'
  <2>1. closes' = IF c.op = "finish" /\ (IF t = NoTask THEN TRUE ELSE t.status # "complete")
                  THEN [closes EXCEPT ![i] = closes[i] + 1] ELSE closes
    BY <1>1 DEF Write, Inv, NextInv
  <2>2. closes \in [Id -> Nat] /\ nexts \in [Id -> Nat] /\ UNCHANGED nexts
    BY <1>3 DEF Inv, NextInv
  <2>3. closes' \in [Id -> Nat] /\ \A j \in Id : closes'[j] >= closes[j]
    BY <1>1, <2>1, <2>2
  <2>4. \A j \in Id : ~Owes(c, j)
    BY <1>1 DEF Owes, Numbering
  <2>5. ASSUME NEW j \in Id, ~Owes(d, j)
        PROVE  Owed(j)' = Owed(j)
    <3>1. \A u \in Session : Owes(call'[u], j) <=> Owes(call[u], j)
      BY <1>5, <2>4, <2>5
    <3>2. QED
      BY <3>1, Zenon DEF Owed
  <2>6. ASSUME NEW j \in Id, Owes(d, j)
        PROVE  /\ Owed(j)' = Owed(j) \cup {s} /\ s \notin Owed(j)
               /\ closes'[j] = closes[j] + 1
    <3>1. \A u \in Session : u # s => (Owes(call'[u], j) <=> Owes(call[u], j))
      BY <1>5
    <3>2. Owes(call'[s], j) /\ ~Owes(call[s], j)
      BY <1>5, <2>4, <2>6
    <3>3. Owed(j)' = Owed(j) \cup {s} /\ s \notin Owed(j)
      BY <3>1, <3>2 DEF Owed
    <3>4. d # Idle /\ d.pc # "lock" /\ j = i /\ Recurs(c)
      BY <1>1, <1>4, <2>6, IdleCall DEF Owes, Goes, Recurs, Numbering
    <3>5. c.op = "finish" /\ c.cur.status # "complete"
      BY <3>4 DEF Recurs
    <3>6. t = NoTask \/ t.status # "complete"
      BY <1>1, <3>5 DEF AsRead
    <3>7. QED
      BY <1>1, <2>1, <2>2, <3>3, <3>4, <3>5, <3>6
  <2>7. \A j \in Id : nexts[j] + Cardinality(Owed(j)) <= closes[j]
    BY DEF Inv, NextInv
  <2>8. \A j \in Id : IsFiniteSet(Owed(j)) /\ Cardinality(Owed(j)) \in Nat
    <3>1. \A j \in Id : Owed(j) \in SUBSET Session
      BY DEF Owed
    <3>2. QED
      BY <3>1, Constants, FS_Subset, FS_CardinalityType
  <2>9. ASSUME NEW j \in Id
        PROVE  nexts'[j] + Cardinality(Owed(j)') <= closes'[j]
    <3>1. nexts[j] \in Nat /\ closes[j] \in Nat /\ closes'[j] \in Nat /\ nexts'[j] = nexts[j]
      BY <2>2, <2>3
    <3>2. CASE ~Owes(d, j)
      BY <2>3, <2>5, <2>7, <2>8, <3>1, <3>2
    <3>3. CASE Owes(d, j)
      <4>1. Cardinality(Owed(j) \cup {s}) = Cardinality(Owed(j)) + 1
        BY <2>6, <2>8, <3>3, FS_AddElement
      <4>2. QED
        BY <2>6, <2>7, <2>8, <3>1, <3>3, <4>1
    <3>4. QED
      BY <3>2, <3>3
  <2>10. QED
    BY <2>2, <2>3, <2>9 DEF NextInv
<1>22. QED
  BY <1>9, <1>11, <1>13, <1>15, <1>19, <1>20, <1>21 DEF Inv

\* What a task's end takes from what is known of the claims on it.
LEMMA GoneStays ==
  ASSUME StoreOK, NEW i \in Id, Gone(i), UNCHANGED <<watch, told>>,
         \A j \in Id : j # i => tasks'[j] = tasks[j]
  PROVE  /\ started' \in [Session -> SUBSET Id]
         /\ \A u \in Session : i \notin started'[u] /\ Stays(u)
<1>1. /\ started' = [u \in Session |-> started[u] \ {i}]
      /\ wiped' = IF tasks[i] # NoTask /\ tasks[i].unshared # NoOne
                  THEN wiped \cup {<<tasks[i].unshared, i>>} ELSE wiped
  BY DEF Gone
<1>2. started' \in [Session -> SUBSET Id] /\ \A u \in Session : started'[u] = started[u] \ {i}
  BY <1>1 DEF StoreOK
<1>3. ASSUME NEW u \in Session
      PROVE  Stays(u)
  <2>1. \A j \in Id : Noted(u, j) => Noted(u, j)'
    BY DEF Noted
  <2>2. ASSUME NEW j \in Id, tasks[j] # NoTask, tasks[j].unshared = u
        PROVE  Kept(u, j)'
    <3>1. CASE j # i
      BY <2>2, <3>1 DEF Kept
    <3>2. CASE j = i
      BY <1>1, <2>2, <3>2, Constants DEF Kept
    <3>3. QED
      BY <3>1, <3>2
  <2>3. \A j \in Id : Kept(u, j) => Kept(u, j)'
    BY <1>1, <2>1, <2>2 DEF Kept
  <2>4. \A j \in Id : j \in started'[u] /\ tasks'[j] # NoTask => tasks[j] # NoTask
    BY <1>2
  <2>5. QED
    BY <1>2, <2>1, <2>3, <2>4 DEF Stays
<1>4. QED
  BY <1>2, <1>3

LEMMA RemoveKeeps ==
  ASSUME Inv, NEW s \in Session, Remove(s)
  PROVE  Inv'
<1> DEFINE c == call[s]
<1>1. /\ c \in Call /\ CallOK(c) /\ c.pc = "delete" /\ CallKept(s, c) /\ c.on \in Id
      /\ c.op = "delete"
  BY DEF Remove, Inv, CallsOK, KeptInv, CallOK
<1>2. PICK i \in Id : i = c.on
  BY <1>1
<1>3. UNCHANGED calls /\ calls' \in calls..MaxCalls
  <2>1. UNCHANGED calls
    BY DEF Remove, budget
  <2>2. QED
    BY <2>1, CallsStay DEF Inv
<1>4. /\ UNCHANGED <<lock, lease, watch, told, retry, numbers, from, closes, nexts>>
      /\ Gone(i) /\ tasks' = [tasks EXCEPT ![i] = NoTask]
  BY <1>2 DEF Remove
<1>5. PICK d \in Call :
        /\ call' = [call EXCEPT ![s] = d]
        /\ \/ d = Idle
           \/ d.pc = "release" /\ d.op = c.op /\ d.on = i /\ d.n = c.n
  <2> DEFINE e == [c EXCEPT !.pc = "release"]
  <2>1. e \in Call
    BY <1>1 DEF Call, Pc
  <2>2. e.pc = "release" /\ e.op = c.op /\ e.on = i /\ e.n = c.n
    BY <1>1, <1>2 DEF Call
  <2>3. call' = [call EXCEPT ![s] = e] \/ call' = [call EXCEPT ![s] = Idle]
    BY DEF Remove
  <2>4. QED
    BY <2>1, <2>2, <2>3, IdleCall
<1>6. d.pc \in {"idle", "release"} /\ (d.pc = "release" => d.on = i)
  BY <1>5, IdleCall
<1>7. CallOK(d)'
  <2>1. CASE d = Idle
    BY <2>1, IdleCall DEF CallOK
  <2>2. CASE d # Idle
    BY <1>1, <1>3, <1>5, <2>2 DEF CallOK, Starting, Linking, Numbering
  <2>3. QED
    BY <2>1, <2>2
<1>8. CallsOK'
  BY <1>3, <1>5, <1>7, CallMoves DEF Inv
<1>9. LockInv'
  BY <1>1, <1>4, <1>5, <1>6, LockStays DEF Inv
<1>10. /\ tasks' \in [Id -> Task \cup {NoTask}]
       /\ tasks'[i] = NoTask
       /\ \A j \in Id : j # i => tasks'[j] = tasks[j]
  BY <1>4 DEF Inv, StoreOK
<1>11. ReadInv'
  <2>1. /\ call'[s] = d
        /\ \A u \in Session : u # s => call'[u] = call[u]
    BY <1>5, CallAt DEF Inv, CallsOK
  <2>2. \A u \in Session : call[u].pc = "write" => call[u].on \in Id /\ AsRead(tasks[call[u].on], call[u].cur)
    BY DEF Inv, ReadInv, CallsOK, CallOK
  <2>3. \A x : AsRead(tasks'[i], x)
    BY <1>10 DEF AsRead
  <2>4. QED
    BY <1>6, <1>10, <2>1, <2>2, <2>3 DEF ReadInv
<1>12. /\ started' \in [Session -> SUBSET Id]
       /\ \A u \in Session : i \notin started'[u] /\ Stays(u)
  BY <1>4, <1>10, GoneStays DEF Inv
<1>13. StoreOK' /\ RetryOK'
  BY <1>4, <1>10, <1>12 DEF Inv, StoreOK, RetryOK
<1>14. CallKept(s, d)'
  <2>1. \A j \in started[s] : j \in Id /\ (tasks[j] # NoTask => Kept(s, j))
    BY <1>1 DEF CallKept, Claims, Inv, StoreOK
  <2>2. \A j \in started'[s] : tasks'[j] # NoTask => Kept(s, j)'
    BY <1>12, <2>1 DEF Stays
  <2>3. QED
    BY <1>6, <1>12, <2>2 DEF CallKept
<1>15. KeptInv'
  BY <1>5, <1>12, <1>14, KeptStays DEF Inv
<1>16. NumberInv' /\ NextInv'
  <2>1. NumberOf(s, d)
    BY <1>6 DEF NumberOf, Given
  <2>2. \A j \in Id : Owes(d, j) <=> Owes(call[s], j)
    BY <1>1, <1>5, IdleCall DEF Owes, Numbering
  <2>3. QED
    BY <1>4, <1>5, <2>1, <2>2, NumberStays, NextStays DEF Inv
<1>17. QED
  BY <1>8, <1>9, <1>11, <1>13, <1>15, <1>16 DEF Inv

LEMMA AddKeeps ==
  ASSUME Inv, NEW s \in Session, Add(s)
  PROVE  Inv'
<1> DEFINE c == call[s]
<1>1. /\ c \in Call /\ CallOK(c) /\ c.pc = "add" /\ CallKept(s, c) /\ NumberOf(s, c)
      /\ c.floor \in Id /\ c.via \in Via
  BY DEF Add, Inv, CallsOK, KeptInv, CallOK, NumberInv
<1>2. PICK i \in Id : i = c.floor
  BY <1>1
<1>3. UNCHANGED calls /\ calls' \in calls..MaxCalls
  <2>1. UNCHANGED calls
    BY DEF Add, budget
  <2>2. QED
    BY <2>1, CallsStay DEF Inv
<1>4. PICK m \in BOOLEAN : tasks' = [tasks EXCEPT ![i] = Made(m)]
  BY <1>2 DEF Add
<1>5. /\ UNCHANGED <<lock, lease, watch, told, retry, numbers, closes>> /\ Gone(i)
      /\ call' = [call EXCEPT ![s] = Idle]
      /\ from' = [from EXCEPT ![i] = c.via]
      /\ nexts' = IF c.op = "finish" THEN [nexts EXCEPT ![c.on] = nexts[c.on] + 1] ELSE nexts
  BY <1>2 DEF Add, Inv, NextInv
<1>6. /\ call'[s] = Idle
      /\ \A u \in Session : u # s => call'[u] = call[u]
  BY <1>5, CallAt DEF Inv, CallsOK
<1>7. CallsOK'
  <2>1. CallOK(Idle)'
    BY IdleCall DEF CallOK
  <2>2. QED
    BY <1>3, <1>5, <2>1, IdleCall, CallMoves DEF Inv
<1>8. LockInv'
  BY <1>1, <1>5, IdleCall, LockStays DEF Inv
<1>9. /\ Made(m) \in Task
      /\ \A x : AsRead(Made(m), x)
  BY Constants DEF Made, Task, Status, AsRead
<1>10. /\ tasks' \in [Id -> Task \cup {NoTask}]
       /\ tasks'[i] = Made(m)
       /\ \A j \in Id : j # i => tasks'[j] = tasks[j]
  BY <1>4, <1>9 DEF Inv, StoreOK
<1>11. ReadInv'
  <2>1. \A u \in Session : call[u].pc = "write" => call[u].on \in Id /\ AsRead(tasks[call[u].on], call[u].cur)
    BY DEF Inv, ReadInv, CallsOK, CallOK
  <2>2. QED
    BY <1>6, <1>9, <1>10, <2>1, IdleCall DEF ReadInv
<1>12. /\ started' \in [Session -> SUBSET Id]
       /\ \A u \in Session : i \notin started'[u] /\ Stays(u)
  BY <1>5, <1>10, GoneStays DEF Inv
<1>13. StoreOK' /\ RetryOK'
  BY <1>5, <1>10, <1>12 DEF Inv, StoreOK, RetryOK
<1>14. KeptInv'
  <2>1. \A j \in started[s] : j \in Id /\ (tasks[j] # NoTask => Kept(s, j))
    BY <1>1 DEF CallKept, Claims, Inv, StoreOK
  <2>2. \A j \in started'[s] : tasks'[j] # NoTask => Kept(s, j)'
    BY <1>12, <2>1 DEF Stays
  <2>3. CallKept(s, Idle)'
    BY <2>2, IdleCall DEF CallKept
  <2>4. QED
    BY <1>5, <1>12, <2>3, KeptStays DEF Inv
<1>15. NumberInv'
  <2>1. /\ from' \in [Id -> Via \cup {"none"}] /\ from'[i] = c.via
        /\ \A j \in Id : j # i => from'[j] = from[j]
    BY <1>1, <1>5 DEF Inv, NumberInv
  <2>2. c.via \in Counter => i <= numbers[c.via]
    BY <1>1, <1>2 DEF NumberOf, Given, Counter
  <2>3. \A j \in Id : from'[j] \in Counter => j <= numbers'[from'[j]]
    BY <1>5, <2>1, <2>2 DEF Inv, NumberInv
  <2>4. ASSUME NEW u \in Session, u # s, Given(call[u])
        PROVE  from'[call[u].floor] # call[u].via
    <3>1. call[u].floor \in Id /\ from[call[u].floor] # call[u].via
      BY <2>4 DEF Inv, NumberInv, NumberOf, CallsOK, CallOK, Given
    <3>2. call[u].via = c.via => call[u].floor # i
      BY <1>1, <1>2, <2>4 DEF NumberOf, Given
    <3>3. QED
      BY <2>1, <3>1, <3>2
  <2>5. ~Given(call'[s])
    BY <1>6, IdleCall DEF Given
  <2>6. ASSUME NEW u \in Session
        PROVE  NumberOf(u, call[u])'
    <3>1. CASE u = s
      BY <2>5, <3>1 DEF NumberOf, Given
    <3>2. CASE u # s
      <4>1. NumberOf(u, call[u]) /\ call'[u] = call[u]
        BY <1>6, <3>2 DEF Inv, NumberInv
      <4>2. \A w \in Session : Given(call'[w]) => w # s /\ call'[w] = call[w]
        BY <1>6, <2>5
      <4>3. QED
        BY <1>5, <2>4, <3>2, <4>1, <4>2 DEF NumberOf, Given
    <3>3. QED
      BY <3>1, <3>2
  <2>7. QED
    BY <1>5, <2>1, <2>3, <2>6 DEF Inv, NumberInv
<1>16. NextInv'
  <2>1. closes \in [Id -> Nat] /\ nexts \in [Id -> Nat]
    BY DEF Inv, NextInv
  <2>2. \A j \in Id : nexts[j] + Cardinality(Owed(j)) <= closes[j]
    BY DEF Inv, NextInv
  <2>3. \A j \in Id : IsFiniteSet(Owed(j)) /\ Cardinality(Owed(j)) \in Nat
    <3>1. \A j \in Id : Owed(j) \in SUBSET Session
      BY DEF Owed
    <3>2. QED
      BY <3>1, Constants, FS_Subset, FS_CardinalityType
  <2>4. \A j \in Id : ~Owes(call'[s], j)
    BY <1>6, IdleCall
  <2>5. \A j \in Id : Owed(j)' = Owed(j) \ {s}
    BY <1>6, <2>4 DEF Owed
  <2>6. \A j \in Id : Owes(c, j) <=> c.op = "finish" /\ j = c.on
    BY <1>1 DEF Owes, CallOK, Numbering
  <2>7. nexts' \in [Id -> Nat]
    BY <1>1, <1>5, <2>1 DEF CallOK
  <2>8. ASSUME NEW j \in Id
        PROVE  nexts'[j] + Cardinality(Owed(j)') <= closes[j]
    <3>1. nexts[j] \in Nat /\ closes[j] \in Nat
      BY <2>1
    <3>2. CASE Owes(c, j)
      <4>1. s \in Owed(j)
        BY <3>2 DEF Owed
      <4>2. Cardinality(Owed(j)') = Cardinality(Owed(j)) - 1
        BY <2>3, <2>5, <4>1, FS_RemoveElement
      <4>3. nexts'[j] = nexts[j] + 1
        BY <1>5, <2>1, <2>6, <3>2
      <4>4. QED
        BY <2>2, <2>3, <3>1, <4>2, <4>3
    <3>3. CASE ~Owes(c, j)
      <4>1. s \notin Owed(j)
        BY <3>3 DEF Owed
      <4>2. Owed(j)' = Owed(j)
        BY <2>5, <4>1
      <4>3. nexts'[j] = nexts[j]
        BY <1>1, <1>5, <2>1, <2>6, <3>3 DEF CallOK
      <4>4. QED
        BY <2>2, <4>2, <4>3
    <3>4. QED
      BY <3>2, <3>3
  <2>9. QED
    BY <1>5, <2>1, <2>7, <2>8 DEF NextInv
<1>17. QED
  BY <1>7, <1>8, <1>11, <1>13, <1>14, <1>15, <1>16 DEF Inv
-----------------------------------------------------------------------------
LEMMA InitInv == Init => Inv
<1> SUFFICES ASSUME Init PROVE Inv
  OBVIOUS
<1>1. \A s \in Session : call[s] = Idle
  BY DEF Init
<1>2. StoreOK
  <2>1. \A i \in Id : (IF i \in DOMAIN Initial THEN Initial[i] ELSE NoTask) \in Task \cup {NoTask}
    BY TaskAssumption
  <2>2. tasks \in [Id -> Task \cup {NoTask}]
    BY <2>1 DEF Init
  <2>3. Free \in [by : Session \cup {Other, NoOne}, live : BOOLEAN] /\ ~Free.live
    BY DEF Free
  <2>4. QED
    BY <2>2, <2>3 DEF Init, StoreOK
<1>3. RetryOK
  BY DEF Init, RetryOK, NoRetry
<1>4. CallsOK
  BY <1>1, IdleCall, Constants DEF Init, CallsOK
<1>5. LockInv /\ ReadInv
  BY <1>1, IdleCall DEF Init, LockInv, ReadInv
<1>6. KeptInv
  BY <1>1, IdleCall DEF Init, KeptInv, CallKept
<1>7. NumberInv
  <2>1. numbers \in [Counter -> Nat] /\ from \in [Id -> Via \cup {"none"}]
    BY DEF Init, Counter
  <2>2. \A i \in Id : from[i] = "none"
    BY DEF Init
  <2>3. QED
    BY <1>1, <2>1, <2>2, IdleCall DEF NumberInv, Counter
<1>8. NextInv
  <2>1. \A i \in Id : Owed(i) = {}
    BY <1>1, IdleCall DEF Owed
  <2>2. QED
    <3>1. /\ closes \in [Id -> Nat] /\ nexts \in [Id -> Nat]
          /\ \A i \in Id : nexts[i] = 0 /\ closes[i] = 0
      BY DEF Init
    <3>2. \A i \in Id : Cardinality(Owed(i)) = 0
      BY <2>1, FS_EmptySet
    <3>3. QED
      BY <3>1, <3>2 DEF NextInv
<1>9. QED
  BY <1>2, <1>3, <1>4, <1>5, <1>6, <1>7, <1>8 DEF Inv

LEMMA StepInv == Inv /\ [Next]_vars => Inv'
<1> SUFFICES ASSUME Inv, [Next]_vars PROVE Inv'
  OBVIOUS
<1>1. ASSUME NEW s \in Session,
             \/ Start(s) \/ Finish(s) \/ SetAside(s) \/ Delete(s) \/ Create(s) \/ Link(s) \/ NextTask(s)
      PROVE  Inv'
  BY <1>1, StartKeeps, FinishKeeps, SetAsideKeeps, DeleteKeeps, CreateKeeps, LinkKeeps, NextTaskKeeps
<1>2. ASSUME NEW s \in Session,
             \/ Try(s) \/ Claim(s) \/ Note(s) \/ Release(s) \/ Lock(s) \/ Write(s) \/ Remove(s)
      PROVE  Inv'
  BY <1>2, TryKeeps, ClaimKeeps, NoteKeeps, ReleaseKeeps, LockKeeps, WriteKeeps, RemoveKeeps
<1>3. ASSUME NEW s \in Session,
             ReadMax(s) \/ Number(s) \/ Taken(s) \/ Add(s) \/ Beat(s) \/ NoteBeat(s)
      PROVE  Inv'
  BY <1>3, ReadMaxKeeps, NumberKeeps, TakenKeeps, AddKeeps, BeatKeeps, NoteBeatKeeps
<1>4. CASE RetryList \/ RetryClaim \/ RetryClear
  BY <1>4, RetryListKeeps, RetryClaimKeeps, RetryClearKeeps
<1>5. ASSUME NEW i \in Id, Lapse(i) \/ OtherTakes(i)
      PROVE  Inv'
  BY <1>5, LapseKeeps, OtherTakesKeeps
<1>6. CASE UNCHANGED vars
  <2>1. UNCHANGED <<call, calls, lock, numbers, from, closes, nexts>>
    BY <1>6 DEF vars
  <2>2. StoreOK' /\ RetryOK' /\ ReadInv'
    BY <1>6 DEF vars, Inv, StoreOK, RetryOK, ReadInv
  <2>3. \A u \in Session : Stays(u)
    BY <1>6, StaysWhenUnchanged DEF vars
  <2>4. QED
    BY <2>1, <2>2, <2>3, NoCall
<1>7. QED
  BY <1>1, <1>2, <1>3, <1>4, <1>5, <1>6 DEF Next

LEMMA Always == Spec => []Inv
<1>1. Init => Inv
  BY InitInv
<1>2. Inv /\ [Next]_vars => Inv'
  BY StepInv
<1>3. QED
  BY <1>1, <1>2, PTL DEF Spec

\* The tasks stay well formed, a document's lock is held by the call that
\* writes it, and however many sessions complete a recurring task together,
\* each completion has made at most one next occurrence (update.ts:168).
THEOREM OneNext == Spec => []Consistent
<1>1. Inv => Consistent
  <2> SUFFICES ASSUME Inv PROVE Consistent
    OBVIOUS
  <2>1. TypeOK
    <3>1. \A s \in Session : call[s] \in Call /\ (call[s].pc # "idle" => call[s].n \in 1..calls)
      BY DEF Inv, CallsOK, CallOK
    <3>2. \A s \in Session : call[s].on \in Id \cup {0}
      BY <3>1 DEF Call
    <3>3. retry.todo \subseteq Session \X Id
      BY DEF Inv, RetryOK
    <3>4. QED
      BY <3>1, <3>2, <3>3 DEF Inv, StoreOK, LockInv, TypeOK
  <2>2. ASSUME NEW i \in Id
        PROVE  nexts[i] <= closes[i]
    <3>1. Owed(i) \in SUBSET Session
      BY DEF Owed
    <3>2. Cardinality(Owed(i)) \in Nat
      BY <3>1, Constants, FS_Subset, FS_CardinalityType
    <3>3. nexts[i] \in Nat /\ closes[i] \in Nat /\ nexts[i] + Cardinality(Owed(i)) <= closes[i]
      BY DEF Inv, NextInv
    <3>4. QED
      BY <3>2, <3>3
  <2>3. QED
    BY <2>1, <2>2 DEF Consistent, OneNextOccurrence
<1>2. QED
  BY <1>1, Always, PTL

\* A session whose started task is leased to somebody else has been told, or
\* its claim is marked for a retry, watched by its heartbeats, or being made
\* again (claim.ts:10-12); the invariant shows it for every started task.
THEOREM ClashTold == Spec => []ClashIsTold
<1>1. Inv => ClashIsTold
  BY DEF Inv, KeptInv, CallKept, Kept, Noted, Claims, Claiming, ClashIsTold
<1>2. QED
  BY <1>1, Always, PTL

\* A write under the document's lock moves no close time and takes away no edge
\* that another call wrote since the task was first read (dependencies.ts:8-10).
THEOREM OthersAreKept == Spec => OthersKept
<1>1. ASSUME Inv, NEW s \in Session, NEW i \in Id, Write(s), tasks[i] # NoTask, tasks'[i] # NoTask
      PROVE  FirstCloseKept(i) /\ EdgesKept(call[s], i)
  <2> DEFINE c == call[s]
             t == tasks[i]
  <2>1. /\ c \in Call /\ c.on \in Id /\ AsRead(tasks[c.on], c.cur) /\ c.cur \in Task
        /\ t \in Task /\ CallOK(c) /\ c.pc = "write"
    BY <1>1 DEF Write, Inv, CallsOK, CallOK, ReadInv, StoreOK
  <2>2. CASE i # c.on
    <3>1. tasks'[i] = tasks[i]
      BY <1>1, <2>2 DEF Write, Inv, StoreOK
    <3>2. QED
      BY <3>1 DEF FirstCloseKept, EdgesKept
  <2>3. CASE i = c.on
    <3>1. tasks'[i] = Updated(s, c, t)
      BY <1>1, <2>1, <2>3 DEF Write, Inv, StoreOK
    <3>2. CASE c.op \in Linking
      <4>1. \/ tasks'[i] = [t EXCEPT !.deps = Edges(c.cur.deps, c.op, c.other)]
            \/ tasks'[i] = [t EXCEPT !.blocks = Edges(c.cur.blocks, c.op, c.other)]
        BY <3>1, <3>2 DEF Updated, Linking
      <4>2. /\ tasks'[i].closed = t.closed
            /\ \/ tasks'[i].deps = t.deps
               \/ tasks'[i].deps = Edges(c.cur.deps, c.op, c.other)
            /\ \/ tasks'[i].blocks = t.blocks
               \/ tasks'[i].blocks = Edges(c.cur.blocks, c.op, c.other)
        <5>1. CASE tasks'[i] = [t EXCEPT !.deps = Edges(c.cur.deps, c.op, c.other)]
          BY <2>1, <5>1 DEF Task
        <5>2. CASE tasks'[i] = [t EXCEPT !.blocks = Edges(c.cur.blocks, c.op, c.other)]
          BY <2>1, <5>2 DEF Task
        <5>3. QED
          BY <4>1, <5>1, <5>2
      <4>3. /\ (t.deps = c.cur.deps \/ t.deps = {})
            /\ (t.blocks = c.cur.blocks \/ t.blocks = {})
        BY <1>1, <2>1, <2>3 DEF AsRead
      <4>4. FirstCloseKept(i)
        BY <4>2 DEF FirstCloseKept
      <4>5. EdgesKept(c, i)
        <5> DEFINE gone == IF c.op = "unlink" THEN {c.other} ELSE {}
        <5>1. \A set : /\ set \ Edges(set, c.op, c.other) \subseteq gone
                       /\ {} \ Edges(set, c.op, c.other) \subseteq gone
          BY <3>2 DEF Edges, Linking
        <5> HIDE DEF gone
        <5>2. t.deps \ tasks'[i].deps \subseteq gone
          BY <4>2, <4>3, <5>1
        <5>3. t.blocks \ tasks'[i].blocks \subseteq gone
          BY <4>2, <4>3, <5>1
        <5>4. QED
          BY <5>2, <5>3 DEF EdgesKept, gone
      <4>6. QED
        BY <4>4, <4>5
    <3>3. CASE c.op \notin Linking
      <4>1. \A st, cl, m : LET u == [t EXCEPT !.status = st, !.closed = cl, !.unshared = m] IN
              u.closed = cl /\ u.deps = t.deps /\ u.blocks = t.blocks
        BY <2>1 DEF Task
      <4>2. /\ tasks'[i].closed = ClosedAt(c)
            /\ tasks'[i].deps = t.deps /\ tasks'[i].blocks = t.blocks
        BY <3>1, <3>3, <4>1 DEF Updated, Linking
      <4>3. t.closed = c.cur.closed \/ t.closed = 0
        BY <1>1, <2>1, <2>3 DEF AsRead
      <4>4. QED
        BY <4>2, <4>3 DEF FirstCloseKept, EdgesKept, ClosedAt
    <3>4. QED
      BY <3>2, <3>3
  <2>4. QED
    BY <2>2, <2>3
<1>2. Inv /\ [Next]_vars =>
        [\A s \in Session, i \in Id :
           Write(s) /\ tasks[i] # NoTask /\ tasks'[i] # NoTask
             => FirstCloseKept(i) /\ EdgesKept(call[s], i)]_vars
  BY <1>1
<1>3. QED
  BY <1>2, Always, PTL DEF Spec, OthersKept

\* A counter gives a number once, whatever the store's highest number and the
\* other counter were read as: a new task replaces another only where the
\* service numbered one of them and the machine the other, or where no counter
\* numbered the new one (create.ts:109-112).
THEOREM NumbersAreNew == Spec => NewTaskReplacesNone
<1>1. ASSUME Inv, NEW s \in Session, Add(s)
      PROVE  from[call[s].floor] # call[s].via \/ call[s].via = "max"
  BY <1>1 DEF Add, Inv, NumberInv, NumberOf, Given
<1>2. Inv /\ [Next]_vars =>
        [\A s \in Session : Add(s) /\ tasks[call[s].floor] # NoTask
           => from[call[s].floor] # call[s].via \/ call[s].via = "max"]_vars
  BY <1>1
<1>3. QED
  BY <1>2, Always, PTL DEF Spec, NewTaskReplacesNone
=============================================================================
