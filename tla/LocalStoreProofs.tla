-------------------------- MODULE LocalStoreProofs --------------------------
(***************************************************************************)
(* Theorems about LocalStore: the processes, each with any number of       *)
(* operations under way, act together as one store, but for the changes    *)
(* made on a collection that their own process had mixed up.               *)
(***************************************************************************)
EXTENDS LocalStore, TLAPS

\* What a change writes is a collection.
LEMMA WritesDocs ==
  ASSUME NEW c \in Change, NEW cur \in File, Writes(c, cur)
  PROVE  Outcome(c, cur) \in Docs /\ Outcome(c, cur) # NoFile
<1> USE DEF File
<1>0. SUFFICES Outcome(c, cur) \in Docs
  BY StoreAssumption DEF Docs, Document, Meta
<1>1. CASE c \in [op : {"add"}, docs : Docs]
  <2>1. c.op = "add" /\ c.docs \in Docs
    BY <1>1
  <2>2. Added(cur, c.docs) \in Docs
    BY <2>1 DEF Added, Docs
  <2> QED BY <2>1, <2>2 DEF Outcome
<1>2. CASE c \in [op : {"create"}]
  <2>1. c.op = "create" /\ cur = NoFile /\ Empty \in Docs
    BY <1>2 DEF Empty, Docs, Writes
  <2> QED BY <2>1 DEF Outcome
<1>3. CASE c \in [op : {"drop"}]
  <2>1. c.op = "drop"
    BY <1>3
  <2> QED BY <2>1 DEF Writes
<1>4. ASSUME cur # NoFile, NEW metas \in [Doc -> Meta \cup {Keep}]
      PROVE  Updated(cur, metas) \in Docs
  <2>1. cur \in Docs
    BY <1>4
  <2>2. ASSUME NEW d \in Doc, cur[d] # Absent, metas[d] # Keep
        PROVE  [cur[d] EXCEPT !.meta = metas[d]] \in Document
    BY <2>1, <2>2 DEF Docs, Document
  <2> QED BY <2>1, <2>2 DEF Updated, Docs
<1>5. CASE c \in [op : {"update"}, doc : Doc, meta : Meta]
  <2>1. c.op = "update" /\ c.doc \in Doc /\ c.meta \in Meta
    BY <1>5
  <2>2. [d \in Doc |-> IF d = c.doc THEN c.meta ELSE Keep] \in [Doc -> Meta \cup {Keep}]
    BY <2>1
  <2> QED BY <1>4, <2>1, <2>2 DEF Outcome, Writes
<1>6. CASE c \in [op : {"updateBatch"}, metas : [Doc -> Meta \cup {Keep}]]
  <2>1. c.op = "updateBatch" /\ c.metas \in [Doc -> Meta \cup {Keep}]
    BY <1>6
  <2> QED BY <1>4, <2>1 DEF Outcome, Writes
<1>7. CASE c \in [op : {"patch"}, patches : [Doc -> [Field -> Val \cup {Absent, Keep}]]]
  <2>1. c.op = "patch" /\ c.patches \in [Doc -> [Field -> Val \cup {Absent, Keep}]]
    BY <1>7
  <2>2. ASSUME NEW d \in Doc, NEW doc \in Document
        PROVE  [doc EXCEPT !.meta = [f \in Field |-> IF c.patches[d][f] = Keep THEN @[f]
                                                      ELSE c.patches[d][f]]] \in Document
    <3>1. doc.meta \in Meta /\ doc.body \in Body
      BY <2>2 DEF Document
    <3>2. [f \in Field |-> IF c.patches[d][f] = Keep THEN doc.meta[f]
                           ELSE c.patches[d][f]] \in Meta
      BY <2>1, <3>1 DEF Meta
    <3> DEFINE m == [f \in Field |-> IF c.patches[d][f] = Keep THEN doc.meta[f]
                                     ELSE c.patches[d][f]]
    <3> HIDE DEF m
    <3>3. [doc EXCEPT !.meta = m] \in Document
      BY <3>2 DEF Document, m
    <3> QED BY <3>3 DEF m
  <2>3. ASSUME cur # NoFile PROVE Patched(cur, c.patches) \in Docs
    <3>1. cur \in [Doc -> Document \cup {Absent}]
      BY <2>3 DEF Docs
    <3> QED BY <2>2, <3>1 DEF Patched, Docs
  <2> QED BY <2>1, <2>3 DEF Outcome, Writes
<1>8. CASE c \in [op : {"delete"}, doc : Doc]
  <2>1. c.op = "delete" /\ c.doc \in Doc
    BY <1>8
  <2>2. cur # NoFile => [cur EXCEPT ![c.doc] = Absent] \in Docs
    BY <2>1 DEF Docs
  <2> QED BY <2>1, <2>2 DEF Outcome, Writes
<1> QED BY <1>1, <1>2, <1>3, <1>5, <1>6, <1>7, <1>8 DEF Change
-----------------------------------------------------------------------------
(***************************************************************************)
(* The invariant: nobody changes the file while another holds the lock,    *)
(* and an operation that is not stale has to do with the collection that   *)
(* its process has cached, whatever the others of that process do.         *)
(***************************************************************************)
Record == [pc : PC, op : Asked \cup {Reading}, docs : File, id : Nat, from : Nat,
           stale : BOOLEAN]

Changing(r) ==
  \/ r.pc \in {"stat", "open", "put"} /\ r.op # Reading
  \/ r.pc \in {"write", "own", "remove"}

Locked == \A t \in Thread : Changing(th[t]) <=> lock = t

\* A thread's record r, with the file f, the collection c its process p has
\* cached, and the processes that are mixed.
Fine(r, f, c, p, m) ==
  /\ r.id <= f.id /\ r.from <= f.id
  /\ r.pc \in {"write", "remove"} => r.op # Reading
  /\ r.pc = "remove" => r.op.op = "drop"
  /\ r.pc = "stat" => /\ r.docs # NoFile
                      /\ ~r.stale => c # NoFile
                      /\ ~r.stale /\ r.op # Reading => p \notin m
  /\ r.pc = "put" => /\ r.docs # NoFile /\ r.from <= r.id
                     /\ r.id = f.id /\ f.docs # NoFile => r.docs = f.docs
                     /\ r.op # Reading => r.id = f.id /\ f.docs # NoFile
  /\ r.pc = "write" /\ ~r.stale => r.docs = Outcome(r.op, f.docs)
  /\ r.pc = "own" /\ ~r.stale => c = f.docs

AllFine ==
  \A t \in Thread : Fine(th[t], file, cache[ProcOf[t]], ProcOf[t], mixed)

SeenPast == \A p \in Proc : seen[p] <= file.id

IInv == TypeOK /\ Locked /\ AllFine /\ SeenPast /\ CacheCurrent

\* s is r after a step of another thread.
Later(r, s) ==
  /\ s.pc = r.pc /\ s.op = r.op /\ s.docs = r.docs /\ s.id = r.id /\ s.from = r.from
  /\ r.stale => s.stale

\* Another thread's record stays fine.
LEMMA OtherFine ==
  ASSUME NEW r \in Record, NEW s \in Record, Later(r, s),
         NEW f \in [docs : File, id : Nat], NEW g \in [docs : File, id : Nat],
         NEW c, NEW d, NEW p, NEW m, NEW n,
         Fine(r, f, c, p, m),
         \/ g = f
         \/ /\ ~Changing(r)
            /\ (g.id = f.id /\ g.docs = NoFile) \/ g.id = f.id + 1,
         p \in n => p \in m \/ ~Changing(r),
         \/ d = c
         \/ r.pc \in {"stat", "own"} => s.stale
         \/ d # NoFile /\ ~Changing(r)
  PROVE  Fine(s, g, d, p, n)
<1>1. /\ r.id \in Nat /\ r.from \in Nat /\ f.id \in Nat /\ g.id \in Nat /\ f.id <= g.id
      /\ r.stale \in BOOLEAN /\ s.stale \in BOOLEAN
  BY DEF Record
<1>2. s.id <= g.id /\ s.from <= g.id
  BY <1>1 DEF Later, Fine
<1>3. s.pc \in {"write", "remove"} => s.op # Reading
  BY DEF Later, Fine
<1>4. s.pc = "remove" => s.op.op = "drop"
  BY DEF Later, Fine
<1>5. ASSUME s.pc = "stat"
      PROVE  /\ s.docs # NoFile
             /\ ~s.stale => d # NoFile
             /\ ~s.stale /\ s.op # Reading => p \notin n
  <2>1. r.pc = "stat" /\ s.docs # NoFile /\ r.docs = s.docs /\ r.op = s.op
    BY <1>5 DEF Later, Fine
  <2>2. ~s.stale => ~r.stale
    BY DEF Later
  <2>3. ~s.stale => c # NoFile
    BY <2>1, <2>2 DEF Fine
  <2>4. ~s.stale => d # NoFile
    BY <2>1, <2>3
  <2>5. r.op # Reading => Changing(r)
    BY <2>1 DEF Changing
  <2>6. ~s.stale /\ s.op # Reading => p \notin m
    BY <2>1, <2>2 DEF Fine
  <2> QED BY <2>1, <2>4, <2>5, <2>6
<1>6. ASSUME s.pc = "put"
      PROVE  /\ s.docs # NoFile /\ s.from <= s.id
             /\ s.id = g.id /\ g.docs # NoFile => s.docs = g.docs
             /\ s.op # Reading => s.id = g.id /\ g.docs # NoFile
  <2>1. r.pc = "put"
    BY <1>6 DEF Later
  <2>2. g # f => ~Changing(r)
    OBVIOUS
  <2>3. r.op # Reading => Changing(r)
    BY <2>1 DEF Changing
  <2>4. r.id <= f.id
    BY DEF Fine
  <2> QED BY <1>1, <2>1, <2>2, <2>3, <2>4 DEF Later, Fine
<1>7. s.pc = "write" /\ ~s.stale => s.docs = Outcome(s.op, g.docs)
  BY DEF Later, Fine, Changing
<1>8. s.pc = "own" /\ ~s.stale => d = g.docs
  BY DEF Later, Fine, Changing
<1> QED BY <1>2, <1>3, <1>4, <1>5, <1>6, <1>7, <1>8 DEF Fine

\* A step of one thread, which changes its own record, its process's cache and,
\* under the lock only, the file, keeps the invariant when what it leaves is fine.
LEMMA ThreadStep ==
  ASSUME IInv, NEW t \in Thread, NEW r \in Record, NEW c \in File, NEW n \in Nat,
         NEW k \in BOOLEAN, NEW s \in [Thread -> Record],
         th' = s, s[t] = r,
         \A u \in Thread : u # t => Later(th[u], s[u]),
         \A u \in Thread :
           k /\ u # t /\ ProcOf[u] = ProcOf[t] /\ th[u].pc \in {"stat", "own"} => s[u].stale,
         cache' = [cache EXCEPT ![ProcOf[t]] = c],
         seen' = [seen EXCEPT ![ProcOf[t]] = n],
         k \/ c = cache[ProcOf[t]] \/ (lock = t /\ c # NoFile),
         mixed' \subseteq Proc,
         \A q \in Proc : q # ProcOf[t] => (q \in mixed' <=> q \in mixed),
         ProcOf[t] \in mixed' => ProcOf[t] \in mixed \/ lock = t,
         lock' \in {lock, t, NoThread},
         lock' # lock => lock \in {t, NoThread},
         Changing(r) <=> lock' = t,
         \/ file' = file
         \/ /\ lock = t /\ file' \in [docs : File, id : Nat]
            /\ \/ file'.id = file.id /\ file'.docs = NoFile
               \/ file'.id = file.id + 1,
         Fine(r, file', c, ProcOf[t], mixed'),
         n <= file'.id,
         ProcOf[t] \notin mixed' /\ c # NoFile /\ n = file'.id /\ file'.docs # NoFile =>
           \/ c = file'.docs
           \/ r.pc = "write"
           \/ \E u \in Thread : u # t /\ ProcOf[u] = ProcOf[t] /\ th[u].pc = "write"
  PROVE  IInv'
<1> USE DEF IInv
<1> DEFINE p == ProcOf[t]
<1>1. /\ file' \in [docs : File, id : Nat] /\ file \in [docs : File, id : Nat]
      /\ file.id <= file'.id /\ p \in Proc
  <2>1. file \in [docs : File, id : Nat] /\ p \in Proc
    BY ThreadAssumption DEF TypeOK
  <2>2. file' \in [docs : File, id : Nat]
    BY <2>1
  <2>3. file.id \in Nat /\ file'.id \in Nat
    BY <2>1, <2>2
  <2> QED BY <2>1, <2>2, <2>3
<1>2. /\ cache'[p] = c /\ \A q \in Proc : q # p => cache'[q] = cache[q]
      /\ seen'[p] = n /\ \A q \in Proc : q # p => seen'[q] = seen[q]
  BY <1>1 DEF TypeOK
<1>3. \A u \in Thread : th[u] \in Record /\ s[u] \in Record /\ ProcOf[u] \in Proc
  BY ThreadAssumption DEF TypeOK, Record
<1>4. TypeOK'
  <2>1. lock' \in Thread \cup {NoThread}
    BY DEF TypeOK
  <2>2. cache' \in [Proc -> File] /\ seen' \in [Proc -> Nat]
    BY <1>1 DEF TypeOK
  <2>3. th' \in [Thread -> Record]
    OBVIOUS
  <2> QED BY <1>1, <2>1, <2>2, <2>3 DEF TypeOK, Record
<1>5. Locked'
  <2>1. ASSUME NEW u \in Thread, u # t PROVE Changing(s[u]) <=> lock' = u
    <3>1. Changing(th[u]) <=> lock = u
      BY DEF Locked
    <3>2. lock' = u <=> lock = u
      BY <2>1, ThreadAssumption
    <3>3. Changing(th[u]) <=> Changing(s[u])
      BY <2>1 DEF Later, Changing
    <3> QED BY <3>1, <3>2, <3>3
  <2>2. \A u \in Thread : Changing(s[u]) <=> lock' = u
    BY <2>1
  <2> QED BY <2>2 DEF Locked
<1>6. AllFine'
  <2>1. ASSUME NEW u \in Thread, u # t
        PROVE  Fine(s[u], file', cache'[ProcOf[u]], ProcOf[u], mixed')
    <3>1. /\ Fine(th[u], file, cache[ProcOf[u]], ProcOf[u], mixed)
          /\ ProcOf[u] \in Proc /\ Later(th[u], s[u])
      BY <1>3, <2>1 DEF AllFine
    <3>2. lock = t => ~Changing(th[u])
      BY <2>1 DEF Locked
    <3>3. \/ file' = file
          \/ /\ ~Changing(th[u])
             /\ (file'.id = file.id /\ file'.docs = NoFile) \/ file'.id = file.id + 1
      BY <3>2
    <3>4. ProcOf[u] \in mixed' => ProcOf[u] \in mixed \/ ~Changing(th[u])
      BY <3>1, <3>2
    <3>5. \/ cache'[ProcOf[u]] = cache[ProcOf[u]]
          \/ th[u].pc \in {"stat", "own"} => s[u].stale
          \/ cache'[ProcOf[u]] # NoFile /\ ~Changing(th[u])
      BY <1>2, <2>1, <3>1, <3>2
    <3> QED BY <1>1, <1>3, <3>1, <3>3, <3>4, <3>5, OtherFine
  <2>2. Fine(s[t], file', cache'[ProcOf[t]], ProcOf[t], mixed')
    BY <1>2
  <2>3. \A u \in Thread : Fine(s[u], file', cache'[ProcOf[u]], ProcOf[u], mixed')
    BY <2>1, <2>2
  <2> QED BY <2>3 DEF AllFine
<1>7. SeenPast'
  <2>1. \A q \in Proc : seen[q] \in Nat /\ file.id \in Nat /\ file'.id \in Nat
    BY <1>1 DEF TypeOK
  <2> QED BY <1>1, <1>2, <2>1 DEF SeenPast
<1>8. CacheCurrent'
  <2> SUFFICES ASSUME NEW q \in Proc, q \notin mixed', cache'[q] # NoFile,
                      seen'[q] = file'.id, file'.docs # NoFile
               PROVE  \/ cache'[q] = file'.docs
                      \/ \E u \in Thread : ProcOf[u] = q /\ s[u].pc = "write"
    BY DEF CacheCurrent, Writing
  <2>0. \A u \in Thread : u # t => s[u].pc = th[u].pc
    BY DEF Later
  <2>1. CASE q = p
    BY <1>2, <2>0, <2>1
  <2>2. CASE q # p
    <3>1. cache'[q] = cache[q] /\ seen'[q] = seen[q] /\ seen[q] <= file.id
          /\ seen[q] \in Nat /\ file.id \in Nat /\ q \notin mixed
      BY <1>2, <2>2 DEF SeenPast, TypeOK
    <3>2. file' = file
      BY <1>1, <3>1
    <3>3. cache[q] # NoFile /\ seen[q] = file.id /\ file.docs # NoFile
      BY <3>1, <3>2
    <3>4. CacheCurrent /\ q \in Proc \ mixed
      BY <3>1
    <3>5. \/ cache[q] = file.docs
          \/ \E u \in Thread : ProcOf[u] = q /\ th[u].pc = "write"
      BY <3>3, <3>4 DEF CacheCurrent, Writing
    <3> QED BY <2>0, <2>2, <3>1, <3>2, <3>5
  <2> QED BY <2>1, <2>2
<1> QED BY <1>4, <1>5, <1>6, <1>7, <1>8
-----------------------------------------------------------------------------
\* What is known of the thread that takes a step.
LEMMA Known ==
  ASSUME IInv, NEW t \in Thread
  PROVE  /\ ProcOf[t] \in Proc /\ th[t] \in Record /\ Idle \in Record
         /\ th \in [Thread -> Record]
         /\ cache[ProcOf[t]] \in File /\ seen[ProcOf[t]] \in Nat /\ seen[ProcOf[t]] <= file.id
         /\ file.docs \in File /\ file.id \in Nat /\ file \in [docs : File, id : Nat]
         /\ Fine(th[t], file, cache[ProcOf[t]], ProcOf[t], mixed)
         /\ Changing(th[t]) <=> lock = t
         /\ t # NoThread
<1> USE DEF IInv
<1>1. ProcOf[t] \in Proc /\ th[t] \in Record /\ Idle \in Record
      /\ th \in [Thread -> Record]
      /\ file.docs \in File /\ file.id \in Nat /\ file \in [docs : File, id : Nat]
  BY ThreadAssumption DEF TypeOK, Record, Idle, PC, File
<1>2. cache[ProcOf[t]] \in File /\ seen[ProcOf[t]] \in Nat /\ seen[ProcOf[t]] <= file.id
  BY <1>1 DEF TypeOK, SeenPast
<1> QED BY <1>1, <1>2, ThreadAssumption DEF AllFine, Locked

\* A process that is not mixed, with a cache whose identity is the file's.
LEMMA CacheNow ==
  ASSUME IInv, NEW t \in Thread, ProcOf[t] \notin mixed, th[t].pc # "write",
         cache[ProcOf[t]] # NoFile, seen[ProcOf[t]] = file.id, file.docs # NoFile
  PROVE  \/ cache[ProcOf[t]] = file.docs
         \/ \E u \in Thread : u # t /\ ProcOf[u] = ProcOf[t] /\ th[u].pc = "write"
<1>1. ProcOf[t] \in Proc \ mixed
  BY Known
<1>2. cache[ProcOf[t]] = file.docs \/ Writing(ProcOf[t])
  BY <1>1 DEF IInv, CacheCurrent
<1> QED BY <1>2 DEF Writing

\* Leaving the thread idle is fine.
LEMMA IdleFine ==
  ASSUME NEW f \in [docs : File, id : Nat], NEW c, NEW p, NEW m
  PROVE  Fine(Idle, f, c, p, m) /\ ~Changing(Idle)
BY DEF Fine, Idle, Changing, Reading

\* A thread moves on and the cached collection stays.
LEMMA KeepStep ==
  ASSUME IInv, NEW t \in Thread, NEW r \in Record, NEW n \in Nat,
         th' = [th EXCEPT ![t] = r],
         cache' = cache,
         seen' = [seen EXCEPT ![ProcOf[t]] = n],
         mixed' \subseteq Proc,
         \A q \in Proc : q # ProcOf[t] => (q \in mixed' <=> q \in mixed),
         ProcOf[t] \in mixed' => ProcOf[t] \in mixed \/ lock = t,
         lock' \in {lock, t, NoThread},
         lock' # lock => lock \in {t, NoThread},
         Changing(r) <=> lock' = t,
         \/ file' = file
         \/ /\ lock = t /\ file' \in [docs : File, id : Nat]
            /\ file'.id = file.id /\ file'.docs = NoFile,
         Fine(r, file', cache[ProcOf[t]], ProcOf[t], mixed'),
         n <= file'.id,
         (ProcOf[t] \notin mixed' /\ cache[ProcOf[t]] # NoFile
            /\ n = file'.id /\ file'.docs # NoFile) =>
              \/ cache[ProcOf[t]] = file'.docs
              \/ r.pc = "write"
              \/ \E u \in Thread : u # t /\ ProcOf[u] = ProcOf[t] /\ th[u].pc = "write"
  PROVE  IInv'
<1> SUFFICES ASSUME NEW s, s = [th EXCEPT ![t] = r] PROVE IInv'
  OBVIOUS
<1>1. /\ ProcOf[t] \in Proc /\ cache[ProcOf[t]] \in File /\ th \in [Thread -> Record]
      /\ file.id \in Nat /\ file \in [docs : File, id : Nat]
  BY Known
<1>2. cache = [cache EXCEPT ![ProcOf[t]] = cache[ProcOf[t]]]
  BY <1>1 DEF IInv, TypeOK
<1> DEFINE k == FALSE  c == cache[ProcOf[t]]
<1>3. s \in [Thread -> Record] /\ s[t] = r /\ th' = s /\ k \in BOOLEAN
  BY <1>1
<1>4. /\ \A u \in Thread : u # t => Later(th[u], s[u])
      /\ \A u \in Thread :
           k /\ u # t /\ ProcOf[u] = ProcOf[t] /\ th[u].pc \in {"stat", "own"} => s[u].stale
  BY <1>1 DEF Later
<1>5. cache' = [cache EXCEPT ![ProcOf[t]] = c] /\ c \in File /\ c = cache[ProcOf[t]]
  BY <1>1, <1>2
<1>6. Fine(r, file', c, ProcOf[t], mixed')
  OBVIOUS
<1>7. ProcOf[t] \notin mixed' /\ c # NoFile /\ n = file'.id /\ file'.docs # NoFile =>
        \/ c = file'.docs
        \/ r.pc = "write"
        \/ \E u \in Thread : u # t /\ ProcOf[u] = ProcOf[t] /\ th[u].pc = "write"
  OBVIOUS
<1>8. \/ file' = file
      \/ /\ lock = t /\ file' \in [docs : File, id : Nat]
         /\ \/ file'.id = file.id /\ file'.docs = NoFile
            \/ file'.id = file.id + 1
  OBVIOUS
<1> HIDE DEF k, c
<1> QED BY <1>3, <1>4, <1>5, <1>6, <1>7, <1>8, ThreadStep

\* A thread moves on and nothing else changes.
LEMMA MoveStep ==
  ASSUME IInv, NEW t \in Thread, th[t].pc # "write",
         NEW r \in Record, th' = [th EXCEPT ![t] = r], UNCHANGED <<file, cache, seen, mixed>>,
         lock' \in {lock, t, NoThread}, lock' # lock => lock \in {t, NoThread},
         Changing(r) <=> lock' = t,
         Fine(r, file, cache[ProcOf[t]], ProcOf[t], mixed)
  PROVE  IInv'
<1>1. /\ ProcOf[t] \in Proc /\ seen[ProcOf[t]] \in Nat /\ seen[ProcOf[t]] <= file.id
  BY Known
<1>2. seen = [seen EXCEPT ![ProcOf[t]] = seen[ProcOf[t]]] /\ mixed \subseteq Proc
  BY <1>1 DEF IInv, TypeOK
<1> DEFINE n == seen[ProcOf[t]]
<1>3. (ProcOf[t] \notin mixed' /\ cache[ProcOf[t]] # NoFile
         /\ n = file'.id /\ file'.docs # NoFile) =>
           \/ cache[ProcOf[t]] = file'.docs
           \/ r.pc = "write"
           \/ \E u \in Thread : u # t /\ ProcOf[u] = ProcOf[t] /\ th[u].pc = "write"
  <2>1. file' = file /\ mixed' = mixed
    OBVIOUS
  <2> QED BY <2>1, CacheNow
<1>4. /\ n \in Nat /\ n <= file'.id /\ seen' = [seen EXCEPT ![ProcOf[t]] = n]
      /\ mixed' \subseteq Proc
      /\ \A q \in Proc : q # ProcOf[t] => (q \in mixed' <=> q \in mixed)
      /\ ProcOf[t] \in mixed' => ProcOf[t] \in mixed
      /\ file' = file /\ cache' = cache
  BY <1>1, <1>2
<1>5. Fine(r, file', cache[ProcOf[t]], ProcOf[t], mixed')
  OBVIOUS
<1> HIDE DEF n
<1> QED BY <1>3, <1>4, <1>5, KeepStep

\* A step that gives the process this collection and identity.
LEMMA CachedStep ==
  ASSUME IInv, NEW t \in Thread, NEW r \in Record, NEW c \in File, NEW n \in Nat,
         NEW k \in BOOLEAN, Cached(t, c, n, r, k),
         k \/ c = cache[ProcOf[t]] \/ (lock = t /\ c # NoFile),
         lock' \in {lock, NoThread}, lock' # lock => lock = t, Changing(r) <=> lock' = t,
         \/ file' = file
         \/ /\ lock = t /\ file' \in [docs : File, id : Nat]
            /\ file'.id = file.id + 1,
         Fine(r, file', c, ProcOf[t], mixed'),
         n <= file'.id,
         ProcOf[t] \notin mixed' /\ c # NoFile /\ n = file'.id /\ file'.docs # NoFile =>
           \/ c = file'.docs
           \/ r.pc = "write"
           \/ \E u \in Thread : u # t /\ ProcOf[u] = ProcOf[t] /\ th[u].pc = "write"
  PROVE  IInv'
<1> DEFINE p == ProcOf[t]
           Passed(u) == k /\ ProcOf[u] = p /\ th[u].pc \in {"stat", "own"}
<1> SUFFICES ASSUME NEW s, s = [u \in Thread |-> IF u = t THEN r
                                ELSE [th[u] EXCEPT !.stale = @ \/ Passed(u)]]
             PROVE  IInv'
  OBVIOUS
<1>1. p \in Proc /\ th \in [Thread -> Record] /\ mixed \subseteq Proc
  BY Known DEF IInv, TypeOK
<1>2. /\ cache' = [cache EXCEPT ![p] = c] /\ seen' = [seen EXCEPT ![p] = n] /\ th' = s
      /\ mixed' = IF k THEN mixed \ {p} ELSE mixed
  BY DEF Cached
<1>3. ASSUME NEW u \in Thread, u # t
      PROVE  /\ s[u] \in Record /\ Later(th[u], s[u])
             /\ k /\ ProcOf[u] = p /\ th[u].pc \in {"stat", "own"} => s[u].stale
  <2> DEFINE b == th[u].stale \/ Passed(u)
  <2>1. s[u] = [th[u] EXCEPT !.stale = b] /\ th[u] \in Record
    BY <1>1, <1>3
  <2>2. b \in BOOLEAN
    BY <2>1 DEF Record
  <2>3. /\ th[u].stale => b
        /\ k /\ ProcOf[u] = p /\ th[u].pc \in {"stat", "own"} => b
    OBVIOUS
  <2> HIDE DEF b, p
  <2>4. s[u] \in Record /\ s[u].stale = b
    BY <2>1, <2>2 DEF Record
  <2>5. /\ s[u].pc = th[u].pc /\ s[u].op = th[u].op /\ s[u].docs = th[u].docs
        /\ s[u].id = th[u].id /\ s[u].from = th[u].from
    BY <2>1, <2>2 DEF Record
  <2> QED BY <2>3, <2>4, <2>5 DEF Later
<1>4. s \in [Thread -> Record] /\ s[t] = r
  <2>1. \A u \in Thread : s[u] \in Record
    BY <1>3
  <2> QED BY <2>1
<1>5. /\ mixed' \subseteq Proc /\ \A q \in Proc : q # p => (q \in mixed' <=> q \in mixed)
      /\ p \in mixed' <=> ~k /\ p \in mixed
  BY <1>1, <1>2
<1>8. lock' \in {lock, t, NoThread} /\ (lock' # lock => lock \in {t, NoThread})
  OBVIOUS
<1>9. /\ \A u \in Thread : u # t => Later(th[u], s[u])
      /\ \A u \in Thread :
           k /\ u # t /\ ProcOf[u] = ProcOf[t] /\ th[u].pc \in {"stat", "own"} => s[u].stale
  BY <1>3
<1>10. \/ file' = file
       \/ /\ lock = t /\ file' \in [docs : File, id : Nat]
          /\ \/ file'.id = file.id /\ file'.docs = NoFile
             \/ file'.id = file.id + 1
  OBVIOUS
<1>11. /\ cache' = [cache EXCEPT ![ProcOf[t]] = c] /\ seen' = [seen EXCEPT ![ProcOf[t]] = n]
       /\ th' = s
  BY <1>2
<1>12. /\ \A q \in Proc : q # ProcOf[t] => (q \in mixed' <=> q \in mixed)
       /\ ProcOf[t] \in mixed' => ProcOf[t] \in mixed \/ lock = t
       /\ mixed' \subseteq Proc
  BY <1>5
<1> HIDE DEF p
<1> QED BY <1>4, <1>8, <1>9, <1>10, <1>11, <1>12, ThreadStep

\* The end of a load, read or apply, keeps the invariant.
LEMMA LoadedStep ==
  ASSUME IInv, NEW t \in Thread, th[t].pc \in {"stat", "open", "put"},
         NEW cur \in File, NEW cached \in File, NEW id \in Nat,
         Loaded(t, cur, cached, id), id <= file.id,
         \/ cached = cache[ProcOf[t]] /\ id = seen[ProcOf[t]]
         \/ cached # NoFile /\ id = file.id /\ file.docs # NoFile => cached = file.docs,
         th[t].op # Reading => cur = file.docs \/ (th[t].stale /\ cur # NoFile)
  PROVE  IInv' /\ file' = file
<1> DEFINE op == th[t].op
           writes == op # Reading /\ Writes(op, cur)
           throws == op # Reading /\ Throws(op, cur)
           c == IF op = Reading THEN cached ELSE CachedAfter(t, cur, cached)
           n == IF throws THEN 0 ELSE id
           r == IF writes
                THEN [Idle EXCEPT !.pc = "write", !.op = op, !.docs = Outcome(op, cur),
                                  !.stale = th[t].stale /\ cur # NoFile]
                ELSE Idle
           k == throws \/ <<cached, id>> # <<cache[ProcOf[t]], seen[ProcOf[t]]>>
<1>1. /\ ProcOf[t] \in Proc /\ th[t] \in Record /\ Idle \in Record /\ file.id \in Nat
      /\ Fine(th[t], file, cache[ProcOf[t]], ProcOf[t], mixed) /\ (Changing(th[t]) <=> lock = t)
      /\ file \in [docs : File, id : Nat] /\ t # NoThread /\ NoFile \in File
  BY Known DEF File
<1>2. /\ Cached(t, c, n, r, k) /\ file' = file
      /\ lock' = IF writes THEN lock ELSE Unlocked(t)
  BY DEF Loaded
<1>3. k \in BOOLEAN /\ n \in Nat /\ n <= file'.id
  BY <1>1, <1>2
<1>4. mixed' = IF k THEN mixed \ {ProcOf[t]} ELSE mixed
  BY <1>2 DEF Cached
<1>5. ~k => cached = cache[ProcOf[t]] /\ id = seen[ProcOf[t]] /\ ~throws
  OBVIOUS
<1>6. CASE ~writes
  <2>1. r = Idle
    BY <1>6
  <2>2. c = IF throws THEN NoFile ELSE cached
    BY <1>6 DEF CachedAfter
  <2>3. k \/ c = cache[ProcOf[t]]
    BY <1>5, <2>2
  <2>4. c \in File
    BY <1>1, <2>2
  <2>5. lock' \in {lock, NoThread} /\ (lock' # lock => lock = t) /\ lock' # t
    BY <1>1, <1>2, <1>6 DEF Unlocked
  <2>6. Fine(r, file', c, ProcOf[t], mixed') /\ ~Changing(r)
    BY <1>1, <1>2, <2>1, IdleFine
  <2>7. ASSUME ProcOf[t] \notin mixed', c # NoFile, n = file'.id, file'.docs # NoFile
        PROVE  \/ c = file'.docs
               \/ \E u \in Thread : u # t /\ ProcOf[u] = ProcOf[t] /\ th[u].pc = "write"
    <3>1. c = cached /\ n = id /\ file' = file
      BY <1>2, <2>2, <2>7
    <3>2. CASE cached # NoFile /\ id = file.id /\ file.docs # NoFile => cached = file.docs
      BY <2>7, <3>1, <3>2
    <3>3. CASE cached = cache[ProcOf[t]] /\ id = seen[ProcOf[t]]
      <4>1. ~throws
        BY <2>2, <2>7
      <4>2. ProcOf[t] \notin mixed
        BY <1>4, <2>7, <3>3, <4>1
      <4>3. cache[ProcOf[t]] # NoFile /\ seen[ProcOf[t]] = file.id /\ file.docs # NoFile
        BY <2>7, <3>1, <3>3
      <4>4. \/ cache[ProcOf[t]] = file.docs
            \/ \E u \in Thread : u # t /\ ProcOf[u] = ProcOf[t] /\ th[u].pc = "write"
        BY <4>2, <4>3, CacheNow
      <4> QED BY <3>1, <3>3, <4>4
    <3> QED BY <3>2, <3>3
  <2>8. ProcOf[t] \notin mixed' /\ c # NoFile /\ n = file'.id /\ file'.docs # NoFile =>
          \/ c = file'.docs
          \/ r.pc = "write"
          \/ \E u \in Thread : u # t /\ ProcOf[u] = ProcOf[t] /\ th[u].pc = "write"
    BY <2>7
  <2>9. r \in Record /\ (Changing(r) <=> lock' = t)
    BY <1>1, <2>1, <2>5, <2>6
  <2> HIDE DEF op, writes, throws, c, n, r, k
  <2> QED BY <1>2, <1>3, <2>3, <2>4, <2>5, <2>6, <2>8, <2>9, CachedStep
<1>7. CASE writes
  <2>1. op # Reading /\ op \in Asked /\ op \in Change /\ Writes(op, cur)
    BY <1>1, <1>7, AskedAssumption DEF Record
  <2>2. Outcome(op, cur) \in File /\ Outcome(op, cur) # NoFile
    BY <2>1, WritesDocs DEF File
  <2>3. \/ throws /\ c = NoFile
        \/ c = Outcome(op, cur)
        \/ c = cached
    BY <2>1 DEF CachedAfter
  <2>4. c \in File
    BY <1>1, <2>2, <2>3
  <2>5. lock = t /\ lock' = t
    BY <1>1, <1>2, <1>7, <2>1 DEF Changing
  <2>6. k \/ c = cache[ProcOf[t]] \/ (lock = t /\ c # NoFile)
    BY <1>5, <2>2, <2>3, <2>5
  <2> DEFINE b == th[t].stale /\ cur # NoFile  docs == Outcome(op, cur)
  <2>7. r = [Idle EXCEPT !.pc = "write", !.op = op, !.docs = docs, !.stale = b]
    BY <1>7
  <2>8. b \in BOOLEAN /\ docs \in File
    BY <2>2
  <2>9. ~b => docs = Outcome(op, file.docs)
    BY <2>1
  <2> HIDE DEF b, docs, r
  <2>10. /\ r.pc = "write" /\ r.op = op /\ r.docs = docs /\ r.stale = b
         /\ r.id = 0 /\ r.from = 0
    BY <2>7 DEF Idle
  <2>11. r \in Record
    BY <1>1, <2>1, <2>7, <2>8 DEF Record, PC
  <2>12. Fine(r, file', c, ProcOf[t], mixed') /\ Changing(r)
    BY <1>1, <1>2, <2>1, <2>9, <2>10 DEF Fine, Changing
  <2>13. lock' \in {lock, NoThread} /\ (lock' # lock => lock = t) /\ (Changing(r) <=> lock' = t)
    BY <2>5, <2>12
  <2> HIDE DEF op, writes, throws, c, n, k
  <2> QED BY <1>2, <1>3, <2>4, <2>6, <2>10, <2>11, <2>12, <2>13, CachedStep
<1> QED BY <1>2, <1>6, <1>7

\* No change asked for is a read.
LEMMA NotReading ==
  ASSUME NEW c \in Asked PROVE c # Reading
BY AskedAssumption DEF Change, Reading

\* An operation begins.
LEMMA EnteredFine ==
  ASSUME IInv, NEW t \in Thread, NEW op \in Asked \cup {Reading}
  PROVE  /\ Entered(t, op) \in Record
         /\ Fine(Entered(t, op), file, cache[ProcOf[t]], ProcOf[t], mixed)
         /\ Changing(Entered(t, op)) <=> op # Reading
<1> DEFINE e == Entered(t, op)  p == ProcOf[t]
           from == IF op = Reading THEN file.id ELSE 0
           m == p \in mixed
<1>1. Idle \in Record /\ cache[p] \in File /\ file.id \in Nat /\ from \in Nat /\ from <= file.id
      /\ m \in BOOLEAN
  BY Known
<1>2. CASE cache[p] = NoFile
  <2>1. e = [Idle EXCEPT !.pc = "open", !.op = op, !.from = from]
    BY <1>2 DEF Entered
  <2> HIDE DEF e, from
  <2>2. e \in Record /\ e.pc = "open" /\ e.op = op /\ e.from = from /\ e.id = 0
    BY <1>1, <2>1 DEF Record, PC, Idle
  <2>3. Fine(e, file, cache[p], p, mixed) /\ (Changing(e) <=> op # Reading)
    BY <1>1, <2>2 DEF Fine, Changing
  <2> QED BY <2>2, <2>3 DEF e
<1>3. CASE cache[p] # NoFile
  <2>1. e = [Idle EXCEPT !.pc = "stat", !.op = op, !.from = from,
                         !.docs = cache[p], !.stale = m]
    BY <1>3 DEF Entered
  <2> HIDE DEF e, from, m
  <2>2. /\ e \in Record /\ e.pc = "stat" /\ e.op = op /\ e.from = from /\ e.id = 0
        /\ e.docs = cache[p] /\ e.stale = m
    BY <1>1, <2>1 DEF Record, PC, Idle
  <2>3. ~e.stale => p \notin mixed
    BY <2>2 DEF m
  <2>4. Fine(e, file, cache[p], p, mixed) /\ (Changing(e) <=> op # Reading)
    BY <1>1, <1>3, <2>2, <2>3 DEF Fine, Changing
  <2> QED BY <2>2, <2>4 DEF e
<1> QED BY <1>2, <1>3

LEMMA StartReadStep ==
  ASSUME IInv, NEW t \in Thread, StartRead(t)
  PROVE  IInv' /\ file' = file
<1> DEFINE r == Entered(t, Reading)
<1>1. th[t].pc = "idle" /\ (Changing(th[t]) <=> lock = t)
  BY Known DEF StartRead, Free
<1>2. lock # t
  BY <1>1 DEF Changing
<1>3. /\ r \in Record /\ Fine(r, file, cache[ProcOf[t]], ProcOf[t], mixed)
      /\ ~Changing(r)
  BY EnteredFine
<1>4. /\ th' = [th EXCEPT ![t] = r] /\ lock' = lock /\ UNCHANGED <<file, cache, seen, mixed>>
  BY DEF StartRead
<1>5. IInv'
  <2> HIDE DEF r
  <2> QED BY <1>1, <1>2, <1>3, <1>4, MoveStep
<1> QED BY <1>4, <1>5

LEMMA StartChangeStep ==
  ASSUME IInv, NEW t \in Thread, NEW a \in Asked, StartChange(t, a)
  PROVE  IInv' /\ file' = file
<1> DEFINE r == Entered(t, a)
<1>1. th[t].pc = "idle"
  BY DEF StartChange, Free
<1>2. /\ r \in Record /\ Fine(r, file, cache[ProcOf[t]], ProcOf[t], mixed)
      /\ Changing(r)
  BY NotReading, EnteredFine
<1>3. /\ th' = [th EXCEPT ![t] = r] /\ lock = NoThread /\ lock' = t
      /\ UNCHANGED <<file, cache, seen, mixed>>
  BY DEF StartChange
<1>4. IInv'
  <2> HIDE DEF r
  <2> QED BY <1>1, <1>2, <1>3, MoveStep
<1> QED BY <1>3, <1>4

LEMMA StartDropStep ==
  ASSUME IInv, NEW t \in Thread, NEW a \in Asked, StartDrop(t, a)
  PROVE  IInv' /\ file' = file
<1> DEFINE r == [Idle EXCEPT !.pc = "remove", !.op = a]
<1>1. th[t].pc = "idle" /\ Idle \in Record /\ file.id \in Nat
  BY Known DEF StartDrop, Free
<1>2. /\ r \in Record /\ Fine(r, file, cache[ProcOf[t]], ProcOf[t], mixed)
      /\ Changing(r)
  <2>1. a # Reading /\ a.op = "drop"
    BY NotReading DEF StartDrop
  <2>2. r \in Record /\ r.pc = "remove" /\ r.op = a /\ r.id = 0 /\ r.from = 0
    BY <1>1 DEF Record, PC, Idle
  <2> HIDE DEF r
  <2> QED BY <1>1, <2>1, <2>2 DEF Fine, Changing
<1>3. /\ th' = [th EXCEPT ![t] = r] /\ lock = NoThread /\ lock' = t
      /\ UNCHANGED <<file, cache, seen, mixed>>
  BY DEF StartDrop
<1>4. IInv'
  <2> HIDE DEF r
  <2> QED BY <1>1, <1>2, <1>3, MoveStep
<1> QED BY <1>3, <1>4

\* The cached collection that an operation took, where the file is still the
\* one remembered: a change finds the file's documents, or is stale.
LEMMA TakenFine ==
  ASSUME IInv, NEW t \in Thread, th[t].pc = "stat", file.docs # NoFile,
         SameFile(ProcOf[t])
  PROVE  /\ Taken(t) \in File
         /\ th[t].op # Reading => Taken(t) = file.docs \/ (th[t].stale /\ Taken(t) # NoFile)
         /\ ~th[t].stale /\ ProcOf[t] \notin mixed =>
              Taken(t) = file.docs \/ Writing(ProcOf[t])
<1>1. /\ th[t] \in Record /\ cache[ProcOf[t]] \in File
      /\ Fine(th[t], file, cache[ProcOf[t]], ProcOf[t], mixed)
      /\ (Changing(th[t]) <=> lock = t) /\ th[t].docs \in File
  BY Known DEF Record
<1>2. Taken(t) \in File
  BY <1>1 DEF Taken
<1>3. ASSUME ~th[t].stale, ProcOf[t] \notin mixed
      PROVE  \/ Taken(t) = file.docs
             \/ \E u \in Thread : u # t /\ ProcOf[u] = ProcOf[t] /\ th[u].pc = "write"
  <2>1. Taken(t) = cache[ProcOf[t]] /\ cache[ProcOf[t]] # NoFile /\ seen[ProcOf[t]] = file.id
    BY <1>1, <1>3 DEF Taken, Fine, SameFile
  <2> QED BY <1>3, <2>1, CacheNow
<1>4. ASSUME th[t].op # Reading
      PROVE  Taken(t) = file.docs \/ (th[t].stale /\ Taken(t) # NoFile)
  <2>1. CASE th[t].stale
    BY <1>1, <2>1 DEF Taken, Fine
  <2>2. CASE ~th[t].stale
    <3>1. ProcOf[t] \notin mixed /\ lock = t
      BY <1>1, <1>4, <2>2 DEF Fine, Changing
    <3>2. \A u \in Thread : u # t => th[u].pc # "write"
      BY <3>1 DEF IInv, Locked, Changing
    <3> QED BY <1>3, <2>2, <3>1, <3>2
  <2> QED BY <2>1, <2>2
<1> QED BY <1>2, <1>3, <1>4 DEF Writing

LEMMA StatStep ==
  ASSUME IInv, NEW t \in Thread, Stat(t)
  PROVE  IInv' /\ file' = file
<1> DEFINE p == ProcOf[t]
<1>1. /\ th[t] \in Record /\ cache[p] \in File /\ seen[p] \in Nat
      /\ seen[p] <= file.id /\ file.id \in Nat /\ Fine(th[t], file, cache[p], p, mixed)
      /\ (Changing(th[t]) <=> lock = t) /\ th[t].pc = "stat" /\ NoFile \in File
      /\ th \in [Thread -> Record]
  BY Known DEF Stat, File
<1>2. CASE file.docs = NoFile /\ Loaded(t, NoFile, NoFile, 0)
  BY <1>1, <1>2, LoadedStep
<1>3. CASE file.docs # NoFile /\ SameFile(p) /\ Loaded(t, Taken(t), cache[p], seen[p])
  BY <1>1, <1>3, TakenFine, LoadedStep
<1>4. CASE /\ th' = [th EXCEPT ![t] = [@ EXCEPT !.pc = "open", !.docs = NoFile,
                                               !.stale = FALSE]]
           /\ UNCHANGED <<file, lock, cache, seen, mixed>>
  <2> DEFINE r == [th[t] EXCEPT !.pc = "open", !.docs = NoFile, !.stale = FALSE]
  <2>1. th' = [th EXCEPT ![t] = r]
    BY <1>1, <1>4
  <2>2. r \in Record /\ (Changing(r) <=> Changing(th[t])) /\ Fine(r, file, cache[p], p, mixed)
    BY <1>1 DEF Record, PC, Changing, Fine
  <2>3. lock' = lock /\ UNCHANGED <<file, cache, seen, mixed>>
    BY <1>4
  <2> HIDE DEF r
  <2>4. IInv'
    BY <1>1, <2>1, <2>2, <2>3, MoveStep
  <2> QED BY <2>3, <2>4
<1> QED BY <1>1, <1>2, <1>3, <1>4 DEF Stat

LEMMA OpenStep ==
  ASSUME IInv, NEW t \in Thread, Open(t)
  PROVE  IInv' /\ file' = file
<1> DEFINE p == ProcOf[t]
<1>1. /\ th[t] \in Record /\ file.docs \in File /\ th \in [Thread -> Record]
      /\ file.id \in Nat /\ Fine(th[t], file, cache[p], p, mixed)
      /\ (Changing(th[t]) <=> lock = t) /\ th[t].pc = "open" /\ NoFile \in File
  BY Known DEF Open, File
<1>2. CASE file.docs = NoFile /\ Loaded(t, NoFile, NoFile, 0)
  BY <1>1, <1>2, LoadedStep
<1>3. CASE /\ file.docs # NoFile
           /\ th' = [th EXCEPT ![t] = [@ EXCEPT !.pc = "put", !.docs = file.docs,
                                               !.id = file.id]]
           /\ UNCHANGED <<file, lock, cache, seen, mixed>>
  <2> DEFINE r == [th[t] EXCEPT !.pc = "put", !.docs = file.docs, !.id = file.id]
  <2>1. th' = [th EXCEPT ![t] = r]
    BY <1>1, <1>3
  <2>2. r \in Record /\ (Changing(r) <=> Changing(th[t]))
    BY <1>1 DEF Record, PC, Changing
  <2>3. Fine(r, file, cache[p], p, mixed)
    BY <1>1, <1>3 DEF Record, Fine
  <2>4. lock' = lock /\ UNCHANGED <<file, cache, seen, mixed>>
    BY <1>3
  <2> HIDE DEF r
  <2>5. IInv'
    BY <1>1, <2>1, <2>2, <2>3, <2>4, MoveStep
  <2> QED BY <2>4, <2>5
<1> QED BY <1>2, <1>3 DEF Open

LEMMA PutStep ==
  ASSUME IInv, NEW t \in Thread, Put(t)
  PROVE  IInv' /\ file' = file
<1>1. /\ th[t] \in Record /\ th[t].pc = "put"
      /\ Fine(th[t], file, cache[ProcOf[t]], ProcOf[t], mixed)
  BY Known DEF Put
<1>2. th[t].docs \in File /\ th[t].id \in Nat
  BY <1>1 DEF Record
<1>3. /\ th[t].id <= file.id
      /\ th[t].docs # NoFile /\ th[t].id = file.id /\ file.docs # NoFile => th[t].docs = file.docs
      /\ th[t].op # Reading => th[t].docs = file.docs
  BY <1>1 DEF Fine
<1> QED BY <1>1, <1>2, <1>3, LoadedStep DEF Put

\* A rewrite makes the change of the file, unless it is of a stale collection.
LEMMA RenameStep ==
  ASSUME IInv, NEW t \in Thread, Rename(t)
  PROVE  /\ IInv'
         /\ th[t].stale \/ (th[t].op \in Asked /\ file'.docs = Outcome(th[t].op, file.docs))
<1> DEFINE p == ProcOf[t]  r == [Idle EXCEPT !.pc = "own"]
           c == th[t].docs  n == seen[p]  k == cache[p] # c
<1>1. /\ th[t] \in Record /\ n \in Nat /\ Idle \in Record /\ cache[p] \in File
      /\ n <= file.id /\ file.id \in Nat /\ file \in [docs : File, id : Nat]
      /\ Fine(th[t], file, cache[p], p, mixed) /\ (Changing(th[t]) <=> lock = t)
      /\ th[t].pc = "write"
  BY Known DEF Rename
<1>2. c \in File /\ th[t].op \in Asked /\ lock = t
      /\ (~th[t].stale => c = Outcome(th[t].op, file.docs))
  BY <1>1 DEF Record, Fine, Changing
<1>3. /\ file' = [docs |-> c, id |-> file.id + 1] /\ lock' = lock
      /\ Cached(t, c, n, r, k)
  BY DEF Rename
<1>4. file' \in [docs : File, id : Nat] /\ file'.docs = c /\ file'.id = file.id + 1
  BY <1>1, <1>2, <1>3
<1>5. r \in Record /\ Changing(r) /\ Fine(r, file', c, p, mixed')
  <2>1. r \in Record /\ r.pc = "own" /\ r.op = Reading /\ r.id = 0 /\ r.from = 0
    BY <1>1 DEF Record, PC, Idle
  <2> HIDE DEF r
  <2> QED BY <1>1, <1>4, <2>1 DEF Changing, Fine
<1>6. n <= file'.id /\ n # file'.id /\ k \in BOOLEAN /\ (k \/ c = cache[p])
  BY <1>1, <1>4
<1>7. IInv'
  <2>1. Cached(t, c, n, r, k) /\ Fine(r, file', c, ProcOf[t], mixed')
    BY <1>3, <1>5
  <2>2. k \/ c = cache[ProcOf[t]]
    BY <1>6
  <2> HIDE DEF r, c, n, k, p
  <2> QED BY <1>1, <1>2, <1>3, <1>4, <1>5, <1>6, <2>1, <2>2, CachedStep
<1> QED BY <1>2, <1>4, <1>7

LEMMA StatOwnStep ==
  ASSUME IInv, NEW t \in Thread, StatOwn(t)
  PROVE  IInv' /\ file' = file
<1> DEFINE n == file.id
<1>1. /\ ProcOf[t] \in Proc /\ Idle \in Record /\ n \in Nat /\ t # NoThread
      /\ file \in [docs : File, id : Nat]
      /\ Fine(th[t], file, cache[ProcOf[t]], ProcOf[t], mixed)
      /\ (Changing(th[t]) <=> lock = t) /\ th[t].pc = "own" /\ mixed \subseteq Proc
  BY Known DEF StatOwn, IInv, TypeOK
<1>2. lock = t /\ (~th[t].stale => cache[ProcOf[t]] = file.docs)
  BY <1>1 DEF Fine, Changing
<1>3. /\ file' = file /\ lock' = NoThread /\ seen' = [seen EXCEPT ![ProcOf[t]] = n]
      /\ cache' = cache /\ th' = [th EXCEPT ![t] = Idle]
      /\ mixed' = IF th[t].stale /\ cache[ProcOf[t]] # NoFile
                  THEN mixed \cup {ProcOf[t]} ELSE mixed \ {ProcOf[t]}
  BY <1>2 DEF StatOwn, Unlocked
<1>4. /\ mixed' \subseteq Proc
      /\ \A q \in Proc : q # ProcOf[t] => (q \in mixed' <=> q \in mixed)
  BY <1>1, <1>3
<1>5. ProcOf[t] \notin mixed' => cache[ProcOf[t]] = file'.docs \/ cache[ProcOf[t]] = NoFile
  BY <1>2, <1>3
<1>6. Fine(Idle, file', cache[ProcOf[t]], ProcOf[t], mixed') /\ (Changing(Idle) <=> lock' = t)
  BY <1>1, <1>3, IdleFine
<1>7. n <= file'.id
  BY <1>1, <1>3
<1> HIDE DEF n
<1>8. IInv'
  BY <1>1, <1>2, <1>3, <1>4, <1>5, <1>6, <1>7, KeepStep
<1> QED BY <1>3, <1>8

\* The thread is done and its process has nothing cached.
LEMMA ForgetStep ==
  ASSUME IInv, NEW t \in Thread, FailWrite(t) \/ Forget(t)
  PROVE  IInv' /\ file' = file
<1> DEFINE k == TRUE  n == 0
<1>1. /\ Idle \in Record /\ NoFile \in File /\ file.id \in Nat
      /\ file \in [docs : File, id : Nat] /\ (Changing(th[t]) <=> lock = t) /\ t # NoThread
  BY Known DEF File
<1>2. /\ file' = file /\ Cached(t, NoFile, n, Idle, k) /\ k \in BOOLEAN /\ k
  BY DEF FailWrite, Forget
<1>3. lock' \in {lock, NoThread} /\ lock' # t /\ (lock' # lock => lock = t)
  BY <1>1 DEF FailWrite, Forget, Unlocked, Changing
<1>4. Fine(Idle, file', NoFile, ProcOf[t], mixed') /\ ~Changing(Idle)
  BY <1>1, <1>2, IdleFine
<1>5. n \in Nat /\ n <= file'.id
  BY <1>1, <1>2
<1> HIDE DEF k, n
<1>6. IInv'
  BY <1>1, <1>2, <1>3, <1>4, <1>5, CachedStep
<1> QED BY <1>2, <1>6

LEMMA FailLoadStep ==
  ASSUME IInv, NEW t \in Thread, FailLoad(t)
  PROVE  IInv' /\ file' = file
<1>1. Idle \in Record /\ file \in [docs : File, id : Nat] /\ t # NoThread
  BY Known
<1>2. Fine(Idle, file, cache[ProcOf[t]], ProcOf[t], mixed) /\ ~Changing(Idle)
  BY <1>1, IdleFine
<1>3. /\ th[t].pc # "write" /\ th' = [th EXCEPT ![t] = Idle]
      /\ UNCHANGED <<file, cache, seen, mixed>>
      /\ lock' \in {lock, t, NoThread} /\ (lock' # lock => lock \in {t, NoThread})
      /\ lock' # t
  BY <1>1 DEF FailLoad, Unlocked
<1>4. Changing(Idle) <=> lock' = t
  BY <1>2, <1>3
<1>5. IInv'
  BY <1>1, <1>2, <1>3, <1>4, MoveStep
<1> QED BY <1>3, <1>5

LEMMA RemoveStep ==
  ASSUME IInv, NEW t \in Thread, Remove(t)
  PROVE  IInv' /\ th[t].op \in Asked /\ file'.docs = Outcome(th[t].op, file.docs)
<1> DEFINE r == [Idle EXCEPT !.pc = "forget"]  n == seen[ProcOf[t]]
<1>1. /\ ProcOf[t] \in Proc /\ th[t] \in Record /\ n \in Nat /\ Idle \in Record
      /\ n <= file.id /\ file.id \in Nat /\ file \in [docs : File, id : Nat]
      /\ Fine(th[t], file, cache[ProcOf[t]], ProcOf[t], mixed)
      /\ (Changing(th[t]) <=> lock = t)
      /\ th[t].pc = "remove" /\ t # NoThread /\ mixed \subseteq Proc
  BY Known DEF Remove, IInv, TypeOK
<1>2. th[t].op \in Asked /\ lock = t /\ th[t].op.op = "drop" /\ NoFile \in File
  BY <1>1 DEF Record, Fine, Changing, File
<1>3. /\ file' = [file EXCEPT !.docs = NoFile] /\ lock' = NoThread
      /\ cache' = cache /\ th' = [th EXCEPT ![t] = r] /\ mixed' = mixed /\ seen' = seen
  BY <1>2 DEF Remove, Unlocked
<1>4. file' \in [docs : File, id : Nat] /\ file'.docs = NoFile /\ file'.id = file.id
  BY <1>1, <1>2, <1>3
<1>5. seen' = [seen EXCEPT ![ProcOf[t]] = n] /\ mixed' \subseteq Proc
  BY <1>1, <1>3 DEF IInv, TypeOK
<1>6. r \in Record /\ ~Changing(r) /\ Fine(r, file', cache[ProcOf[t]], ProcOf[t], mixed')
  <2>1. r \in Record /\ r.pc = "forget" /\ r.op = Reading /\ r.id = 0 /\ r.from = 0
    BY <1>1 DEF Record, PC, Idle
  <2> HIDE DEF r
  <2> QED BY <1>1, <1>4, <2>1 DEF Changing, Fine
<1>7. Outcome(th[t].op, file.docs) = NoFile
  BY <1>2 DEF Outcome
<1>8. IInv'
  <2>1. n <= file'.id /\ lock' # t
    BY <1>1, <1>3, <1>4
  <2> HIDE DEF r, n
  <2> QED BY <1>1, <1>2, <1>3, <1>4, <1>5, <1>6, <2>1, KeepStep
<1> QED BY <1>2, <1>4, <1>7, <1>8

LEMMA CrashStep ==
  ASSUME IInv, NEW p \in Proc, Crash(p)
  PROVE  IInv' /\ file' = file
<1> USE DEF IInv
<1>1. /\ th' = [t \in Thread |-> IF ProcOf[t] = p THEN Idle ELSE th[t]]
      /\ cache' = [cache EXCEPT ![p] = NoFile] /\ seen' = [seen EXCEPT ![p] = 0]
      /\ lock' = (IF lock # NoThread /\ ProcOf[lock] = p THEN NoThread ELSE lock)
      /\ mixed' = mixed \ {p}
      /\ file' = file
  BY DEF Crash
<1>2. Idle \in Record /\ NoFile \in File /\ file \in [docs : File, id : Nat]
  BY DEF Record, Idle, PC, File, TypeOK
<1>3. TypeOK'
  <2>1. th' \in [Thread -> Record]
    BY <1>1, <1>2 DEF TypeOK, Record
  <2>2. mixed' \subseteq Proc
    BY <1>1 DEF TypeOK
  <2> QED BY <1>1, <1>2, <2>1, <2>2 DEF TypeOK, Record
<1>4. Locked'
  <2> SUFFICES ASSUME NEW t \in Thread PROVE Changing(th'[t]) <=> lock' = t
    BY DEF Locked
  <2>1. ~Changing(Idle) /\ t # NoThread /\ (Changing(th[t]) <=> lock = t)
    BY <1>2, IdleFine, ThreadAssumption DEF Locked
  <2>2. CASE ProcOf[t] = p
    BY <1>1, <2>1, <2>2
  <2>3. CASE ProcOf[t] # p
    BY <1>1, <2>1, <2>3
  <2> QED BY <2>2, <2>3
<1>5. AllFine'
  <2> SUFFICES ASSUME NEW t \in Thread
               PROVE  Fine(th'[t], file', cache'[ProcOf[t]], ProcOf[t], mixed')
    BY DEF AllFine
  <2>1. CASE ProcOf[t] = p
    BY <1>1, <1>2, <2>1, IdleFine
  <2>2. CASE ProcOf[t] # p
    <3>1. /\ cache'[ProcOf[t]] = cache[ProcOf[t]] /\ th'[t] = th[t]
          /\ ProcOf[t] \in mixed' <=> ProcOf[t] \in mixed
      BY <1>1, <2>2, ThreadAssumption DEF TypeOK
    <3>2. Fine(th[t], file, cache[ProcOf[t]], ProcOf[t], mixed)
      BY DEF AllFine
    <3> QED BY <1>1, <3>1, <3>2 DEF Fine
  <2> QED BY <2>1, <2>2
<1>6. SeenPast'
  BY <1>1, <1>2 DEF SeenPast, TypeOK
<1>7. CacheCurrent'
  <2> SUFFICES ASSUME NEW q \in Proc, q \notin mixed', cache'[q] # NoFile,
                      seen'[q] = file'.id, file'.docs # NoFile
               PROVE  \/ cache'[q] = file'.docs
                      \/ \E u \in Thread : ProcOf[u] = q /\ th'[u].pc = "write"
    BY DEF CacheCurrent, Writing
  <2>1. q # p
    BY <1>1 DEF TypeOK
  <2>2. cache'[q] = cache[q] /\ seen'[q] = seen[q] /\ q \in Proc \ mixed
    BY <1>1, <2>1 DEF TypeOK
  <2> QED BY <1>1, <2>1, <2>2 DEF CacheCurrent, Writing
<1> QED BY <1>1, <1>3, <1>4, <1>5, <1>6, <1>7
-----------------------------------------------------------------------------
LEMMA Start == Init => IInv
<1> SUFFICES ASSUME Init PROVE IInv
  OBVIOUS
<1> USE DEF Init
<1>1. Idle \in Record /\ NoFile \in File /\ file \in [docs : File, id : Nat]
  BY DEF Record, Idle, PC, File
<1>2. TypeOK
  BY <1>1 DEF TypeOK, Record
<1>3. SeenPast /\ CacheCurrent
  BY DEF SeenPast, CacheCurrent
<1>4. Locked
  BY <1>1, IdleFine, ThreadAssumption DEF Locked
<1>5. AllFine
  BY <1>1, IdleFine DEF AllFine
<1> QED BY <1>2, <1>3, <1>4, <1>5 DEF IInv

\* A step of the abstract store, or a rewrite of a stale collection.
Effect ==
  \/ \E c \in Asked : file'.docs = Outcome(c, file.docs)
  \/ \E t \in Thread : Rename(t) /\ th[t].stale
  \/ file' = file

\* Every step keeps the invariant and has such an effect.
LEMMA Step ==
  ASSUME IInv, [Next]_vars
  PROVE  IInv' /\ Effect
<1>1. CASE UNCHANGED vars
  <2>1. IInv'
    BY <1>1 DEF vars, IInv, TypeOK, Locked, AllFine, SeenPast, CacheCurrent, Writing
  <2> QED BY <1>1, <2>1 DEF vars, Effect
<1>2. ASSUME NEW t \in Thread, StartRead(t)
      PROVE  IInv' /\ file' = file
  BY <1>2, StartReadStep
<1>3. ASSUME NEW t \in Thread, NEW a \in Asked, StartChange(t, a) \/ StartDrop(t, a)
      PROVE  IInv' /\ file' = file
  BY <1>3, StartChangeStep, StartDropStep
<1>4. ASSUME NEW t \in Thread, Stat(t) \/ Open(t) \/ Put(t)
      PROVE  IInv' /\ file' = file
  BY <1>4, StatStep, OpenStep, PutStep
<1>5. ASSUME NEW t \in Thread, Rename(t) \/ Remove(t)
      PROVE  IInv' /\ Effect
  BY <1>5, RenameStep, RemoveStep DEF Effect
<1>6. ASSUME NEW t \in Thread, StatOwn(t) \/ FailWrite(t) \/ FailLoad(t) \/ Forget(t)
      PROVE  IInv' /\ file' = file
  BY <1>6, StatOwnStep, ForgetStep, FailLoadStep
<1>7. ASSUME NEW p \in Proc, Crash(p)
      PROVE  IInv' /\ file' = file
  BY <1>7, CrashStep
<1>8. CASE Next
  <2>1. (IInv' /\ file' = file) \/ (IInv' /\ Effect)
    BY <1>2, <1>3, <1>4, <1>5, <1>6, <1>7, <1>8 DEF Next
  <2> QED BY <2>1 DEF Effect
<1> QED BY <1>1, <1>8

LEMMA Always == Spec => []IInv
<1>1. ASSUME IInv, [Next]_vars PROVE IInv'
  BY <1>1, Step
<1> QED BY Start, <1>1, PTL DEF Spec

\* Every reachable state is well typed, for any processes with any number of
\* operations under way at once.
THEOREM TypeCorrect == Spec => []TypeOK
<1>1. IInv => TypeOK
  BY DEF IInv
<1> QED BY <1>1, Always, PTL

\* A cache whose identity is the file's holds the file's documents, unless the
\* process is just writing or has mixed the two up: a reload of an older file
\* ended between a rewrite and the stat that takes its identity.
THEOREM CacheHonest == Spec => []CacheCurrent
<1>1. IInv => CacheCurrent
  BY DEF IInv
<1> QED BY <1>1, Always, PTL

\* The processes act as one store: every rewrite is one change of the file as it
\* was, and none is lost; but for a rewrite of a collection that another
\* operation of the same process had replaced, or mixed up, meanwhile.
THEOREM Implements == Spec => ActsAsOneStore
<1>1. Init => Store!Init
  BY DEF Init, Store!Init
<1>2. ASSUME IInv, [Next]_vars
      PROVE  [Store!Next \/ \E t \in Thread : Rename(t) /\ th[t].stale]_(file.docs)
  <2>1. \A c, d : Store!Outcome(c, d) = Outcome(c, d)
    BY DEF Store!Outcome, Outcome, Store!Added, Added, Store!Empty, Empty,
           Store!Updated, Updated, Store!Patched, Patched
  <2>2. Effect
    BY <1>2, Step
  <2> QED BY <2>1, <2>2 DEF Store!Next, Effect
<1> QED BY <1>1, <1>2, Always, PTL DEF Spec, ActsAsOneStore

\* A read whose collection nobody replaced or mixed up returns what is on disk
\* now, what its process is writing, or what was no older when it began.
THEOREM FreshReads == Spec => ReadsFresh
<1>1. ASSUME IInv, NEW t \in Thread, Returned(t), file.docs # NoFile, ~th[t].stale,
             ProcOf[t] \notin mixed
      PROVE  Current(t)
  <2>1. /\ th[t] \in Record /\ Fine(th[t], file, cache[ProcOf[t]], ProcOf[t], mixed)
        /\ file.id \in Nat /\ th[t].pc \in {"stat", "put"} /\ th'[t].pc = "idle"
        /\ th[t].id \in Nat /\ th[t].from \in Nat /\ th \in [Thread -> Record]
    BY <1>1, Known DEF Returned, Record
  <2>2. CASE th[t].pc = "put"
    BY <2>1, <2>2 DEF Fine, Current
  <2>3. CASE th[t].pc = "stat"
    <3>1. Stat(t)
      BY <1>1, <2>3 DEF Returned, Put
    <3>2. SameFile(ProcOf[t])
      <4>1. th' # [th EXCEPT ![t] = [@ EXCEPT !.pc = "open", !.docs = NoFile,
                                             !.stale = FALSE]]
        BY <2>1 DEF Record
      <4> QED BY <1>1, <3>1, <4>1 DEF Stat
    <3>3. Taken(t) = file.docs \/ Writing(ProcOf[t])
      BY <1>1, <2>3, <3>2, TakenFine
    <3> QED BY <2>3, <3>3 DEF Current
  <2> QED BY <2>1, <2>2, <2>3
<1>2. IInv => \A t \in Thread :
        Returned(t) /\ file.docs # NoFile /\ ~th[t].stale /\ ProcOf[t] \notin mixed
          => Current(t)
  BY <1>1
<1> QED BY <1>2, Always, PTL DEF ReadsFresh
=============================================================================
