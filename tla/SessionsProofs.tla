--------------------------- MODULE SessionsProofs ---------------------------
(***************************************************************************)
(* Proofs about Sessions and the SyncLoop in it, for any servers, plugins, *)
(* commands and journal entries and any bounds.                            *)
(***************************************************************************)
EXTENDS Sessions, SequenceTheorems, TLAPS

\* A slot's work is replaced by r.
Becomes(p, s, r) == work' = [work EXCEPT ![p][s] = r]

WorkOK ==
  /\ work \in [Server -> [Slot -> Work]]
  /\ inFlight \in [Server -> Slot \cup {NoSlot}]
  /\ \A p \in Server : inFlight[p] # NoSlot => work[p][inFlight[p]].pc # "free"

\* Whoever works on the lock is a tick.
Early == {"tick", "name", "held", "break", "again"}
KindInv == \A p \in Server : \A s \in Slot : work[p][s].pc \in Early => work[p][s].kind \in {"initial", "tick"}

LockFile == [by : (Server \X Slot) \cup {Dead}, named : BOOLEAN, old : BOOLEAN]
RestOK ==
  /\ host \in [Server -> {"off", "up", "rolling", "flushing", "disposed"}]
  /\ loop \in [Server -> Loop]
  /\ soon \in [Server -> BOOLEAN]
  /\ call \in [Server -> Call \cup {NoCall}]
  /\ pending \subseteq Writer
  /\ fresh \in BOOLEAN
  /\ lock \in LockFile \cup {NoLock}
  /\ used \in [{"calls", "starts", "crashes", "failures", "toggles"} -> Nat]
  /\ owed \subseteq Server

LEMMA TypeParts == TypeOK <=> WorkOK /\ RestOK
  BY DEF TypeOK, WorkOK, RestOK, LockFile

LEMMA BecomesAt ==
  ASSUME work \in [Server -> [Slot -> Work]], NEW p \in Server, NEW s \in Slot, NEW r,
         Becomes(p, s, r)
  PROVE  /\ work'[p][s] = r
         /\ \A q \in Server : \A t \in Slot : q # p \/ t # s => work'[q][t] = work[q][t]
         /\ r \in Work => work' \in [Server -> [Slot -> Work]]
  BY DEF Becomes

\* What replacing a slot's work does to the types.
LEMMA WorkMoves ==
  ASSUME WorkOK, KindInv, NEW p \in Server, NEW s \in Slot, NEW r \in Work, Becomes(p, s, r),
         r.pc \in Early => r.kind \in {"initial", "tick"},
         \/ inFlight' = inFlight /\ (r.pc = "free" => inFlight[p] # s)
         \/ inFlight' = [inFlight EXCEPT ![p] = NoSlot]
         \/ inFlight' = [inFlight EXCEPT ![p] = s] /\ r.pc # "free"
  PROVE  WorkOK' /\ KindInv'
<1>1. /\ work'[p][s] = r
      /\ \A q \in Server : \A t \in Slot : q # p \/ t # s => work'[q][t] = work[q][t]
      /\ work' \in [Server -> [Slot -> Work]]
  BY BecomesAt DEF WorkOK
<1>2. inFlight' \in [Server -> Slot \cup {NoSlot}]
  BY DEF WorkOK
<1>3. \A q \in Server : inFlight'[q] # NoSlot => work'[q][inFlight'[q]].pc # "free"
  <2> SUFFICES ASSUME NEW q \in Server, inFlight'[q] # NoSlot
               PROVE  work'[q][inFlight'[q]].pc # "free"
    OBVIOUS
  <2>1. CASE q # p
    BY <1>1, <2>1 DEF WorkOK
  <2>2. CASE q = p
    BY <1>1, <2>2 DEF WorkOK
  <2>3. QED
    BY <2>1, <2>2
<1>4. KindInv'
  BY <1>1 DEF KindInv
<1>5. QED
  BY <1>1, <1>2, <1>3, <1>4 DEF WorkOK

LEMMA BegunType ==
  /\ FreeSlot \in Work /\ FreeSlot.pc = "free" /\ ~FreeSlot.awaited
  /\ \A kind \in Kind : \A pc \in WorkPC :
       /\ Begun(kind, pc) \in Work /\ Begun(kind, pc).kind = kind /\ Begun(kind, pc).pc = pc
       /\ Begun(kind, pc).seen = {} /\ ~Begun(kind, pc).awaited
  BY DEF FreeSlot, Begun, Work, Kind, WorkPC

\* A slot that is free is taken out of those the process may have.
LEMMA TakenFree ==
  ASSUME NEW p \in Server, NEW s \in Slot, FreeIn(p, s)
  PROVE  work[p][s].pc = "free"
  BY SyncLoopAssumption DEF FreeIn

LEMMA SettledWork ==
  ASSUME WorkOK, KindInv, NEW p \in Server, NEW s \in Slot, Settled(p, s)
  PROVE  WorkOK' /\ KindInv' /\ Becomes(p, s, FreeSlot)
<1>1. Becomes(p, s, FreeSlot)
  BY DEF Settled, Becomes
<1>2. CASE inFlight[p] = s
  <2>1. inFlight' = [inFlight EXCEPT ![p] = NoSlot]
    BY <1>2 DEF Settled
  <2>2. QED
    BY <1>1, <2>1, WorkMoves, BegunType DEF Early
<1>3. CASE inFlight[p] # s
  <2>1. inFlight' = inFlight
    BY <1>3 DEF Settled, WorkOK
  <2>2. QED
    BY <1>1, <1>3, <2>1, WorkMoves, BegunType DEF Early
<1>4. QED
  BY <1>2, <1>3

LEMMA MovedWork ==
  ASSUME WorkOK, KindInv, NEW p \in Server, NEW s \in Slot, NEW pc \in WorkPC \ {"free"},
         Moved(p, s, pc), pc \in Early => work[p][s].pc \in Early
  PROVE  /\ WorkOK' /\ KindInv'
         /\ Becomes(p, s, [work[p][s] EXCEPT !.pc = pc])
<1> DEFINE r == [work[p][s] EXCEPT !.pc = pc]
<1>1. work[p][s] \in Work
  BY DEF WorkOK
<1>2. r \in Work /\ r.pc = pc /\ r.kind = work[p][s].kind
  BY <1>1 DEF Work
<1>3. Becomes(p, s, r)
  BY DEF Moved, Becomes
<1>4. inFlight' = inFlight
  BY DEF Moved
<1>5. r.pc \in Early => r.kind \in {"initial", "tick"}
  BY <1>2 DEF KindInv
<1> HIDE DEF r
<1>6. WorkOK' /\ KindInv'
  BY <1>2, <1>3, <1>4, <1>5, WorkMoves
<1>7. QED
  BY <1>3, <1>6 DEF r

LEMMA TrackWork ==
  ASSUME WorkOK, KindInv, NEW p \in Server, NEW s \in Slot, NEW kind \in Kind,
         NEW pc \in WorkPC \ {"free"}, Track(p, s, kind, pc),
         pc \in Early => kind \in {"initial", "tick"}
  PROVE  WorkOK' /\ KindInv' /\ Becomes(p, s, Begun(kind, pc)) /\ work[p][s].pc = "free"
<1>1. Becomes(p, s, Begun(kind, pc)) /\ inFlight' = [inFlight EXCEPT ![p] = s]
  BY DEF Track, Becomes
<1>2. Begun(kind, pc) \in Work /\ Begun(kind, pc).kind = kind /\ Begun(kind, pc).pc = pc
  BY BegunType
<1>3. QED
  BY <1>1, <1>2, WorkMoves, TakenFree DEF Track

\* A tick that finds or makes the lock file.
LEMMA OpenedType ==
  ASSUME NEW kind \in {"initial", "tick"}
  PROVE  /\ Opened(kind) \in Work /\ Opened(kind).kind = kind
         /\ Opened(kind).pc \in {"name", "held"}
         /\ Opened(kind).pc = "name" <=> lock = NoLock
<1>1. kind \in Kind /\ {"name", "held"} \subseteq WorkPC
  BY DEF Kind, WorkPC
<1>2. CASE lock = NoLock
  BY <1>1, <1>2, BegunType DEF Opened
<1>3. CASE lock # NoLock
  BY <1>1, <1>3, BegunType DEF Opened
<1>4. QED
  BY <1>2, <1>3

LEMMA WrittenWork ==
  ASSUME WorkOK, KindInv, NEW x, Unpushed(x), UNCHANGED inFlight
  PROVE  /\ WorkOK' /\ KindInv'
         /\ \A p \in Server : \A s \in Slot :
              /\ work'[p][s].pc = work[p][s].pc /\ work'[p][s].kind = work[p][s].kind
              /\ work'[p][s].awaited = work[p][s].awaited
              /\ work'[p][s].seen = work[p][s].seen \ {x}
<1>1. \A r \in Work : /\ [r EXCEPT !.seen = @ \ {x}] \in Work
                      /\ [r EXCEPT !.seen = @ \ {x}].pc = r.pc
                      /\ [r EXCEPT !.seen = @ \ {x}].kind = r.kind
                      /\ [r EXCEPT !.seen = @ \ {x}].awaited = r.awaited
                      /\ [r EXCEPT !.seen = @ \ {x}].seen = r.seen \ {x}
  BY DEF Work
<1>2. \A p \in Server : \A s \in Slot : work[p][s] \in Work
  BY DEF WorkOK
<1>3. \A p \in Server : \A s \in Slot : work'[p][s] = [work[p][s] EXCEPT !.seen = @ \ {x}]
  BY DEF Unpushed
<1>4. work' \in [Server -> [Slot -> Work]]
  BY <1>1, <1>2 DEF Unpushed
<1>5. \A p \in Server : \A s \in Slot :
        /\ work'[p][s].pc = work[p][s].pc /\ work'[p][s].kind = work[p][s].kind
        /\ work'[p][s].awaited = work[p][s].awaited
        /\ work'[p][s].seen = work[p][s].seen \ {x}
  BY <1>1, <1>2, <1>3
<1>6. \A p \in Server : inFlight[p] # NoSlot => work'[p][inFlight[p]].pc # "free"
  BY <1>5 DEF WorkOK
<1>7. QED
  BY <1>4, <1>5, <1>6 DEF WorkOK, KindInv

LEMMA EndedWork ==
  ASSUME WorkOK, KindInv, NEW p \in Server, Ended(p)
  PROVE  /\ WorkOK' /\ KindInv'
         /\ \A s \in Slot : work'[p][s] = FreeSlot
         /\ \A q \in Server \ {p} : \A s \in Slot : work'[q][s] = work[q][s]
<1>1. /\ work' = [work EXCEPT ![p] = [s \in Slot |-> FreeSlot]]
      /\ inFlight' = [inFlight EXCEPT ![p] = NoSlot]
  BY DEF Ended
<1>2. /\ \A s \in Slot : work'[p][s] = FreeSlot
      /\ \A q \in Server \ {p} : work'[q] = work[q]
      /\ work' \in [Server -> [Slot -> Work]]
  BY <1>1, BegunType DEF WorkOK
<1>3. WorkOK'
  BY <1>1, <1>2 DEF WorkOK
<1>4. KindInv'
  BY <1>2, BegunType DEF KindInv, Early
<1>5. QED
  BY <1>2, <1>3, <1>4

\* A push reads what is unpushed.
LEMMA ReadWork ==
  ASSUME WorkOK, KindInv, RestOK, NEW p \in Server, NEW s \in Slot, Read(p, s)
  PROVE  /\ WorkOK' /\ KindInv'
         /\ work'[p][s] = [work[p][s] EXCEPT !.pc = "sent", !.seen = pending]
         /\ \A q \in Server : \A t \in Slot : q # p \/ t # s => work'[q][t] = work[q][t]
<1> DEFINE r == [work[p][s] EXCEPT !.pc = "sent", !.seen = pending]
<1>1. work[p][s] \in Work /\ pending \subseteq Writer
  BY DEF WorkOK, RestOK
<1>2. r \in Work /\ r.pc = "sent"
  BY <1>1 DEF Work, WorkPC
<1>3. Becomes(p, s, r)
  BY DEF Read, Becomes
<1>4. inFlight' = inFlight
  BY DEF Read
<1> HIDE DEF r
<1>5. WorkOK' /\ KindInv'
  BY <1>2, <1>3, <1>4, WorkMoves DEF Early
<1>6. /\ work'[p][s] = r
      /\ \A q \in Server : \A t \in Slot : q # p \/ t # s => work'[q][t] = work[q][t]
  BY <1>3, BecomesAt DEF WorkOK
<1>7. QED
  BY <1>5, <1>6 DEF r

LEMMA WorkStepWork ==
  ASSUME WorkOK, KindInv, RestOK, NEW p \in Server, NEW s \in Slot, WorkStep(p, s)
  PROVE  WorkOK' /\ KindInv'
<1>0. {"break", "again", "name", "push", "pull"} \subseteq WorkPC \ {"free"}
  BY DEF WorkPC
<1>1. CASE Settled(p, s)
  BY <1>1, SettledWork
<1>2. CASE Initial(p, s) /\ ~Settled(p, s)
  <2>1. Becomes(p, s, Opened("initial")) /\ inFlight' = inFlight
    BY <1>2 DEF Initial, Becomes
  <2>2. /\ Opened("initial") \in Work /\ Opened("initial").kind = "initial"
        /\ Opened("initial").pc # "free"
    BY OpenedType
  <2>3. QED
    BY <2>1, <2>2, WorkMoves
<1>3. CASE Judge(p, s) /\ ~Settled(p, s)
  BY <1>0, <1>3, MovedWork DEF Judge, Early
<1>4. CASE Break(p, s)
  BY <1>0, <1>4, MovedWork DEF Break, Early
<1>5. CASE TryAgain(p, s) /\ ~Settled(p, s)
  BY <1>0, <1>5, MovedWork DEF TryAgain, Early
<1>6. CASE Name(p, s) /\ ~Settled(p, s)
  BY <1>0, <1>6, MovedWork DEF Name, Early
<1>7. CASE Read(p, s)
  BY <1>7, ReadWork
<1>8. CASE (Answer(p, s) \/ Fail(p, s)) /\ ~Settled(p, s)
  BY <1>0, <1>8, MovedWork DEF Answer, Fail, PushEnds, Early
<1>9. QED
  BY <1>1, <1>2, <1>3, <1>4, <1>5, <1>6, <1>7, <1>8 DEF WorkStep, Finish

LEMMA TimerStepWork ==
  ASSUME WorkOK, KindInv, RestOK, NEW p \in Server, NEW s \in Slot, TimerStep(p, s)
  PROVE  WorkOK' /\ KindInv'
<1>0. /\ "push" \in Kind /\ "initial" \in Kind /\ {"push", "tick"} \subseteq WorkPC \ {"free"}
  BY DEF Kind, WorkPC
<1>a. \A kind \in {"initial", "tick"} :
        Opened(kind) \in Work /\ Opened(kind).kind = kind /\ Opened(kind).pc # "free"
  BY OpenedType
<1>1. CASE FireTick(p, s)
  <2>1. CASE fresh
    <3>1. work' = work /\ inFlight' = [inFlight EXCEPT ![p] = NoSlot]
      BY <1>1, <2>1 DEF FireTick
    <3>2. QED
      BY <3>1 DEF WorkOK, KindInv
  <2>2. CASE ~fresh
    <3>1. Becomes(p, s, Opened("tick")) /\ inFlight' = [inFlight EXCEPT ![p] = s]
      BY <1>1, <2>2 DEF FireTick, Open, Becomes
    <3>2. QED
      BY <1>a, <3>1, WorkMoves
  <2>3. QED
    BY <2>1, <2>2
<1>2. CASE FireSoon(p, s)
  BY <1>0, <1>2, TrackWork DEF FireSoon, Early
<1>3. CASE Connected(p, s)
  <2>1. CASE fresh
    BY <1>0, <1>3, <2>1, TrackWork DEF Connected
  <2>2. CASE ~fresh
    <3>1. Becomes(p, s, Opened("initial")) /\ inFlight' = [inFlight EXCEPT ![p] = s]
      BY <1>3, <2>2 DEF Connected, Open, Becomes
    <3>2. QED
      BY <1>a, <3>1, WorkMoves
  <2>3. QED
    BY <2>1, <2>2
<1>4. QED
  BY <1>1, <1>2, <1>3 DEF TimerStep

\* The push a shutdown sends, or the work it waits for.
LEMMA FlushWork ==
  ASSUME WorkOK, KindInv, NEW p \in Server, flushPendingSync(p)
  PROVE  /\ WorkOK' /\ KindInv'
         /\ \/ /\ soon[p]
               /\ \E s \in Slot :
                    /\ Becomes(p, s, [Begun("flush", "push") EXCEPT !.awaited = TRUE])
                    /\ inFlight' = [inFlight EXCEPT ![p] = s]
                    /\ work[p][s].pc = "free"
            \/ /\ ~soon[p] /\ inFlight[p] # NoSlot /\ inFlight' = inFlight
               /\ Becomes(p, inFlight[p], [work[p][inFlight[p]] EXCEPT !.awaited = TRUE])
            \/ ~soon[p] /\ inFlight[p] = NoSlot /\ work' = work /\ inFlight' = inFlight
<1> DEFINE b == [Begun("flush", "push") EXCEPT !.awaited = TRUE]
<1>1. b \in Work /\ b.pc = "push"
  <2>1. Begun("flush", "push") \in Work /\ Begun("flush", "push").pc = "push"
    BY BegunType DEF Kind, WorkPC
  <2>2. QED
    BY <2>1 DEF Work
<1>2. CASE soon[p]
  <2>1. PICK s \in Slot : FreeIn(p, s) /\ Becomes(p, s, b)
                          /\ inFlight' = [inFlight EXCEPT ![p] = s]
    BY <1>2 DEF flushPendingSync, Becomes
  <2>2. work[p][s].pc = "free"
    BY <2>1, TakenFree
  <2> HIDE DEF b
  <2>3. WorkOK' /\ KindInv'
    BY <1>1, <2>1, WorkMoves DEF Early
  <2>4. QED
    BY <1>2, <2>1, <2>2, <2>3 DEF b
<1>3. CASE ~soon[p] /\ inFlight[p] # NoSlot
  <2> DEFINE s == inFlight[p]
             r == [work[p][s] EXCEPT !.awaited = TRUE]
  <2>1. s \in Slot /\ work[p][s] \in Work /\ work[p][s].pc # "free"
    BY <1>3 DEF WorkOK
  <2>2. Becomes(p, s, r) /\ inFlight' = inFlight
    BY <1>3 DEF flushPendingSync, Becomes
  <2>3. r \in Work /\ r.pc = work[p][s].pc /\ r.kind = work[p][s].kind
    BY <2>1 DEF Work
  <2>4. r.pc \in Early => r.kind \in {"initial", "tick"}
    BY <2>1, <2>3 DEF KindInv
  <2> HIDE DEF r, s
  <2>5. WorkOK' /\ KindInv'
    BY <2>1, <2>2, <2>3, <2>4, WorkMoves
  <2>6. QED
    BY <1>3, <2>2, <2>5 DEF r, s
<1>4. CASE ~soon[p] /\ inFlight[p] = NoSlot
  BY <1>4 DEF flushPendingSync, WorkOK, KindInv
<1>5. QED
  BY <1>2, <1>3, <1>4

LEMMA CallStepWork ==
  ASSUME WorkOK, KindInv, RestOK, NEW p \in Server, CallStep(p)
  PROVE  WorkOK' /\ KindInv'
<1>1. CASE Write(p) \/ PluginWrites(p)
  <2>1. CASE Unpushed(p)
    <3>1. UNCHANGED inFlight
      BY <1>1 DEF Write, PluginWrites
    <3>2. QED
      BY <2>1, <3>1, WrittenWork
  <2>2. CASE ~Unpushed(p)
    BY <1>1, <2>2 DEF Write, PluginWrites, WorkOK, KindInv
  <2>3. QED
    BY <2>1, <2>2
<1>2. CASE \E s \in Slot : CallCycle(p, s)
  <2>1. PICK s \in Slot : CallCycle(p, s)
    BY <1>2
  <2>2. CASE Running(p)
    BY <2>1, <2>2 DEF CallCycle, WorkOK, KindInv
  <2>3. CASE ~Running(p)
    <3>1. Becomes(p, s, Begun("tool", "push")) /\ inFlight' = inFlight
      BY <2>1, <2>3 DEF CallCycle, Becomes
    <3>2. Begun("tool", "push") \in Work /\ Begun("tool", "push").pc = "push"
      BY BegunType DEF Kind, WorkPC
    <3>3. QED
      BY <3>1, <3>2, WorkMoves DEF Early
  <2>4. QED
    BY <2>2, <2>3
<1>3. CASE BeginCall(p) \/ SubmitJob(p) \/ EndCall(p)
  BY <1>3 DEF BeginCall, SubmitJob, EndCall, WorkOK, KindInv
<1>4. QED
  BY <1>1, <1>2, <1>3 DEF CallStep

LEMMA HostStepWork ==
  ASSUME WorkOK, KindInv, RestOK, NEW p \in Server, HostStep(p)
  PROVE  WorkOK' /\ KindInv'
<1>1. CASE Flush(p)
  BY <1>1, FlushWork DEF Flush
<1>2. CASE Exit(p) \/ TimeOut(p) \/ Crash(p)
  BY <1>2, EndedWork DEF Exit, TimeOut, Crash
<1>3. CASE Start(p) \/ syncChanged(p) \/ Dispose(p) \/ Shutdown(p)
  BY <1>3 DEF Start, syncChanged, Dispose, Shutdown, WorkOK, KindInv
<1>4. QED
  BY <1>1, <1>2, <1>3 DEF HostStep

-----------------------------------------------------------------------------
\* The rest of the state.
LEMMA LoopType ==
  ASSUME NEW l \in Loop
  PROVE  /\ scheduleTick(l) \in Loop
         /\ Stopped(l) \in Loop
         /\ NoLoop \in Loop
         /\ Fired(l) \subseteq Loop
         /\ \A on, owned \in BOOLEAN : [l EXCEPT !.on = on, !.owned = owned] \in Loop
         /\ [l EXCEPT !.on = TRUE, !.owned = TRUE, !.starting = @ + 1] \in Loop
<1>0. /\ l.armed \in BOOLEAN /\ l.stray \in Nat /\ l.active \in BOOLEAN /\ l.starting \in Nat
      /\ l.on \in BOOLEAN /\ l.owned \in BOOLEAN /\ l.late \in BOOLEAN
  BY DEF Loop
<1>1. scheduleTick(l) \in Loop
  <2>1. \A n \in Nat : [l EXCEPT !.armed = TRUE, !.stray = n] \in Loop
    BY <1>0 DEF Loop
  <2>2. (IF l.armed THEN l.stray + 1 ELSE l.stray) \in Nat
    BY <1>0
  <2>3. QED
    BY <2>1, <2>2 DEF scheduleTick
<1>2. Stopped(l) \in Loop
  BY <1>0 DEF Stopped, Loop
<1>3. NoLoop \in Loop
  BY DEF NoLoop, Loop
<1>4. ASSUME NEW f \in Fired(l) PROVE f \in Loop
  <2>1. f \in {[l EXCEPT !.armed = FALSE], [l EXCEPT !.stray = @ - 1]} /\ f.stray >= 0
    BY DEF Fired
  <2>2. CASE f = [l EXCEPT !.armed = FALSE]
    BY <1>0, <2>2 DEF Loop
  <2>3. CASE f = [l EXCEPT !.stray = @ - 1]
    <3>1. f.stray = l.stray - 1
      BY <2>3 DEF Loop
    <3>2. l.stray - 1 \in Nat
      BY <1>0, <2>1, <3>1
    <3>3. QED
      BY <1>0, <2>3, <3>2 DEF Loop
  <2>4. QED
    BY <2>1, <2>2, <2>3
<1>5. \A on, owned \in BOOLEAN : [l EXCEPT !.on = on, !.owned = owned] \in Loop
  BY <1>0 DEF Loop
<1>6. [l EXCEPT !.on = TRUE, !.owned = TRUE, !.starting = @ + 1] \in Loop
  <2>1. \A n \in Nat : [l EXCEPT !.on = TRUE, !.owned = TRUE, !.starting = n] \in Loop
    BY <1>0 DEF Loop
  <2>2. l.starting + 1 \in Nat
    BY <1>0
  <2>3. QED
    BY <2>1, <2>2
<1>7. QED
  BY <1>1, <1>2, <1>3, <1>4, <1>5, <1>6

LEMMA SpendType ==
  ASSUME used \in [{"calls", "starts", "crashes", "failures", "toggles"} -> Nat],
         NEW what \in {"calls", "starts", "crashes", "failures", "toggles"}, NEW bound,
         Spend(what, bound)
  PROVE  used' \in [{"calls", "starts", "crashes", "failures", "toggles"} -> Nat]
  BY DEF Spend

LEMMA RescheduledType ==
  ASSUME RestOK, NEW p \in Server, NEW s \in Slot
  PROVE  /\ Rescheduled(p, work[p][s].kind) \in Loop
         /\ Settled(p, s) \/ (\E pc : Moved(p, s, pc)) => loop' \in [Server -> Loop]
<1>1. Rescheduled(p, work[p][s].kind) \in Loop
  BY LoopType DEF RestOK, Rescheduled
<1>2. QED
  BY <1>1 DEF Settled, Moved, RestOK

\* The lock file as a process makes, names and leaves it.
LEMMA LockType ==
  ASSUME RestOK, NEW p \in Server, NEW s \in Slot
  PROVE  /\ MadeLock(p, s) \in LockFile
         /\ released(p, s) \in LockFile \cup {NoLock}
         /\ lock # NoLock => /\ [lock EXCEPT !.named = TRUE] \in LockFile
                             /\ [lock EXCEPT !.old = TRUE] \in LockFile
                             /\ [lock EXCEPT !.by = Dead] \in LockFile
  BY DEF RestOK, MadeLock, released, LockFile

LEMMA WorkStepRest ==
  ASSUME WorkOK, RestOK, NEW p \in Server, NEW s \in Slot, WorkStep(p, s)
  PROVE  RestOK'
<1>1. UNCHANGED <<host, soon, call>>
  BY DEF WorkStep, Initial, Judge, Break, TryAgain, Name, Read, Answer, Fail, Finish
<1>2. loop' \in [Server -> Loop]
  <2>1. UNCHANGED loop \/ Settled(p, s) \/ \E pc : Moved(p, s, pc)
    BY DEF WorkStep, Initial, Judge, Break, TryAgain, Name, Read, Answer, Fail, Finish,
           PushEnds
  <2>2. QED
    BY <2>1, RescheduledType DEF RestOK
<1>3. pending' \subseteq pending /\ owed' \subseteq owed /\ fresh' \in BOOLEAN
  BY DEF WorkStep, Initial, Judge, Break, TryAgain, Name, Read, Answer, Fail, Finish, RestOK
<1>4. lock' \in LockFile \cup {NoLock}
  <2>1. \/ lock' = lock \/ lock' = NoLock \/ lock' = MadeLock(p, s) \/ lock' = released(p, s)
        \/ lock # NoLock /\ lock' = [lock EXCEPT !.named = TRUE]
    BY DEF WorkStep, Initial, Judge, Break, TryAgain, Name, Read, Answer, Fail, Finish
  <2>2. lock \in LockFile \cup {NoLock}
    BY DEF RestOK
  <2>3. /\ MadeLock(p, s) \in LockFile /\ released(p, s) \in LockFile \cup {NoLock}
        /\ lock # NoLock => [lock EXCEPT !.named = TRUE] \in LockFile
    BY LockType
  <2>4. QED
    BY <2>1, <2>2, <2>3
<1>5. used' \in [{"calls", "starts", "crashes", "failures", "toggles"} -> Nat]
  BY SpendType
  DEF WorkStep, Initial, Judge, Break, TryAgain, Name, Read, Answer, Fail, Finish, RestOK
<1>6. QED
  BY <1>1, <1>2, <1>3, <1>4, <1>5 DEF RestOK

LEMMA TimerStepRest ==
  ASSUME WorkOK, RestOK, NEW p \in Server, NEW s \in Slot, TimerStep(p, s)
  PROVE  RestOK'
<1>0. loop[p] \in Loop
  BY DEF RestOK
<1>1. UNCHANGED <<host, call, pending, fresh, used, owed>>
  BY DEF TimerStep, FireTick, FireSoon, Connected
<1>2. soon' \in [Server -> BOOLEAN]
  BY DEF TimerStep, FireTick, FireSoon, Connected, RestOK
<1>3. loop' \in [Server -> Loop]
  <2>1. CASE FireTick(p, s)
    <3>1. PICK l \in Fired(loop[p]) : loop' = [loop EXCEPT ![p] = scheduleTick(l)]
                                      \/ loop' = [loop EXCEPT ![p] = l]
      BY <2>1 DEF FireTick
    <3>2. l \in Loop /\ scheduleTick(l) \in Loop
      BY <1>0, LoopType
    <3>3. QED
      BY <3>1, <3>2 DEF RestOK
  <2>2. CASE Connected(p, s)
    <3>1. loop[p].starting \in Nat /\ loop[p].starting > 0 /\ loop[p].late \in BOOLEAN
      BY <1>0, <2>2 DEF Connected, Loop
    <3>2. loop[p].starting - 1 \in Nat
      BY <3>1
    <3>3. \A n \in Nat : \A late \in BOOLEAN :
            [loop[p] EXCEPT !.starting = n, !.active = TRUE, !.late = late] \in Loop
      BY <1>0 DEF Loop
    <3>4. (loop[p].late \/ (p \in Dsh /\ ~loop[p].owned)) \in BOOLEAN
      BY Zenon
    <3>5. PICK n \in Nat, late \in BOOLEAN :
            loop' = [loop EXCEPT ![p] = scheduleTick(
                       [loop[p] EXCEPT !.starting = n, !.active = TRUE, !.late = late])]
      BY <2>2, <3>2, <3>4, Zenon DEF Connected
    <3>6. QED
      BY <1>0, <3>3, <3>5, LoopType DEF RestOK
  <2>3. CASE FireSoon(p, s)
    BY <2>3 DEF FireSoon, RestOK
  <2>4. QED
    BY <2>1, <2>2, <2>3 DEF TimerStep
<1>4. lock' \in LockFile \cup {NoLock}
  BY LockType DEF TimerStep, FireTick, FireSoon, Connected, Open, RestOK
<1>5. QED
  BY <1>1, <1>2, <1>3, <1>4 DEF RestOK

\* A call goes on to its next effect.
LEMMA CallType ==
  ASSUME RestOK, NEW p \in Server, call[p] # NoCall, call[p].did # <<>>
  PROVE  /\ Tail(call[p].did) \in Seq(Effect)
         /\ \A wrote \in BOOLEAN : \A s \in Slot \cup {NoSlot} :
              [call[p] EXCEPT !.did = Tail(@), !.wrote = wrote, !.awaits = s] \in Call
         /\ Rest(p) = [call EXCEPT ![p] = [call[p] EXCEPT !.did = Tail(call[p].did)]]
         /\ [call[p] EXCEPT !.did = Tail(@)] \in Call
<1>1. call[p] \in Call /\ call[p].did \in Seq(Effect)
  BY DEF RestOK, Call
<1>2. Tail(call[p].did) \in Seq(Effect)
  BY <1>1, HeadTailProperties
<1>3. \A wrote \in BOOLEAN : \A s \in Slot \cup {NoSlot} :
        [call[p] EXCEPT !.did = Tail(@), !.wrote = wrote, !.awaits = s] \in Call
  BY <1>1, <1>2 DEF Call
<1>4. [call[p] EXCEPT !.did = Tail(@)] \in Call
  BY <1>1, <1>2 DEF Call
<1>5. Rest(p) = [call EXCEPT ![p] = [call[p] EXCEPT !.did = Tail(call[p].did)]]
  BY DEF Rest
<1>6. QED
  BY <1>2, <1>3, <1>4, <1>5

LEMMA CallStepRest ==
  ASSUME WorkOK, RestOK, NEW p \in Server, CallStep(p)
  PROVE  RestOK'
<1>0. call \in [Server -> Call \cup {NoCall}]
  BY DEF RestOK
<1>1. UNCHANGED <<host, loop, fresh, lock>>
  BY DEF CallStep, BeginCall, Write, SubmitJob, EndCall, PluginWrites, CallCycle
<1>2. soon' \in [Server -> BOOLEAN]
  <2>1. CASE EndCall(p)
    <3>1. call[p].soon \in BOOLEAN
      BY <1>0, <2>1 DEF EndCall, Call
    <3>2. soon' = [soon EXCEPT ![p] = soon[p] \/ call[p].soon]
      BY <2>1 DEF EndCall
    <3>3. QED
      BY <3>1, <3>2 DEF RestOK
  <2>2. CASE ~EndCall(p)
    BY <2>2 DEF CallStep, BeginCall, Write, SubmitJob, PluginWrites, CallCycle, RestOK
  <2>3. QED
    BY <2>1, <2>2
<1>3. pending' \subseteq Writer /\ owed' \subseteq Server
  <2>1. Unpushed(p) => pending' = pending \cup {p} /\ owed' \subseteq owed
    BY DEF Unpushed
  <2>2. UNCHANGED pending \/ Unpushed(p)
    BY DEF CallStep, BeginCall, Write, SubmitJob, EndCall, PluginWrites, CallCycle
  <2>3. owed' \subseteq owed \cup {p} \/ Unpushed(p)
    BY DEF CallStep, BeginCall, Write, SubmitJob, EndCall, PluginWrites, CallCycle
  <2>4. QED
    BY <2>1, <2>2, <2>3 DEF RestOK, Writer
<1>4. used' \in [{"calls", "starts", "crashes", "failures", "toggles"} -> Nat]
  BY SpendType
  DEF CallStep, BeginCall, Write, SubmitJob, EndCall, PluginWrites, CallCycle, RestOK
<1>5. call' \in [Server -> Call \cup {NoCall}]
  <2>1. CASE BeginCall(p)
    <3>1. PICK c \in CallsOf(p) :
            call' = [call EXCEPT ![p] = [did |-> c.did, soon |-> c.soon,
                                         wrote |-> FALSE, awaits |-> NoSlot]]
      BY <2>1 DEF BeginCall
    <3>2. c \in [did : Seq(Effect), soon : BOOLEAN]
      BY ToolsAssumption DEF CallsOf
    <3>3. [did |-> c.did, soon |-> c.soon, wrote |-> FALSE,
           awaits |-> NoSlot] \in Call
      BY <3>2 DEF Call
    <3>4. QED
      BY <1>0, <3>1, <3>3
  <2>2. CASE Write(p)
    <3>1. call[p] \in Call /\ call[p].soon \in BOOLEAN
      BY <1>0, <2>2 DEF Write, Call
    <3>2. call' = [call EXCEPT ![p] = [call[p] EXCEPT !.did = Tail(call[p].did), !.wrote = call[p].soon]]
      BY <1>0, <2>2 DEF Write, Rest
    <3>3. [call[p] EXCEPT !.did = Tail(@), !.wrote = call[p].soon] \in Call
      <4>1. Tail(call[p].did) \in Seq(Effect)
        BY <2>2, CallType DEF Write
      <4>2. QED
        BY <3>1, <4>1 DEF Call
    <3>4. QED
      BY <1>0, <3>2, <3>3
  <2>3. CASE SubmitJob(p)
    BY <1>0, <2>3, CallType DEF SubmitJob
  <2>4. CASE \E s \in Slot : CallCycle(p, s)
    <3>1. PICK s \in Slot : CallCycle(p, s)
      BY <2>4
    <3>2. CASE Running(p)
      BY <1>0, <3>1, <3>2, CallType DEF CallCycle
    <3>3. CASE ~Running(p)
      <4>1. call[p] \in Call /\ Tail(call[p].did) \in Seq(Effect)
        BY <1>0, <3>1, CallType DEF CallCycle
      <4>2. call' = [call EXCEPT ![p] = [call[p] EXCEPT !.did = Tail(call[p].did), !.awaits = s]]
        BY <1>0, <3>1, <3>3 DEF CallCycle, Rest
      <4>3. [call[p] EXCEPT !.did = Tail(@), !.awaits = s] \in Call
        BY <4>1 DEF Call
      <4>4. QED
        BY <1>0, <4>2, <4>3
    <3>4. QED
      BY <3>2, <3>3
  <2>5. CASE EndCall(p) \/ PluginWrites(p)
    BY <1>0, <2>5 DEF EndCall, PluginWrites
  <2>6. QED
    BY <2>1, <2>2, <2>3, <2>4, <2>5 DEF CallStep
<1>6. QED
  BY <1>1, <1>2, <1>3, <1>4, <1>5 DEF RestOK

LEMMA EndedRest ==
  ASSUME RestOK, NEW p \in Server, Ended(p),
         used' \in [{"calls", "starts", "crashes", "failures", "toggles"} -> Nat]
  PROVE  RestOK'
<1>1. /\ host' = [host EXCEPT ![p] = "off"] /\ loop' = [loop EXCEPT ![p] = NoLoop]
      /\ soon' = [soon EXCEPT ![p] = FALSE] /\ call' = [call EXCEPT ![p] = NoCall]
      /\ lock' \in {lock, [lock EXCEPT !.by = Dead]} /\ (lock = NoLock => lock' = lock)
      /\ owed' = owed \ {p} /\ UNCHANGED <<pending, fresh>>
  BY DEF Ended
<1>2. lock' \in LockFile \cup {NoLock}
  BY <1>1 DEF RestOK, LockFile
<1>3. NoLoop \in Loop
  BY DEF NoLoop, Loop
<1>4. QED
  BY <1>1, <1>2, <1>3 DEF RestOK

LEMMA HostStepRest ==
  ASSUME RestOK, NEW p \in Server, HostStep(p)
  PROVE  RestOK'
<1>0. loop[p] \in Loop /\ loop \in [Server -> Loop]
  BY DEF RestOK
<1>1. CASE Exit(p) \/ TimeOut(p) \/ Crash(p)
  <2>1. Ended(p)
    BY <1>1 DEF Exit, TimeOut, Crash
  <2>2. used' \in [{"calls", "starts", "crashes", "failures", "toggles"} -> Nat]
    BY <1>1, SpendType DEF Exit, TimeOut, Crash, RestOK
  <2>3. QED
    BY <2>1, <2>2, EndedRest
<1>2. CASE Start(p) \/ syncChanged(p) \/ Dispose(p) \/ Shutdown(p) \/ Flush(p)
  <2>1. UNCHANGED <<call, pending, fresh, lock, owed>>
    BY <1>2 DEF Start, syncChanged, Dispose, Shutdown, Flush
  <2>2. host' \in [Server -> {"off", "up", "rolling", "flushing", "disposed"}]
    BY <1>2 DEF Start, syncChanged, Dispose, Shutdown, Flush, RestOK
  <2>3. used' \in [{"calls", "starts", "crashes", "failures", "toggles"} -> Nat]
    BY <1>2, SpendType DEF Start, syncChanged, Dispose, Shutdown, Flush, RestOK
  <2>4. soon' \in [Server -> BOOLEAN]
    BY <1>2 DEF Start, syncChanged, Dispose, Shutdown, Flush, flushPendingSync, RestOK
  <2>5. loop' \in [Server -> Loop]
    <3>1. CASE Start(p)
      <4> DEFINE l == [loop[p] EXCEPT
                         !.starting = IF loop[p].on THEN @ + 1 ELSE @, !.owned = loop[p].on]
      <4>1. loop' = [loop EXCEPT ![p] = l]
        BY <1>0, <3>1 DEF Start
      <4>2. l \in Loop
        <5>1. loop[p].on \in BOOLEAN /\ loop[p].starting \in Nat
          BY <1>0 DEF Loop
        <5>2. \A n \in Nat : \A b \in BOOLEAN :
                [loop[p] EXCEPT !.starting = n, !.owned = b] \in Loop
          BY <1>0 DEF Loop
        <5>3. (IF loop[p].on THEN loop[p].starting + 1 ELSE loop[p].starting) \in Nat
          BY <5>1
        <5>4. QED
          BY <5>1, <5>2, <5>3
      <4>3. QED
        BY <1>0, <4>1, <4>2
    <3>2. CASE syncChanged(p)
      <4>1. [loop[p] EXCEPT !.on = TRUE, !.owned = TRUE, !.starting = @ + 1] \in Loop
        BY <1>0, LoopType, Zenon
      <4>2. [loop[p] EXCEPT !.on = FALSE, !.owned = FALSE] \in Loop
        BY <1>0 DEF Loop
      <4>3. Stopped([loop[p] EXCEPT !.on = FALSE, !.owned = FALSE]) \in Loop
        BY <4>2, LoopType
      <4>4. \E l \in Loop : loop' = [loop EXCEPT ![p] = l]
        <5>1. CASE loop[p].on
          BY <3>2, <4>3, <5>1 DEF syncChanged
        <5>2. CASE ~loop[p].on
          BY <3>2, <4>1, <5>2 DEF syncChanged
        <5>3. QED
          BY <5>1, <5>2
      <4>5. QED
        BY <1>0, <4>4
    <3>3. CASE Dispose(p)
      <4>1. [loop[p] EXCEPT !.owned = FALSE] \in Loop
        BY <1>0 DEF Loop
      <4>2. QED
        BY <1>0, <3>3, <4>1, LoopType DEF Dispose
    <3>4. CASE Shutdown(p) \/ Flush(p)
      BY <1>0, <3>4 DEF Shutdown, Flush
    <3>5. QED
      BY <1>2, <3>1, <3>2, <3>3, <3>4
  <2>6. QED
    BY <2>1, <2>2, <2>3, <2>4, <2>5 DEF RestOK
<1>3. QED
  BY <1>1, <1>2 DEF HostStep

-----------------------------------------------------------------------------
\* What the commands and the roll-ups do to the state of SyncLoop: they mark a
\* document as unpushed, or their own as pushed.
UsedType == [{"calls", "starts", "crashes", "failures", "toggles"} -> Nat]
Outside ==
  /\ UNCHANGED <<host, loop, soon, inFlight, call, fresh, lock>> /\ used' \in UsedType
  /\ \/ \E x \in Actor \cup {Also} : Unpushed(x)
     \/ UNCHANGED <<work, owed>> /\ \E h \in Cli : pending' = pending \ {h}
     \/ UNCHANGED <<work, owed, pending>>

LEMMA ActorsWrite == /\ Actor \cup {Also} \subseteq Writer
                     /\ Cli \cap Server = {} /\ Also \notin Server
  BY SyncLoopAssumption, SessionsAssumption DEF Actor, Writer, Server

LEMMA SessionSteps ==
  ASSUME RestOK, SessionNext
  PROVE  Next \/ Outside
<1>0. used \in UsedType
  BY DEF RestOK, UsedType
<1>1. CASE ServerStep
  BY <1>1 DEF ServerStep
<1>2. ASSUME UNCHANGED vars PROVE Outside
  BY <1>0, <1>2 DEF vars, Outside
<1>3. ASSUME NEW x \in Actor \cup {Also}, Marked(x) PROVE Outside
  BY <1>0, <1>3 DEF Marked, Outside
<1>4. ASSUME NEW h \in Cli, NEW what \in {"calls", "crashes", "failures"}, NEW bound,
             Spend(what, bound), UNCHANGED <<host, loop, soon, inFlight, call, fresh, lock>>,
             UNCHANGED <<work, owed, pending>>
      PROVE  Outside
  BY <1>0, <1>4, SpendType DEF Outside, UsedType
<1>5. CASE \E h \in Cli : BeginCommand(h) \/ CommandStep(h) \/ Kill(h)
  <2> SUFFICES ASSUME NEW h \in Cli, BeginCommand(h) \/ CommandStep(h) \/ Kill(h) PROVE Outside
    BY <1>5
  <2>1. CASE BeginCommand(h) \/ Kill(h) \/ PushFails(h)
    BY <1>4, <2>1 DEF BeginCommand, Kill, PushFails
  <2>2. CASE PushAnswered(h)
    BY <1>0, <2>2 DEF PushAnswered, Outside
  <2>3. CASE CommandWrites(h)
    BY <1>3, <2>3 DEF CommandWrites, Actor
  <2>4. CASE BeginPush(h) \/ SendPush(h) \/ PushThrows(h) \/ EndCommand(h) \/ GiveUp(h)
             \/ consolidateStaleDrafts(h)
    BY <1>2, <2>4 DEF BeginPush, SendPush, PushThrows, EndCommand, GiveUp, consolidateStaleDrafts
  <2>5. QED
    BY <2>1, <2>2, <2>3, <2>4 DEF CommandStep
<1>6. CASE \E p \in Mcp : journalAppend(p) \/ consolidateSession(p)
  BY <1>2, <1>6 DEF journalAppend, consolidateSession
<1>7. CASE \E x \in Actor : RollStep(x)
  <2> SUFFICES ASSUME NEW x \in Actor, RollStep(x) PROVE Outside
    BY <1>7
  <2>1. CASE StoreMemory(x)
    BY <1>3, <2>1 DEF StoreMemory
  <2>2. CASE ReadDrafts(x) \/ StoreFails(x) \/ DeleteDrafts(x)
    BY <1>2, <2>2 DEF ReadDrafts, StoreFails, DeleteDrafts
  <2>3. QED
    BY <2>1, <2>2 DEF RollStep
<1>8. CASE DayPasses
  BY <1>2, <1>8 DEF DayPasses
<1>9. QED
  BY <1>1, <1>5, <1>6, <1>7, <1>8 DEF SessionNext

LEMMA IntervalKeeps ==
  ASSUME WorkOK, KindInv, RestOK, IntervalPasses
  PROVE  WorkOK' /\ KindInv' /\ RestOK'
<1>1. /\ UNCHANGED <<host, loop, soon, work, inFlight, call, pending, used, owed>>
      /\ fresh' = FALSE
      /\ lock' = lock \/ (lock # NoLock /\ lock' = [lock EXCEPT !.old = TRUE])
  BY DEF IntervalPasses
<1>2. lock' \in LockFile \cup {NoLock}
  BY <1>1 DEF RestOK, LockFile
<1>3. QED
  BY <1>1, <1>2 DEF WorkOK, KindInv, RestOK

LEMMA OutsideKeeps ==
  ASSUME WorkOK, KindInv, RestOK, Outside
  PROVE  WorkOK' /\ KindInv' /\ RestOK'
<1>1. CASE \E x \in Actor \cup {Also} : Unpushed(x)
  <2>1. PICK x \in Actor \cup {Also} : Unpushed(x)
    BY <1>1
  <2>2. WorkOK' /\ KindInv'
    BY <2>1, WrittenWork DEF Outside
  <2>3. pending' \subseteq Writer /\ owed' \subseteq Server
    BY <2>1, ActorsWrite DEF Unpushed, RestOK
  <2>4. QED
    BY <2>2, <2>3 DEF Outside, RestOK, UsedType
<1>2. CASE UNCHANGED <<work, owed>> /\ pending' \subseteq pending
  BY <1>2 DEF Outside, RestOK, WorkOK, KindInv, UsedType
<1>3. QED
  BY <1>1, <1>2 DEF Outside

LEMMA NextKeeps ==
  ASSUME WorkOK, KindInv, RestOK, Next
  PROVE  WorkOK' /\ KindInv' /\ RestOK'
  BY WorkStepWork, WorkStepRest, TimerStepWork, TimerStepRest, CallStepWork, CallStepRest,
     HostStepWork, HostStepRest, IntervalKeeps DEF Next

\* The writes of others than commands do not concern a command.
LEMMA NextPending ==
  ASSUME RestOK, Next
  PROVE  pending' \subseteq pending \cup Server
<1>1. ASSUME NEW p \in Server, CallStep(p) PROVE pending' \subseteq pending \cup {p}
  BY <1>1
  DEF CallStep, BeginCall, Write, SubmitJob, EndCall, PluginWrites, CallCycle, Unpushed
<1>2. ASSUME NEW p \in Server, HostStep(p) PROVE pending' = pending
  BY <1>2 DEF HostStep, Start, syncChanged, Dispose, Shutdown, Flush, Exit, TimeOut, Crash, Ended
<1>3. ASSUME NEW p \in Server, NEW s \in Slot, WorkStep(p, s) PROVE pending' \subseteq pending
  BY <1>3 DEF WorkStep, Initial, Judge, Break, TryAgain, Name, Read, Answer, Fail, Finish
<1>4. ASSUME NEW p \in Server, NEW s \in Slot, TimerStep(p, s) PROVE pending' = pending
  BY <1>4 DEF TimerStep, FireTick, FireSoon, Connected
<1>5. IntervalPasses => pending' = pending
  BY DEF IntervalPasses
<1>6. QED
  BY <1>1, <1>2, <1>3, <1>4, <1>5 DEF Next

-----------------------------------------------------------------------------
\* A plugin that was removed keeps no timer.
LoopInv ==
  /\ \A p \in Dsh : host[p] \in {"off", "up", "disposed"}
  /\ \A p \in Dsh : host[p] \in {"off", "disposed"} => ~loop[p].owned
  /\ StopsWithPlugin

\* One process's part of it, of a loop l.
LoopFine(h, l) ==
  /\ h \in {"off", "up", "disposed"}
  /\ h \in {"off", "disposed"} => ~l.owned
  /\ ~l.owned /\ ~l.late => ~l.active /\ ~l.armed

LEMMA LoopParts == LoopInv <=> \A p \in Dsh : LoopFine(host[p], loop[p])
  BY DEF LoopInv, LoopFine, StopsWithPlugin

\* A step of one process changes its own loop only.
LEMMA LoopMoves ==
  ASSUME RestOK, LoopInv, NEW p \in Server, NEW h, NEW l \in Loop,
         host' = [host EXCEPT ![p] = h], loop' = [loop EXCEPT ![p] = l],
         p \in Dsh => LoopFine(h, l)
  PROVE  LoopInv'
<1>1. \A q \in Dsh : host'[q] = (IF q = p THEN h ELSE host[q])
                     /\ loop'[q] = (IF q = p THEN l ELSE loop[q])
  BY DEF RestOK, Server
<1>2. \A q \in Dsh : LoopFine(host[q], loop[q])
  BY LoopParts
<1>3. \A q \in Dsh : LoopFine(host'[q], loop'[q])
  BY <1>1, <1>2
<1>4. QED
  BY <1>3 DEF LoopInv, LoopFine, StopsWithPlugin

LEMMA SameHost ==
  ASSUME RestOK, NEW p \in Server, UNCHANGED host
  PROVE  host' = [host EXCEPT ![p] = host[p]]
  BY DEF RestOK

LEMMA TickFine ==
  ASSUME NEW l \in Loop, NEW h, LoopFine(h, l), l.active
  PROVE  LoopFine(h, scheduleTick(l))
<1>1. /\ scheduleTick(l).owned = l.owned /\ scheduleTick(l).late = l.late
  BY DEF scheduleTick, Loop
<1>2. QED
  BY <1>1 DEF LoopFine

LEMMA StoppedFine ==
  ASSUME NEW l \in Loop, NEW h \in {"off", "up", "disposed"}, NEW on \in BOOLEAN
  PROVE  LoopFine(h, Stopped([l EXCEPT !.on = on, !.owned = FALSE]))
  BY DEF Stopped, LoopFine, Loop

LEMMA WorkStepLoop ==
  ASSUME WorkOK, RestOK, LoopInv, NEW p \in Server, NEW s \in Slot, WorkStep(p, s)
  PROVE  LoopInv'
<1>1. UNCHANGED host
  BY DEF WorkStep, Initial, Judge, Break, TryAgain, Name, Read, Answer, Fail, Finish
<1>2. UNCHANGED loop \/ Settled(p, s)
  BY DEF WorkStep, Initial, Judge, Break, TryAgain, Name, Read, Answer, Fail, Finish,
         PushEnds, Moved
<1>3. CASE UNCHANGED loop
  BY <1>1, <1>3 DEF LoopInv, StopsWithPlugin
<1>4. CASE Settled(p, s)
  <2> DEFINE l == Rescheduled(p, work[p][s].kind)
  <2>1. loop' = [loop EXCEPT ![p] = l] /\ loop[p] \in Loop
    BY <1>4 DEF Settled, RestOK
  <2>2. l \in Loop
    BY RescheduledType
  <2>3. ASSUME p \in Dsh PROVE LoopFine(host[p], l)
    <3>1. LoopFine(host[p], loop[p])
      BY <2>3, LoopParts
    <3>2. l = loop[p] \/ (loop[p].active /\ l = scheduleTick(loop[p]))
      BY DEF Rescheduled
    <3>3. QED
      BY <2>1, <3>1, <3>2, TickFine
  <2>4. host' = [host EXCEPT ![p] = host[p]]
    BY <1>1, SameHost
  <2> HIDE DEF l
  <2>5. QED
    BY <2>1, <2>2, <2>3, <2>4, LoopMoves
<1>5. QED
  BY <1>2, <1>3, <1>4

LEMMA TimerStepLoop ==
  ASSUME WorkOK, RestOK, LoopInv, NEW p \in Server, NEW s \in Slot, TimerStep(p, s)
  PROVE  LoopInv'
<1>0. loop[p] \in Loop /\ (p \in Dsh => LoopFine(host[p], loop[p]))
  BY LoopParts DEF RestOK
<1>1. host' = [host EXCEPT ![p] = host[p]]
  BY SameHost DEF TimerStep, FireTick, FireSoon, Connected
<1>2. CASE FireTick(p, s)
  <2>1. PICK l \in Fired(loop[p]) : (l.active /\ loop' = [loop EXCEPT ![p] = scheduleTick(l)])
                                    \/ loop' = [loop EXCEPT ![p] = l]
    BY <1>2 DEF FireTick
  <2>2. l \in Loop /\ scheduleTick(l) \in Loop
    BY <1>0, LoopType
  <2>3. p \in Dsh => LoopFine(host[p], l)
    <3>1. /\ l.owned = loop[p].owned /\ l.late = loop[p].late /\ l.active = loop[p].active
          /\ l.armed => loop[p].armed
      BY <1>0 DEF Fired, Loop
    <3>2. QED
      BY <1>0, <3>1 DEF LoopFine
  <2>4. CASE l.active /\ loop' = [loop EXCEPT ![p] = scheduleTick(l)]
    <3>1. p \in Dsh => LoopFine(host[p], scheduleTick(l))
      BY <2>2, <2>3, <2>4, TickFine
    <3>2. QED
      BY <1>1, <2>2, <2>4, <3>1, LoopMoves
  <2>5. CASE loop' = [loop EXCEPT ![p] = l]
    BY <1>1, <2>2, <2>3, <2>5, LoopMoves
  <2>6. QED
    BY <2>1, <2>4, <2>5
<1>3. CASE Connected(p, s)
  <2> DEFINE l == [loop[p] EXCEPT !.starting = loop[p].starting - 1, !.active = TRUE,
                                  !.late = loop[p].late \/ (p \in Dsh /\ ~loop[p].owned)]
  <2>1. loop' = [loop EXCEPT ![p] = scheduleTick(l)]
    BY <1>3, Zenon DEF Connected
  <2>2. l \in Loop
    <3>1. loop[p].starting \in Nat /\ loop[p].starting > 0
      BY <1>0, <1>3 DEF Connected, Loop
    <3>2. loop[p].starting - 1 \in Nat
      BY <3>1
    <3>3. \A n \in Nat : \A late \in BOOLEAN :
            [loop[p] EXCEPT !.starting = n, !.active = TRUE, !.late = late] \in Loop
      BY <1>0 DEF Loop
    <3>4. (loop[p].late \/ (p \in Dsh /\ ~loop[p].owned)) \in BOOLEAN
      BY Zenon
    <3>5. QED
      BY <3>2, <3>3, <3>4, Zenon
  <2>3. p \in Dsh => /\ l.active = TRUE /\ l.owned = loop[p].owned
                     /\ ~loop[p].owned => l.late
    <3>1. l.late = (loop[p].late \/ (p \in Dsh /\ ~loop[p].owned))
      BY <1>0, Zenon DEF Loop
    <3>2. l.active = TRUE /\ l.owned = loop[p].owned
      BY <1>0, Zenon DEF Loop
    <3>3. QED
      BY <3>1, <3>2, Zenon
  <2> HIDE DEF l
  <2>4. p \in Dsh => LoopFine(host[p], l)
    BY <1>0, <2>3 DEF LoopFine
  <2>5. scheduleTick(l) \in Loop /\ (p \in Dsh => LoopFine(host[p], scheduleTick(l)))
    BY <2>2, <2>3, <2>4, LoopType, TickFine
  <2>6. QED
    BY <1>1, <2>1, <2>5, LoopMoves
<1>4. CASE FireSoon(p, s)
  BY <1>4 DEF FireSoon, LoopInv, StopsWithPlugin
<1>5. QED
  BY <1>2, <1>3, <1>4 DEF TimerStep

LEMMA HostStepLoop ==
  ASSUME WorkOK, RestOK, LoopInv, NEW p \in Server, HostStep(p)
  PROVE  LoopInv'
<1>0. loop[p] \in Loop /\ (p \in Dsh => LoopFine(host[p], loop[p]))
  BY LoopParts DEF RestOK
<1>1. CASE Exit(p) \/ TimeOut(p) \/ Crash(p)
  <2>1. host' = [host EXCEPT ![p] = "off"] /\ loop' = [loop EXCEPT ![p] = NoLoop]
    BY <1>1 DEF Exit, TimeOut, Crash, Ended
  <2>2. NoLoop \in Loop /\ LoopFine("off", NoLoop)
    BY LoopType DEF LoopFine, NoLoop, Loop
  <2>3. QED
    BY <2>1, <2>2, LoopMoves
<1>2. CASE Start(p)
  <2> DEFINE n == IF loop[p].on THEN loop[p].starting + 1 ELSE loop[p].starting
             l == [loop[p] EXCEPT !.starting = n, !.owned = loop[p].on]
  <2>1. host' = [host EXCEPT ![p] = "up"] /\ loop' = [loop EXCEPT ![p] = l]
    BY <1>0, <1>2 DEF Start, RestOK
  <2>2. loop[p].on \in BOOLEAN /\ n \in Nat
    BY <1>0 DEF Loop
  <2> HIDE DEF n
  <2>3. l \in Loop
    BY <1>0, <2>2 DEF Loop
  <2>4. p \in Dsh => LoopFine("up", l)
    <3>1. /\ l.late = loop[p].late /\ l.active = loop[p].active
          /\ l.armed = loop[p].armed
      BY <1>0, <2>2 DEF Loop
    <3>2. p \in Dsh => ~loop[p].owned
      BY <1>0, <1>2 DEF Start, LoopFine
    <3>3. QED
      BY <1>0, <3>1, <3>2 DEF LoopFine
  <2> HIDE DEF l
  <2>5. QED
    BY <2>1, <2>3, <2>4, LoopMoves
<1>3. CASE syncChanged(p)
  <2> DEFINE l1 == Stopped([loop[p] EXCEPT !.on = FALSE, !.owned = FALSE])
             l2 == [loop[p] EXCEPT !.on = TRUE, !.owned = TRUE, !.starting = loop[p].starting + 1]
  <2>1. host' = [host EXCEPT ![p] = "up"]
        /\ (loop' = [loop EXCEPT ![p] = l1] \/ loop' = [loop EXCEPT ![p] = l2])
    BY <1>3 DEF syncChanged, RestOK
  <2>2. [loop[p] EXCEPT !.on = FALSE, !.owned = FALSE] \in Loop
    BY <1>0 DEF Loop
  <2>3. l1 \in Loop /\ LoopFine("up", l1)
    BY <1>0, <2>2, LoopType, StoppedFine
  <2>4. l2 \in Loop
    BY <1>0, LoopType, Zenon
  <2>5. LoopFine("up", l2)
    BY <1>0 DEF LoopFine, Loop
  <2> HIDE DEF l1, l2
  <2>6. QED
    BY <2>1, <2>3, <2>4, <2>5, LoopMoves
<1>4. CASE Dispose(p)
  <2> DEFINE l1 == Stopped([loop[p] EXCEPT !.owned = FALSE])
  <2>1. /\ host' = [host EXCEPT ![p] = "disposed"]
        /\ \/ loop' = [loop EXCEPT ![p] = l1]
           \/ ~loop[p].owned /\ loop' = [loop EXCEPT ![p] = loop[p]]
    BY <1>4 DEF Dispose
  <2>2. [loop[p] EXCEPT !.owned = FALSE] \in Loop
    BY <1>0 DEF Loop
  <2>3. l1 \in Loop
    BY <2>2, LoopType
  <2>4. LoopFine("disposed", l1)
    BY <1>0 DEF Stopped, LoopFine, Loop
  <2> HIDE DEF l1
  <2>5. p \in Dsh /\ ~loop[p].owned => LoopFine("disposed", loop[p])
    BY <1>0 DEF LoopFine
  <2>6. QED
    BY <1>0, <2>1, <2>3, <2>4, <2>5, LoopMoves
<1>5. CASE Shutdown(p) \/ Flush(p)
  <2>1. UNCHANGED loop /\ p \notin Dsh /\ \E h : host' = [host EXCEPT ![p] = h]
    <3>1. CASE Shutdown(p)
      BY <3>1, SyncLoopAssumption DEF Shutdown
    <3>2. CASE Flush(p)
      BY <3>2, <1>0 DEF Flush, LoopFine
    <3>3. QED
      BY <1>5, <3>1, <3>2
  <2>2. loop' = [loop EXCEPT ![p] = loop[p]]
    BY <2>1 DEF RestOK
  <2>3. QED
    BY <1>0, <2>1, <2>2, LoopMoves
<1>6. QED
  BY <1>1, <1>2, <1>3, <1>4, <1>5 DEF HostStep

LEMMA LoopKeeps ==
  ASSUME WorkOK, KindInv, RestOK, LoopInv, Next \/ Outside
  PROVE  LoopInv'
<1>1. ASSUME UNCHANGED <<host, loop>> PROVE LoopInv'
  BY <1>1 DEF LoopInv, StopsWithPlugin
<1>2. Outside \/ IntervalPasses => UNCHANGED <<host, loop>>
  BY DEF Outside, IntervalPasses
<1>3. ASSUME NEW p \in Server, CallStep(p) PROVE UNCHANGED <<host, loop>>
  BY <1>3 DEF CallStep, BeginCall, Write, SubmitJob, EndCall, PluginWrites, CallCycle
<1>4. QED
  BY <1>1, <1>2, <1>3, WorkStepLoop, TimerStepLoop, HostStepLoop DEF Next

-----------------------------------------------------------------------------
\* A named lock is held for a cycle under way.
Names(l, p, s) == l # NoLock /\ l.named /\ l.by = <<p, s>>
Holds(w) == w.kind \in {"initial", "tick"} /\ w.pc \in {"push", "sent", "pull"}
LockInv == \A p \in Server : \A s \in Slot : Names(lock, p, s) => Holds(work[p][s])

LEMMA LockParts ==
  ASSUME RestOK
  PROVE  LockInv <=> LockIsHeld
<1>1. \A p \in Server : \A s \in Slot : <<p, s>> # Dead /\ <<p, s>>[1] = p /\ <<p, s>>[2] = s
  BY SyncLoopAssumption
<1>2. ASSUME LockIsHeld, NEW p \in Server, NEW s \in Slot, Names(lock, p, s)
      PROVE  Holds(work[p][s])
  BY <1>1, <1>2 DEF LockIsHeld, Names, Holds
<1>3. ASSUME LockInv, lock # NoLock, lock.named, lock.by # Dead
      PROVE  LockIsHeld
  <2>1. lock.by \in Server \X Slot
    BY <1>3 DEF RestOK, LockFile
  <2>2. PICK p \in Server, s \in Slot : lock.by = <<p, s>>
    BY <2>1
  <2>3. Holds(work[p][s])
    BY <1>3, <2>2 DEF LockInv, Names
  <2>4. QED
    BY <1>1, <2>2, <2>3 DEF LockIsHeld, Holds
<1>4. QED
  BY <1>2, <1>3 DEF LockInv, LockIsHeld

\* A step of one slot keeps it.
LEMMA LockMoves ==
  ASSUME LockInv, NEW p \in Server, NEW s \in Slot,
         \A q \in Server : \A t \in Slot :
           /\ q # p \/ t # s => work'[q][t] = work[q][t]
           /\ Names(lock', q, t) => Names(lock, q, t) \/ (q = p /\ t = s),
         Names(lock', p, s) => Holds(work'[p][s])
  PROVE  LockInv'
<1> SUFFICES ASSUME NEW q \in Server, NEW t \in Slot, Names(lock', q, t)
             PROVE  Holds(work'[q][t])
  BY DEF LockInv, Names, Holds
<1>1. CASE q = p /\ t = s
  BY <1>1
<1>2. CASE ~(q = p /\ t = s)
  BY <1>2 DEF LockInv
<1>3. QED
  BY <1>1, <1>2

LEMMA MadeNames ==
  ASSUME NEW p, NEW s, NEW q, NEW t
  PROVE  ~Names(MadeLock(p, s), q, t) /\ ~Names(NoLock, q, t)
  BY DEF Names, MadeLock

LEMMA WorkStepLock ==
  ASSUME WorkOK, KindInv, RestOK, LockInv, NEW p \in Server, NEW s \in Slot, WorkStep(p, s)
  PROVE  LockInv'
<1>0. work[p][s] \in Work /\ lock \in LockFile \cup {NoLock}
  BY DEF WorkOK, RestOK
<1>a. \A q \in Server : \A t \in Slot : q # p \/ t # s => work'[q][t] = work[q][t]
  BY DEF WorkOK, WorkStep, Initial, Judge, Break, TryAgain, Name, Read, Answer, Fail, Finish,
         PushEnds, Settled, Moved
<1>b. Names(lock, p, s) => Holds(work[p][s])
  BY DEF LockInv
<1>1. CASE Initial(p, s) \/ Judge(p, s) \/ Break(p, s) \/ TryAgain(p, s)
  <2>0. work[p][s].pc \in {"tick", "held", "break", "again"}
    BY <1>1 DEF Initial, Judge, Break, TryAgain
  <2>1. ~Names(lock, p, s)
    BY <1>b, <2>0 DEF Holds
  <2>2. lock' \in {lock, NoLock, MadeLock(p, s)}
    BY <1>1 DEF Initial, Judge, Break, TryAgain
  <2>3. \A q \in Server : \A t \in Slot : Names(lock', q, t) => Names(lock, q, t)
    BY <2>2, MadeNames
  <2>4. QED
    BY <1>a, <2>1, <2>3, LockMoves
<1>2. CASE Name(p, s)
  <2>1. ~Names(lock, p, s) /\ work[p][s].kind \in {"initial", "tick"}
    BY <1>b, <1>2 DEF Name, Holds, KindInv, Early
  <2>2. CASE lock # NoLock /\ lock.by = <<p, s>> /\ ~Running(p)
    <3>1. lock' = [lock EXCEPT !.named = TRUE] /\ Moved(p, s, "push")
      BY <1>2, <2>2 DEF Name
    <3>2. work'[p][s] = [work[p][s] EXCEPT !.pc = "push"]
      BY <3>1, <1>0 DEF Moved, WorkOK
    <3>3. Holds(work'[p][s])
      BY <1>0, <2>1, <3>2 DEF Holds, Work
    <3>4. \A q \in Server : \A t \in Slot : Names(lock', q, t) => q = p /\ t = s
      BY <1>0, <2>2, <3>1 DEF Names, LockFile
    <3>5. QED
      BY <1>a, <3>3, <3>4, LockMoves
  <2>3. CASE ~(lock # NoLock /\ lock.by = <<p, s>> /\ ~Running(p))
    <3>1. lock' \in {lock, NoLock}
      BY <1>2, <2>3 DEF Name
    <3>2. QED
      BY <1>a, <2>1, <3>1, LockMoves, MadeNames
  <2>4. QED
    BY <2>2, <2>3
<1>3. CASE Read(p, s) \/ Answer(p, s) \/ Fail(p, s)
  <2>1. UNCHANGED lock
    BY <1>3 DEF Read, Answer, Fail
  <2>2. ASSUME Holds(work[p][s]) PROVE Holds(work'[p][s])
    <3>1. work[p][s].kind \notin {"push", "flush"}
      BY <2>2 DEF Holds
    <3>2. CASE Read(p, s)
      <4>1. work'[p][s] = [work[p][s] EXCEPT !.pc = "sent", !.seen = pending]
        BY <3>2, ReadWork
      <4>2. QED
        BY <1>0, <2>2, <4>1 DEF Holds, Work
    <3>3. CASE Answer(p, s) \/ Fail(p, s)
      <4>1. Moved(p, s, "pull")
        BY <3>1, <3>3 DEF Answer, Fail, PushEnds
      <4>2. work'[p][s] = [work[p][s] EXCEPT !.pc = "pull"]
        BY <4>1 DEF Moved, WorkOK
      <4>3. QED
        BY <1>0, <2>2, <4>2 DEF Holds, Work
    <3>4. QED
      BY <1>3, <3>2, <3>3
  <2>3. QED
    BY <1>a, <1>b, <2>1, <2>2, LockMoves
<1>4. CASE Finish(p, s)
  <2>1. lock' = released(p, s)
    BY <1>4 DEF Finish
  <2>2. ~Names(lock', p, s) /\ lock' \in {lock, NoLock}
    BY <2>1 DEF released, Names
  <2>3. QED
    BY <1>a, <2>2, LockMoves, MadeNames
<1>5. QED
  BY <1>1, <1>2, <1>3, <1>4 DEF WorkStep

\* Of a step that takes a slot that was free, or none, and names no lock.
LEMMA FreeLock ==
  ASSUME LockInv, NEW p \in Server, NEW s \in Slot, work[p][s].pc = "free",
         lock' \in {lock, MadeLock(p, s)},
         \A q \in Server : \A t \in Slot : q # p \/ t # s => work'[q][t] = work[q][t]
  PROVE  LockInv'
<1>1. ~Names(lock, p, s)
  BY DEF LockInv, Holds
<1>2. QED
  BY <1>1, LockMoves, MadeNames

LEMMA SameLock ==
  ASSUME LockInv, UNCHANGED lock,
         \A q \in Server : \A t \in Slot : work'[q][t].kind = work[q][t].kind
                                           /\ work'[q][t].pc = work[q][t].pc
  PROVE  LockInv'
  BY DEF LockInv, Names, Holds

LEMMA TimerStepLock ==
  ASSUME WorkOK, KindInv, RestOK, LockInv, NEW p \in Server, NEW s \in Slot, TimerStep(p, s)
  PROVE  LockInv'
<1>1. work[p][s].pc = "free"
  BY TakenFree DEF TimerStep, FireTick, FireSoon, Connected, Track
<1>2. lock' \in {lock, MadeLock(p, s)}
  BY DEF TimerStep, FireTick, FireSoon, Connected, Open
<1>3. \A q \in Server : \A t \in Slot : q # p \/ t # s => work'[q][t] = work[q][t]
  BY DEF WorkOK, TimerStep, FireTick, FireSoon, Connected, Track
<1>4. QED
  BY <1>1, <1>2, <1>3, FreeLock

LEMMA CallStepLock ==
  ASSUME WorkOK, KindInv, RestOK, LockInv, NEW p \in Server, CallStep(p)
  PROVE  LockInv'
<1>1. UNCHANGED lock
  BY DEF CallStep, BeginCall, Write, SubmitJob, EndCall, PluginWrites, CallCycle
<1>2. CASE UNCHANGED work
  BY <1>1, <1>2, SameLock
<1>3. CASE Unpushed(p)
  <2>1. \A q \in Server : \A t \in Slot : work'[q][t] = [work[q][t] EXCEPT !.seen = @ \ {p}]
    BY <1>3 DEF Unpushed
  <2>2. \A q \in Server : \A t \in Slot : work[q][t] \in Work
    BY DEF WorkOK
  <2>3. \A w \in Work : [w EXCEPT !.seen = @ \ {p}].kind = w.kind /\ [w EXCEPT !.seen = @ \ {p}].pc = w.pc
    BY DEF Work
  <2>4. QED
    BY <1>1, <2>1, <2>2, <2>3, SameLock
<1>4. CASE \E s \in Slot : FreeIn(p, s) /\ work' = [work EXCEPT ![p][s] = Begun("tool", "push")]
  <2>1. PICK s \in Slot : FreeIn(p, s) /\ work' = [work EXCEPT ![p][s] = Begun("tool", "push")]
    BY <1>4
  <2>2. work[p][s].pc = "free"
    BY <2>1, TakenFree
  <2>3. \A q \in Server : \A t \in Slot : q # p \/ t # s => work'[q][t] = work[q][t]
    BY <2>1 DEF WorkOK
  <2>4. QED
    BY <1>1, <2>2, <2>3, FreeLock
<1>5. QED
  BY <1>2, <1>3, <1>4 DEF CallStep, BeginCall, Write, SubmitJob, EndCall, PluginWrites, CallCycle

LEMMA HostStepLock ==
  ASSUME WorkOK, KindInv, RestOK, LockInv, NEW p \in Server, HostStep(p)
  PROVE  LockInv'
<1>1. CASE Flush(p)
  <2>0. UNCHANGED lock
    BY <1>1 DEF Flush
  <2>1. CASE \E s \in Slot : Becomes(p, s, [Begun("flush", "push") EXCEPT !.awaited = TRUE])
                             /\ work[p][s].pc = "free"
    <3>1. PICK s \in Slot : Becomes(p, s, [Begun("flush", "push") EXCEPT !.awaited = TRUE])
                            /\ work[p][s].pc = "free"
      BY <2>1
    <3>2. QED
      BY <2>0, <3>1, BecomesAt, FreeLock DEF WorkOK
  <2>2. CASE inFlight[p] # NoSlot
             /\ Becomes(p, inFlight[p], [work[p][inFlight[p]] EXCEPT !.awaited = TRUE])
    <3> DEFINE s == inFlight[p]
               r == [work[p][s] EXCEPT !.awaited = TRUE]
    <3>1. s \in Slot /\ work[p][s] \in Work
      BY <2>2 DEF WorkOK
    <3>2. r.kind = work[p][s].kind /\ r.pc = work[p][s].pc
      BY <3>1 DEF Work
    <3>a. Becomes(p, s, r)
      BY <2>2
    <3> HIDE DEF r, s
    <3>b. /\ work'[p][s] = r
          /\ \A q \in Server : \A t \in Slot : q # p \/ t # s => work'[q][t] = work[q][t]
      BY <3>1, <3>a, BecomesAt DEF WorkOK
    <3>3. \A q \in Server : \A t \in Slot : work'[q][t].kind = work[q][t].kind
                                            /\ work'[q][t].pc = work[q][t].pc
      BY <3>2, <3>b
    <3>4. QED
      BY <2>0, <3>3, SameLock
  <2>3. CASE UNCHANGED work
    BY <2>0, <2>3, SameLock
  <2>4. QED
    BY <1>1, <2>1, <2>2, <2>3, FlushWork DEF Flush
<1>2. CASE Exit(p) \/ TimeOut(p) \/ Crash(p)
  <2>1. Ended(p)
    BY <1>2 DEF Exit, TimeOut, Crash
  <2>2. \A q \in Server \ {p} : \A t \in Slot : work'[q][t] = work[q][t]
    BY <2>1, EndedWork
  <2>3. \A q \in Server : \A t \in Slot : Names(lock', q, t) => Names(lock, q, t) /\ q # p
    <3>1. CASE lock # NoLock /\ lock.by \in {p} \X Slot
      <4>1. lock' = [lock EXCEPT !.by = Dead] /\ lock \in LockFile
        BY <2>1, <3>1 DEF Ended, RestOK
      <4>2. lock'.by = Dead
        BY <4>1 DEF LockFile
      <4>3. QED
        <5>1. \A q \in Server : \A t \in Slot : <<q, t>> # Dead
          BY SyncLoopAssumption
        <5>2. QED
          BY <4>2, <5>1 DEF Names
    <3>2. CASE ~(lock # NoLock /\ lock.by \in {p} \X Slot)
      <4>1. lock' = lock
        BY <2>1, <3>2 DEF Ended
      <4>2. \A t \in Slot : ~Names(lock, p, t)
        BY <3>2 DEF Names
      <4>3. QED
        BY <4>1, <4>2
    <3>3. QED
      BY <3>1, <3>2
  <2>4. QED
    BY <2>2, <2>3 DEF LockInv, Names, Holds
<1>3. CASE Start(p) \/ syncChanged(p) \/ Dispose(p) \/ Shutdown(p)
  BY <1>3, SameLock DEF Start, syncChanged, Dispose, Shutdown
<1>4. QED
  BY <1>1, <1>2, <1>3 DEF HostStep

LEMMA LockKeeps ==
  ASSUME WorkOK, KindInv, RestOK, LockInv, Next \/ Outside
  PROVE  LockInv'
<1>1. CASE IntervalPasses
  <2>1. /\ work' = work
        /\ lock' = lock \/ (lock # NoLock /\ lock' = [lock EXCEPT !.old = TRUE])
    BY <1>1 DEF IntervalPasses
  <2>2. \A q, t : Names(lock', q, t) => Names(lock, q, t)
    BY <2>1 DEF Names, RestOK, LockFile
  <2>3. QED
    BY <2>1, <2>2 DEF LockInv, Names, Holds
<1>2. CASE Outside
  <2>1. CASE \E x \in Actor \cup {Also} : Unpushed(x)
    <3>1. PICK x \in Actor \cup {Also} : Unpushed(x)
      BY <2>1
    <3>2. QED
      BY <1>2, <3>1, WrittenWork, SameLock DEF Outside
  <2>2. CASE UNCHANGED work
    BY <1>2, <2>2, SameLock DEF Outside
  <2>3. QED
    BY <1>2, <2>1, <2>2 DEF Outside
<1>3. QED
  BY <1>1, <1>2, WorkStepLock, TimerStepLock, CallStepLock, HostStepLock DEF Next

-----------------------------------------------------------------------------
\* What is owed a push has one: it is scheduled or some work that a shutdown may
\* wait for still sends it; after the shutdown has looked, that work is waited
\* for or is one it does not know of.
Sends(p, s) == WillPush(p, s) /\ work[p][s].kind # "tool"
Promised(p) ==
  /\ host[p] \in {"up", "rolling"} => soon[p] \/ \E s \in Slot : Sends(p, s)
  /\ host[p] = "flushing" =>
       \E s \in Slot : Sends(p, s) /\ (work[p][s].awaited \/ s # inFlight[p])
OwedInv ==
  /\ owed \subseteq pending \cap Mcp
  /\ \A p \in Dsh : call[p] # NoCall => ~call[p].soon
  /\ \A p \in owed : host[p] # "off" /\ Promised(p)

\* A step of one slot of p.
LEMMA SlotMoves ==
  ASSUME NEW p, NEW s, Promised(p), NoSlot \notin Slot,
         host'[p] = host[p], soon[p] => soon'[p] \/ (s \in Slot /\ Sends(p, s)'),
         \A t \in Slot : t # s => work'[p][t] = work[p][t],
         inFlight'[p] \in {inFlight[p], NoSlot, s},
         \/ ~Sends(p, s)
         \/ Sends(p, s)' /\ work'[p][s].awaited = work[p][s].awaited
            /\ inFlight'[p] = inFlight[p]
  PROVE  Promised(p)'
<1>1. ASSUME NEW t \in Slot, t # s, Sends(p, t) PROVE Sends(p, t)'
  BY <1>1 DEF Sends, WillPush
<1>2. ASSUME NEW t \in Slot, Sends(p, t) PROVE Sends(p, t)'
  BY <1>1, <1>2
<1>3. ASSUME host'[p] \in {"up", "rolling"} PROVE soon'[p] \/ \E t \in Slot : Sends(p, t)'
  BY <1>2, <1>3 DEF Promised
<1>4. ASSUME host'[p] = "flushing"
      PROVE  \E t \in Slot : Sends(p, t)' /\ (work'[p][t].awaited \/ t # inFlight'[p])
  <2>1. PICK t \in Slot : Sends(p, t) /\ (work[p][t].awaited \/ t # inFlight[p])
    BY <1>4 DEF Promised
  <2>2. Sends(p, t)'
    BY <1>2, <2>1
  <2>3. work'[p][t].awaited \/ t # inFlight'[p]
    <3>1. CASE t = s
      BY <2>1, <3>1
    <3>2. CASE t # s
      BY <2>1, <3>2
    <3>3. QED
      BY <3>1, <3>2
  <2>4. QED
    BY <2>2, <2>3
<1>5. QED
  BY <1>3, <1>4 DEF Promised

\* A step of p leaves the others as they are.
LEMMA OwedMoves ==
  ASSUME WorkOK, RestOK, OwedInv, NEW p \in Server,
         \A q \in Server \ {p} : /\ host'[q] = host[q] /\ soon'[q] = soon[q]
                                 /\ work'[q] = work[q] /\ inFlight'[q] = inFlight[q],
         owed' \ {p} \subseteq owed, owed' \subseteq pending' \cap Mcp,
         \A q \in Dsh : call'[q] # NoCall => ~call'[q].soon,
         p \in owed' => host'[p] # "off" /\ Promised(p)'
  PROVE  OwedInv'
<1>1. ASSUME NEW q \in owed', q # p PROVE host'[q] # "off" /\ Promised(q)'
  <2>1. /\ q \in Server /\ host[q] # "off" /\ Promised(q)
    BY <1>1 DEF OwedInv, RestOK, Server
  <2>2. \A t \in Slot : Sends(q, t)' <=> Sends(q, t)
    BY <1>1, <2>1 DEF Sends, WillPush
  <2>3. Promised(q)'
    BY <1>1, <2>1, <2>2 DEF Promised
  <2>4. QED
    BY <1>1, <2>1, <2>3
<1>2. QED
  BY <1>1 DEF OwedInv

LEMMA WorkStepOwed ==
  ASSUME WorkOK, KindInv, RestOK, OwedInv, NEW p \in Server, NEW s \in Slot, WorkStep(p, s)
  PROVE  OwedInv'
<1>1. UNCHANGED <<host, soon, call>>
  BY DEF WorkStep, Initial, Judge, Break, TryAgain, Name, Read, Answer, Fail, Finish
<1>2. /\ \A q \in Server \ {p} : work'[q] = work[q] /\ inFlight'[q] = inFlight[q]
      /\ \A t \in Slot : t # s => work'[p][t] = work[p][t]
      /\ inFlight'[p] \in {inFlight[p], NoSlot}
  BY DEF WorkOK, WorkStep, Initial, Judge, Break, TryAgain, Name, Read, Answer, Fail, Finish,
         PushEnds, Settled, Moved
<1>3. /\ owed' \subseteq owed /\ owed' \subseteq pending'
  BY DEF OwedInv, WorkStep, Initial, Judge, Break, TryAgain, Name, Read, Answer, Fail, Finish
<1>4. ASSUME p \in owed' PROVE host'[p] # "off" /\ Promised(p)'
  <2>1. p \in pending /\ Promised(p) /\ host[p] # "off"
    BY <1>3, <1>4 DEF OwedInv
  <2>2. CASE Read(p, s) /\ Sends(p, s)
    <3>1. work'[p][s] = [work[p][s] EXCEPT !.pc = "sent", !.seen = pending]
      BY <2>2, ReadWork
    <3>2. work[p][s] \in Work
      BY DEF WorkOK
    <3>3. /\ work'[p][s].pc = "sent" /\ work'[p][s].seen = pending
          /\ work'[p][s].kind = work[p][s].kind /\ work'[p][s].awaited = work[p][s].awaited
      BY <3>1, <3>2 DEF Work
    <3>4. Sends(p, s)'
      BY <2>1, <2>2, <3>3 DEF Sends, WillPush
    <3>5. inFlight'[p] = inFlight[p]
      BY <2>2 DEF Read
    <3>6. QED
      BY <1>1, <1>2, <2>1, <3>3, <3>4, <3>5, SlotMoves, SyncLoopAssumption
  <2>3. CASE ~Sends(p, s)
    BY <1>1, <1>2, <2>1, <2>3, SlotMoves, SyncLoopAssumption
  <2>4. ~Read(p, s) => ~Sends(p, s)
    <3>1. CASE Answer(p, s) \/ Fail(p, s)
      BY <1>4, <3>1 DEF Answer, Fail, Sends, WillPush
    <3>2. ~Read(p, s) /\ ~Answer(p, s) /\ ~Fail(p, s)
            => work[p][s].pc \in {"tick", "held", "break", "again", "name", "pull"}
      BY DEF WorkStep, Initial, Judge, Break, TryAgain, Name, Finish
    <3>3. QED
      BY <3>1, <3>2 DEF Sends, WillPush
  <2>5. QED
    BY <2>2, <2>3, <2>4
<1>5. QED
  BY <1>1, <1>2, <1>3, <1>4, OwedMoves DEF OwedInv

LEMMA TimerStepOwed ==
  ASSUME WorkOK, KindInv, RestOK, OwedInv, NEW p \in Server, NEW s \in Slot, TimerStep(p, s)
  PROVE  OwedInv'
<1>1. UNCHANGED <<host, call, pending, owed>>
  BY DEF TimerStep, FireTick, FireSoon, Connected
<1>2. /\ \A q \in Server \ {p} : /\ work'[q] = work[q] /\ inFlight'[q] = inFlight[q]
                                 /\ soon'[q] = soon[q]
      /\ \A t \in Slot : t # s => work'[p][t] = work[p][t]
      /\ inFlight'[p] \in {NoSlot, s}
  BY DEF WorkOK, RestOK, TimerStep, FireTick, FireSoon, Connected, Open, Track
<1>3. ~Sends(p, s)
  <2>1. work[p][s].pc = "free"
    BY TakenFree DEF TimerStep, FireTick, FireSoon, Connected, Track
  <2>2. QED
    BY <2>1 DEF Sends, WillPush
<1>4. ASSUME soon[p] PROVE soon'[p] \/ Sends(p, s)'
  <2>1. CASE FireSoon(p, s)
    <3>1. work'[p][s] = Begun("push", "push")
      BY <2>1 DEF FireSoon, Track, WorkOK
    <3>2. QED
      BY <3>1, BegunType DEF Sends, WillPush, Kind, WorkPC
  <2>2. CASE FireTick(p, s) \/ Connected(p, s)
    BY <1>4, <2>2 DEF FireTick, Connected
  <2>3. QED
    BY <2>1, <2>2 DEF TimerStep
<1>5. ASSUME p \in owed' PROVE host'[p] # "off" /\ Promised(p)'
  <2>1. Promised(p) /\ host[p] # "off"
    BY <1>1, <1>5 DEF OwedInv
  <2>2. Promised(p)'
    BY <1>1, <1>2, <1>3, <1>4, <2>1, SlotMoves, SyncLoopAssumption
  <2>3. QED
    BY <1>1, <2>1, <2>2
<1>6. QED
  BY <1>1, <1>2, <1>5, OwedMoves DEF OwedInv

\* A document that is written after a push has read it does not concern those
\* whose own documents wait.
LEMMA UnpushedOwed ==
  ASSUME WorkOK, KindInv, RestOK, OwedInv, NEW x, Unpushed(x),
         UNCHANGED <<host, soon, inFlight>>,
         \A q \in Dsh : call'[q] # NoCall => ~call'[q].soon
  PROVE  OwedInv'
<1>1. owed' = owed \ {x} /\ pending \subseteq pending'
  BY DEF Unpushed
<1>2. \A q \in Server : \A s \in Slot :
        /\ work'[q][s].pc = work[q][s].pc /\ work'[q][s].kind = work[q][s].kind
        /\ work'[q][s].awaited = work[q][s].awaited
        /\ work'[q][s].seen = work[q][s].seen \ {x}
  BY WrittenWork
<1>3. ASSUME NEW q \in owed' PROVE host'[q] # "off" /\ Promised(q)'
  <2>1. q \in Server /\ q # x /\ host[q] # "off" /\ Promised(q)
    BY <1>1, <1>3 DEF OwedInv, RestOK
  <2>2. \A t \in Slot : Sends(q, t) => Sends(q, t)'
    BY <1>2, <2>1 DEF Sends, WillPush
  <2>3. Promised(q)'
    BY <1>2, <2>1, <2>2 DEF Promised
  <2>4. QED
    BY <2>1, <2>3
<1>4. QED
  BY <1>1, <1>3 DEF OwedInv

LEMMA PluginCalls ==
  ASSUME NEW p \in Dsh, NEW c \in CallsOf(p)
  PROVE  c.soon = FALSE
<1>1. p \notin Mcp
  BY SyncLoopAssumption
<1>2. c \in DshCalls
  BY <1>1 DEF CallsOf
<1>3. QED
  BY <1>2 DEF DshCalls

LEMMA CallStepOwed ==
  ASSUME WorkOK, KindInv, RestOK, OwedInv, NEW p \in Server, CallStep(p)
  PROVE  OwedInv'
<1>0. /\ call \in [Server -> Call \cup {NoCall}] /\ Dsh \subseteq Server /\ Mcp \cap Dsh = {}
      /\ UNCHANGED <<host, inFlight>>
  BY SyncLoopAssumption
  DEF RestOK, Server, CallStep, BeginCall, Write, SubmitJob, EndCall, PluginWrites, CallCycle
<1>1. \A q \in Dsh : call'[q] # NoCall => ~call'[q].soon
  <2> SUFFICES ASSUME NEW q \in Dsh, call'[q] # NoCall PROVE ~call'[q].soon
    OBVIOUS
  <2>1. CASE q # p
    <3>1. call'[q] = call[q]
      BY <1>0, <2>1
      DEF CallStep, BeginCall, Write, SubmitJob, EndCall, PluginWrites, CallCycle, Rest
    <3>2. QED
      BY <3>1 DEF OwedInv
  <2>2. CASE q = p /\ BeginCall(p)
    <3>1. PICK c \in CallsOf(p) :
            call' = [call EXCEPT ![p] = [did |-> c.did, soon |-> c.soon,
                                         wrote |-> FALSE, awaits |-> NoSlot]]
      BY <2>2 DEF BeginCall
    <3>2. call'[p].soon = c.soon
      BY <1>0, <3>1
    <3>3. QED
      BY <2>2, <3>2, PluginCalls
  <2>3. CASE q = p /\ ~BeginCall(p)
    <3>1. CASE EndCall(p)
      BY <1>0, <2>3, <3>1 DEF EndCall
    <3>2. CASE UNCHANGED call
      BY <2>3, <3>2 DEF OwedInv
    <3>3. CASE Write(p) \/ SubmitJob(p) \/ \E s \in Slot : CallCycle(p, s)
      <4>1. call[p] # NoCall
        BY <3>3 DEF Write, SubmitJob, CallCycle
      <4>2. call[p] \in Call /\ ~call[p].soon
        BY <1>0, <2>3, <4>1 DEF OwedInv
      <4>3. \E d, w, a : call'[p] = [call[p] EXCEPT !.did = d, !.wrote = w, !.awaits = a]
        <5> DEFINE d == Tail(call[p].did)
        <5>1. CASE Write(p)
          <6>1. call'[p] = [call[p] EXCEPT !.did = d, !.wrote = call[p].soon]
            BY <1>0, <5>1 DEF Write, Rest
          <6>2. call'[p] = [call[p] EXCEPT !.did = d, !.wrote = call[p].soon,
                                           !.awaits = call[p].awaits]
            BY <4>2, <6>1 DEF Call
          <6>3. QED
            BY <6>2
        <5>2. CASE call' = Rest(p)
          <6>1. call'[p] = [call[p] EXCEPT !.did = d]
            BY <1>0, <5>2 DEF Rest
          <6>2. call'[p] = [call[p] EXCEPT !.did = d, !.wrote = call[p].wrote,
                                           !.awaits = call[p].awaits]
            BY <4>2, <6>1 DEF Call
          <6>3. QED
            BY <6>2
        <5>3. CASE \E s \in Slot : call' = [Rest(p) EXCEPT ![p].awaits = s]
          <6>1. PICK s \in Slot : call' = [Rest(p) EXCEPT ![p].awaits = s]
            BY <5>3
          <6>2. call'[p] = [call[p] EXCEPT !.did = d, !.awaits = s]
            BY <1>0, <6>1 DEF Rest
          <6>3. call'[p] = [call[p] EXCEPT !.did = d, !.wrote = call[p].wrote, !.awaits = s]
            BY <4>2, <6>2 DEF Call
          <6>4. QED
            BY <6>3
        <5>4. QED
          BY <3>3, <5>1, <5>2, <5>3 DEF SubmitJob, CallCycle
      <4>4. QED
        BY <2>3, <4>2, <4>3 DEF Call
    <3>4. QED
      BY <2>3, <3>1, <3>2, <3>3 DEF CallStep, PluginWrites
  <2>4. QED
    BY <2>1, <2>2, <2>3
<1>2. CASE Unpushed(p) /\ UNCHANGED soon
  BY <1>0, <1>1, <1>2, UnpushedOwed
<1>3. CASE UNCHANGED <<work, soon, pending, owed>>
  <2>1. p \in owed => host[p] # "off" /\ Promised(p)
    BY DEF OwedInv
  <2>2. Promised(p) => Promised(p)'
    BY <1>0, <1>3 DEF Promised, Sends, WillPush
  <2>3. QED
    BY <1>0, <1>1, <1>3, <2>1, <2>2, OwedMoves DEF OwedInv
<1>4. CASE \E s \in Slot : CallCycle(p, s) /\ ~Running(p)
  <2>1. PICK s \in Slot : CallCycle(p, s) /\ ~Running(p)
    BY <1>4
  <2>2. /\ UNCHANGED <<soon, pending, owed>> /\ ~Sends(p, s)
        /\ work' = [work EXCEPT ![p][s] = Begun("tool", "push")]
    BY <2>1, TakenFree DEF CallCycle, Sends, WillPush
  <2>3. /\ \A q \in Server \ {p} : work'[q] = work[q]
        /\ \A t \in Slot : t # s => work'[p][t] = work[p][t]
    BY <2>2 DEF WorkOK
  <2>4. p \in owed => host[p] # "off" /\ Promised(p)
    BY DEF OwedInv
  <2>5. Promised(p) => Promised(p)'
    BY <1>0, <2>2, <2>3, SlotMoves, SyncLoopAssumption
  <2>6. QED
    BY <1>0, <1>1, <2>2, <2>3, <2>4, <2>5, OwedMoves DEF OwedInv
<1>5. CASE EndCall(p)
  <2>1. /\ UNCHANGED <<work, pending>>
        /\ soon' = [soon EXCEPT ![p] = soon[p] \/ call[p].soon]
        /\ owed' = owed \/ (/\ call[p] # NoCall /\ call[p].soon /\ p \in pending
                            /\ host[p] = "up" /\ owed' = owed \cup {p})
    BY <1>5 DEF EndCall
  <2>2. call[p] # NoCall /\ call[p].soon => p \in Mcp
    BY DEF OwedInv, Server
  <2>3. \A q \in Server \ {p} : soon'[q] = soon[q]
    BY <2>1 DEF RestOK
  <2>4. soon'[p] <=> soon[p] \/ call[p].soon
    BY <2>1, Zenon DEF RestOK
  <2>5. ASSUME p \in owed' PROVE host'[p] # "off" /\ Promised(p)'
    <3>1. CASE p \in owed
      <4>1. host[p] # "off" /\ Promised(p)
        BY <3>1 DEF OwedInv
      <4>2. Promised(p)'
        BY <1>0, <2>1, <2>4, <4>1 DEF Promised, Sends, WillPush
      <4>3. QED
        BY <1>0, <4>1, <4>2
    <3>2. CASE p \notin owed
      <4>1. host[p] = "up" /\ soon'[p]
        BY <2>1, <2>4, <2>5, <3>2
      <4>2. QED
        BY <1>0, <4>1 DEF Promised
    <3>3. QED
      BY <3>1, <3>2
  <2>6. owed' \ {p} \subseteq owed /\ owed' \subseteq pending' \cap Mcp
    BY <2>1, <2>2 DEF OwedInv
  <2>7. QED
    BY <1>0, <1>1, <2>1, <2>3, <2>5, <2>6, OwedMoves
<1>6. QED
  BY <1>2, <1>3, <1>4, <1>5
  DEF CallStep, BeginCall, Write, SubmitJob, PluginWrites, CallCycle

LEMMA HostStepOwed ==
  ASSUME WorkOK, KindInv, RestOK, OwedInv, NEW p \in Server, HostStep(p)
  PROVE  OwedInv'
<1>0. p \in owed => p \in Mcp /\ host[p] # "off" /\ Promised(p)
  BY DEF OwedInv
<1>1. CASE Exit(p) \/ TimeOut(p) \/ Crash(p)
  <2>1. Ended(p)
    BY <1>1 DEF Exit, TimeOut, Crash
  <2>2. \A q \in Server \ {p} : /\ host'[q] = host[q] /\ soon'[q] = soon[q]
                                /\ work'[q] = work[q] /\ inFlight'[q] = inFlight[q]
    BY <2>1 DEF Ended, WorkOK, RestOK
  <2>3. \A q \in Dsh : call'[q] # NoCall => ~call'[q].soon
    BY <2>1 DEF Ended, RestOK, OwedInv, Server
  <2>4. owed' = owed \ {p} /\ pending' = pending
    BY <2>1 DEF Ended
  <2>5. QED
    BY <2>2, <2>3, <2>4, OwedMoves DEF OwedInv
<1>2. CASE Start(p) \/ Dispose(p)
  <2>1. p \notin owed
    BY <1>0, <1>2, SyncLoopAssumption DEF Start, Dispose
  <2>2. /\ UNCHANGED <<soon, work, inFlight, call, pending, owed>>
        /\ \A q \in Server \ {p} : host'[q] = host[q]
    BY <1>2 DEF Start, Dispose, RestOK
  <2>3. QED
    BY <2>1, <2>2, OwedMoves DEF OwedInv
<1>3. CASE syncChanged(p) \/ Shutdown(p)
  <2>1. /\ UNCHANGED <<soon, work, inFlight, call, pending, owed>>
        /\ \A q \in Server \ {p} : host'[q] = host[q]
        /\ host[p] = "up" /\ host'[p] \in {"up", "rolling"}
    BY <1>3 DEF syncChanged, Shutdown, RestOK
  <2>2. Promised(p) => Promised(p)'
    BY <2>1 DEF Promised, Sends, WillPush
  <2>3. QED
    BY <1>0, <2>1, <2>2, OwedMoves DEF OwedInv
<1>4. CASE Flush(p)
  <2>1. /\ UNCHANGED <<call, pending, owed>> /\ host[p] = "rolling" /\ host'[p] = "flushing"
        /\ \A q \in Server \ {p} : /\ host'[q] = host[q] /\ soon'[q] = soon[q]
                                   /\ work'[q] = work[q] /\ inFlight'[q] = inFlight[q]
    BY <1>4 DEF Flush, flushPendingSync, WorkOK, RestOK
  <2>2. ASSUME p \in owed PROVE Promised(p)'
    <3>1. soon[p] \/ \E s \in Slot : Sends(p, s)
      BY <1>0, <2>1, <2>2 DEF Promised
    <3>2. CASE \E s \in Slot : Becomes(p, s, [Begun("flush", "push") EXCEPT !.awaited = TRUE])
      <4>1. PICK s \in Slot : Becomes(p, s, [Begun("flush", "push") EXCEPT !.awaited = TRUE])
        BY <3>2
      <4>2. Begun("flush", "push") \in Work /\ Begun("flush", "push").pc = "push"
            /\ Begun("flush", "push").kind = "flush"
        BY BegunType DEF Kind, WorkPC
      <4>3. /\ [Begun("flush", "push") EXCEPT !.awaited = TRUE].pc = "push"
            /\ [Begun("flush", "push") EXCEPT !.awaited = TRUE].kind = "flush"
            /\ [Begun("flush", "push") EXCEPT !.awaited = TRUE].awaited
        BY <4>2 DEF Work
      <4>4. Sends(p, s)' /\ work'[p][s].awaited
        <5> DEFINE r == [Begun("flush", "push") EXCEPT !.awaited = TRUE]
        <5>1. Becomes(p, s, r)
          BY <4>1
        <5> HIDE DEF r
        <5>2. work'[p][s] = r
          BY <5>1, BecomesAt DEF WorkOK
        <5>3. work'[p][s].pc = "push" /\ work'[p][s].kind = "flush" /\ work'[p][s].awaited
          BY <4>3, <5>2 DEF r
        <5>4. QED
          BY <5>3 DEF Sends, WillPush
      <4>5. QED
        BY <2>1, <4>4 DEF Promised
    <3>3. CASE /\ ~soon[p] /\ inFlight[p] # NoSlot /\ inFlight' = inFlight
               /\ Becomes(p, inFlight[p], [work[p][inFlight[p]] EXCEPT !.awaited = TRUE])
      <4> DEFINE f == inFlight[p]
                 r == [work[p][f] EXCEPT !.awaited = TRUE]
      <4>1. f \in Slot /\ work[p][f] \in Work /\ Becomes(p, f, r)
        BY <3>3 DEF WorkOK
      <4>2. r.awaited /\ r.kind = work[p][f].kind /\ r.pc = work[p][f].pc /\ r.seen = work[p][f].seen
        BY <4>1 DEF Work
      <4>3. inFlight'[p] = f
        BY <3>3
      <4> HIDE DEF f, r
      <4>4. work'[p][f] = r /\ \A t \in Slot : t # f => work'[p][t] = work[p][t]
        BY <4>1, BecomesAt DEF WorkOK
      <4>5. PICK s \in Slot : Sends(p, s)
        BY <3>1, <3>3
      <4>6. Sends(p, s)' /\ (work'[p][s].awaited \/ s # inFlight'[p])
        BY <4>2, <4>3, <4>4, <4>5 DEF Sends, WillPush
      <4>7. QED
        BY <2>1, <4>6 DEF Promised
    <3>4. CASE ~soon[p] /\ inFlight[p] = NoSlot /\ work' = work /\ inFlight' = inFlight
      <4>1. PICK s \in Slot : Sends(p, s)
        BY <3>1, <3>4
      <4>2. Sends(p, s)' /\ s # inFlight'[p]
        BY <3>4, <4>1, SyncLoopAssumption DEF Sends, WillPush
      <4>3. QED
        BY <2>1, <4>2 DEF Promised
    <3>5. QED
      BY <1>4, <3>2, <3>3, <3>4, FlushWork DEF Flush
  <2>3. QED
    BY <2>1, <2>2, OwedMoves DEF OwedInv
<1>5. QED
  BY <1>1, <1>2, <1>3, <1>4 DEF HostStep

LEMMA OwedKeeps ==
  ASSUME WorkOK, KindInv, RestOK, OwedInv, Next \/ Outside
  PROVE  OwedInv'
<1>1. CASE Outside
  <2>1. CASE \E x \in Actor \cup {Also} : Unpushed(x)
    <3>1. PICK x \in Actor \cup {Also} : Unpushed(x)
      BY <2>1
    <3>2. \A q \in Dsh : call'[q] # NoCall => ~call'[q].soon
      BY <1>1 DEF Outside, OwedInv
    <3>3. QED
      BY <1>1, <3>1, <3>2, UnpushedOwed DEF Outside
  <2>2. CASE /\ UNCHANGED <<work, owed>>
             /\ (pending' = pending \/ \E h \in Cli : pending' = pending \ {h})
    <3>1. owed \subseteq pending' \cap Mcp
      BY <2>2, ActorsWrite DEF OwedInv, Server
    <3>2. UNCHANGED <<host, soon, inFlight, call>>
      BY <1>1 DEF Outside
    <3>3. \A q \in owed : Promised(q) => Promised(q)'
      BY <2>2, <3>2 DEF Promised, Sends, WillPush
    <3>4. QED
      BY <2>2, <3>1, <3>2, <3>3 DEF OwedInv
  <2>3. QED
    BY <1>1, <2>1, <2>2 DEF Outside
<1>2. CASE IntervalPasses
  <2>1. UNCHANGED <<host, soon, work, inFlight, call, pending, owed>>
    BY <1>2 DEF IntervalPasses
  <2>2. \A q \in owed : Promised(q) => Promised(q)'
    BY <2>1 DEF Promised, Sends, WillPush
  <2>3. QED
    BY <2>1, <2>2 DEF OwedInv
<1>3. QED
  BY <1>1, <1>2, WorkStepOwed, TimerStepOwed, CallStepOwed, HostStepOwed DEF Next

-----------------------------------------------------------------------------
\* The commands and the journal.
Effects1 == {"share", "also", "push", "roll"}
JournalOK ==
  /\ command \in [Cli -> Command1 \cup {NoCommand, Over}]
  /\ writer \in [Entry -> Mcp \cup {Nobody, Dead}]
  /\ old \subseteq drafts /\ drafts \cup rolled \subseteq Entry
  /\ \A e \in drafts \cup rolled : writer[e] # Nobody
  /\ roll \in [Actor -> Roll \cup {NoRoll}]
  /\ kept \subseteq Cli

\* A roll-up stores what was written and deletes what is stored; a command is
\* in one only while it is at that part of its work.
RollInv ==
  /\ \A x \in Actor : Rolling(x, "store") => \A e \in roll[x].read : writer[e] # Nobody
  /\ \A x \in Actor : Rolling(x, "delete") => roll[x].read \subseteq rolled
  /\ \A h \in Cli : roll[h] # NoRoll => Busy(h, "roll")

\* The writers of what is only on this machine.
Local == pending \cup kept

\* A command whose exit code tells of its push has that push before it, or its
\* writes are pushed or its push was swallowed.
Told(c, local) ==
  c.tells /\ ~c.failed =>
    /\ ~c.hook
    /\ c.did = <<>> => ~local \/ c.swallowed
    /\ c.did # <<>> => c.did[Len(c.did)] = "push"
TellInv == \A h \in Cli : Runs(h) => Told(command[h], h \in Local)

LEMMA SessionParts ==
  /\ SessionTypeOK => TypeOK /\ JournalOK
  /\ TypeOK /\ JournalOK /\ RollInv => SessionTypeOK
<1>1. RollInv => \A h \in Cli : ~Runs(h) => roll[h] = NoRoll
  BY DEF RollInv, Busy
<1>2. QED
  BY <1>1 DEF SessionTypeOK, JournalOK

LEMMA BusyType ==
  ASSUME JournalOK, NEW h \in Cli, Runs(h)
  PROVE  command[h] \in Command1 /\ command[h].did \in Seq(Effects1)
  BY DEF JournalOK, Runs, Command1, Effects1

\* A part of a command's work is done.
LEMMA DoneIs ==
  ASSUME JournalOK, NEW h \in Cli, NEW effect, Busy(h, effect)
  PROVE  \E r \in Command1 :
           /\ Done(h) = [command EXCEPT ![h] = r]
           /\ r.did = Tail(command[h].did)
           /\ r.hook = command[h].hook /\ r.tells = command[h].tells
           /\ r.failed = command[h].failed
<1> DEFINE r == [command[h] EXCEPT !.did = Tail(command[h].did), !.push = "no"]
<1>1. command[h] \in Command1 /\ command[h].did \in Seq(Effects1) /\ command[h].did # <<>>
  BY BusyType DEF Busy
<1>2. Tail(command[h].did) \in Seq(Effects1)
  BY <1>1, HeadTailProperties
<1>3. r \in Command1
  BY <1>1, <1>2 DEF Command1, Effects1
<1>4. /\ r.did = Tail(command[h].did) /\ r.hook = command[h].hook
      /\ r.tells = command[h].tells /\ r.failed = command[h].failed
  BY <1>1 DEF Command1
<1>5. Done(h) = [command EXCEPT ![h] = r]
  BY <1>1, Zenon DEF Done
<1> HIDE DEF r
<1>6. QED
  BY <1>3, <1>4, <1>5

LEMMA TailTold ==
  ASSUME NEW did \in Seq(Effects1), did # <<>>, did[Len(did)] = "push"
  PROVE  /\ Tail(did) # <<>> => Tail(did)[Len(Tail(did))] = "push"
         /\ Tail(did) = <<>> => Head(did) = "push"
<1>1. Len(did) \in Nat /\ Len(did) # 0 /\ Len(Tail(did)) = Len(did) - 1 /\ Head(did) = did[1]
  BY HeadTailProperties, EmptySeq, LenProperties
<1>2. CASE Tail(did) # <<>>
  <2>1. Tail(did) \in Seq(Effects1) /\ Len(Tail(did)) # 0
    BY <1>2, HeadTailProperties, EmptySeq
  <2>2. Len(Tail(did)) \in 1..Len(Tail(did))
    BY <1>1, <2>1
  <2>3. Tail(did)[Len(Tail(did))] = did[Len(Tail(did)) + 1]
    BY <2>2, HeadTailProperties
  <2>4. QED
    BY <1>1, <1>2, <2>3
<1>3. CASE Tail(did) = <<>>
  <2>1. Len(Tail(did)) = 0
    BY <1>3, EmptySeq
  <2>2. Len(did) = 1
    <3>1. \A n \in Nat : n - 1 = 0 => n = 1
      OBVIOUS
    <3>2. QED
      BY <1>1, <2>1, <3>1, Zenon
  <2>3. QED
    BY <1>1, <1>3, <2>2
<1>4. QED
  BY <1>2, <1>3

\* A step of command h keeps its promise.
LEMMA TellMoves ==
  ASSUME JournalOK, TellInv, NEW h \in Cli, NEW r, command' = [command EXCEPT ![h] = r],
         Local' \cap Cli \subseteq Local \cup {h},
         r \notin {NoCommand, Over} => Told(r, h \in Local')
  PROVE  TellInv'
<1> SUFFICES ASSUME NEW q \in Cli, command'[q] \notin {NoCommand, Over}
             PROVE  Told(command'[q], q \in Local')
  BY DEF TellInv, Runs, Told
<1>1. command'[q] = IF q = h THEN r ELSE command[q]
  BY DEF JournalOK
<1>2. CASE q = h
  BY <1>1, <1>2
<1>3. CASE q # h
  <2>1. Told(command[q], q \in Local) /\ (q \in Local' => q \in Local)
    BY <1>1, <1>3 DEF TellInv, Runs
  <2>2. QED
    BY <1>1, <1>3, <2>1 DEF Told
<1>4. QED
  BY <1>2, <1>3

\* The steps that do one part of a command's work, except the push.
LEMMA DoneTold ==
  ASSUME JournalOK, TellInv, NEW h \in Cli, NEW effect, Busy(h, effect),
         effect # "push" \/ command[h].hook, command' = Done(h),
         Local' \cap Cli \subseteq Local \cup {h}
  PROVE  TellInv'
<1>1. PICK r \in Command1 :
        /\ Done(h) = [command EXCEPT ![h] = r]
        /\ r.did = Tail(command[h].did)
        /\ r.hook = command[h].hook /\ r.tells = command[h].tells
        /\ r.failed = command[h].failed
  BY DoneIs
<1>2. /\ command[h].did \in Seq(Effects1) /\ command[h].did # <<>>
      /\ Head(command[h].did) = effect /\ Told(command[h], h \in Local)
  BY BusyType DEF Busy, TellInv
<1>3. Told(r, h \in Local')
  BY <1>1, <1>2, TailTold DEF Told
<1>4. QED
  BY <1>1, <1>3, TellMoves

LEMMA RollBusy ==
  ASSUME RollInv, NEW h \in Cli, NEW effect, Busy(h, effect), effect # "roll"
  PROVE  roll[h] = NoRoll
  BY DEF RollInv, Busy

JournalInv == JournalOK /\ RollInv /\ EntryKept /\ TellInv

\* What a server's step does: the session of one that ends has no writer any
\* more, and its roll-up is cut.
LEMMA ServerStepJournal ==
  ASSUME RestOK, JournalInv, ServerStep
  PROVE  JournalInv'
<1>0. /\ UNCHANGED <<command, drafts, old, rolled>>
      /\ Dead # Nobody /\ Nobody \notin Mcp /\ Cli \cap Mcp = {}
  BY SessionsAssumption, ActorsWrite DEF ServerStep, Server
<1>1. /\ writer' \in [Entry -> Mcp \cup {Nobody, Dead}]
      /\ \A e \in Entry : writer'[e] # Nobody <=> writer[e] # Nobody
  <2>1. \A e \in Entry : writer'[e] = IF Off(writer[e]) THEN Dead ELSE writer[e]
    BY DEF ServerStep
  <2>2. \A e \in Entry : Off(writer[e]) => writer[e] \in Mcp
    BY DEF Off
  <2>3. \A e \in Entry : writer[e] \in Mcp \cup {Nobody, Dead}
    BY DEF JournalInv, JournalOK
  <2>4. \A e \in Entry : /\ writer'[e] \in Mcp \cup {Nobody, Dead}
                         /\ writer'[e] # Nobody <=> writer[e] # Nobody
    BY <1>0, <2>1, <2>2, <2>3
  <2>5. writer' = [e \in Entry |-> writer'[e]]
    BY DEF ServerStep
  <2>6. QED
    BY <2>4, <2>5
<1>2. ASSUME NEW x \in Actor
      PROVE  /\ roll'[x] \in Roll \cup {NoRoll}
             /\ roll'[x] # NoRoll => /\ roll[x] # NoRoll
                                     /\ roll'[x].step = roll[x].step
                                     /\ roll'[x].read = roll[x].read
  <2>0. roll'[x] = CASE Off(x) \/ roll[x] = NoRoll -> NoRoll
                     [] ~Off(x) /\ roll[x] # NoRoll ->
                          [roll[x] EXCEPT !.of = IF Off(@) THEN Dead ELSE @]
    BY DEF ServerStep
  <2>1. CASE Off(x) \/ roll[x] = NoRoll
    BY <2>0, <2>1
  <2>2. CASE ~Off(x) /\ roll[x] # NoRoll
    <3>1. roll[x] \in Roll
      BY <2>2 DEF JournalInv, JournalOK
    <3>2. \A o : [roll[x] EXCEPT !.of = o].step = roll[x].step
                 /\ [roll[x] EXCEPT !.of = o].read = roll[x].read
      BY <3>1 DEF Roll
    <3>3. \A o \in Mcp \cup {Dead} : [roll[x] EXCEPT !.of = o] \in Roll
      BY <3>1 DEF Roll
    <3>4. PICK o \in Mcp \cup {Dead} : roll'[x] = [roll[x] EXCEPT !.of = o]
      <4>1. roll'[x] = [roll[x] EXCEPT !.of = IF Off(roll[x].of) THEN Dead ELSE roll[x].of]
        BY <2>0, <2>2
      <4>2. (IF Off(roll[x].of) THEN Dead ELSE roll[x].of) \in Mcp \cup {Dead}
        BY <3>1 DEF Roll
      <4>3. QED
        BY <4>1, <4>2, Zenon
    <3>5. QED
      BY <2>2, <3>2, <3>3, <3>4
  <2>3. QED
    BY <2>1, <2>2
<1>3. JournalOK'
  <2>1. roll' = [x \in Actor |-> roll'[x]]
    BY DEF ServerStep
  <2>2. roll' \in [Actor -> Roll \cup {NoRoll}]
    BY <1>2, <2>1
  <2>3. kept' \subseteq Cli
    BY DEF ServerStep, JournalInv, JournalOK
  <2>4. QED
    BY <1>0, <1>1, <2>2, <2>3 DEF JournalInv, JournalOK
<1>4. RollInv'
  <2>1. ASSUME NEW x \in Actor, NEW step, Rolling(x, step)'
        PROVE  Rolling(x, step) /\ roll'[x].read = roll[x].read
    BY <1>2, <2>1 DEF Rolling
  <2>2. ASSUME NEW x \in Actor, Rolling(x, "store") PROVE roll[x].read \subseteq Entry
    BY <2>2 DEF Rolling, JournalInv, JournalOK, Roll
  <2>3. \A x \in Actor : Rolling(x, "store")' => \A e \in roll'[x].read : writer'[e] # Nobody
    BY <1>1, <2>1, <2>2 DEF JournalInv, RollInv
  <2>4. \A x \in Actor : Rolling(x, "delete")' => roll'[x].read \subseteq rolled'
    BY <1>0, <2>1 DEF JournalInv, RollInv
  <2>5. \A h \in Cli : roll'[h] # NoRoll => Busy(h, "roll")'
    BY <1>0, <1>2 DEF JournalInv, RollInv, Actor, Busy, Runs
  <2>6. QED
    BY <2>3, <2>4, <2>5 DEF RollInv
<1>5. EntryKept'
  BY <1>0, <1>1 DEF JournalInv, EntryKept
<1>6. TellInv'
  <2>1. pending' \subseteq pending \cup Server
    BY NextPending DEF ServerStep
  <2>2. \A h \in Cli : h \in Local' => h \in Local
    BY <2>1, ActorsWrite DEF ServerStep, Local
  <2>3. QED
    BY <1>0, <2>2 DEF JournalInv, TellInv, Told, Runs
<1>7. QED
  BY <1>3, <1>4, <1>5, <1>6 DEF JournalInv

\* A step that leaves the journal and the roll-ups as they are.
LEMMA SameJournal ==
  ASSUME JournalOK, RollInv, EntryKept, UNCHANGED <<writer, drafts, old, rolled, roll>>,
         command' \in [Cli -> Command1 \cup {NoCommand, Over}], kept' \subseteq Cli,
         \A h \in Cli : roll[h] # NoRoll => command'[h] = command[h]
  PROVE  JournalOK' /\ RollInv' /\ EntryKept'
  BY DEF JournalOK, RollInv, EntryKept, Rolling, Busy, Runs

\* A command's step that leaves the roll-ups alone.
LEMMA CommandJournal ==
  ASSUME JournalOK, RollInv, EntryKept, NEW h \in Cli, NEW r \in Command1,
         command' = [command EXCEPT ![h] = r], roll[h] = NoRoll, kept' \subseteq Cli,
         UNCHANGED <<writer, drafts, old, rolled, roll>>
  PROVE  JournalOK' /\ RollInv' /\ EntryKept'
<1>1. /\ command' \in [Cli -> Command1 \cup {NoCommand, Over}]
      /\ \A q \in Cli : q # h => command'[q] = command[q]
  BY DEF JournalOK
<1>2. QED
  BY <1>1, SameJournal

\* A command ends, at whatever part of its work.
LEMMA GoneJournal ==
  ASSUME JournalInv, NEW h \in Cli, Gone(h), UNCHANGED pending
  PROVE  JournalInv'
<1>1. /\ command' = [command EXCEPT ![h] = Over] /\ roll' = [roll EXCEPT ![h] = NoRoll]
      /\ UNCHANGED <<writer, drafts, old, rolled, kept>>
  BY DEF Gone
<1>2. h \in Actor
  BY DEF Actor
<1>3. JournalOK' /\ EntryKept'
  BY <1>1, <1>2 DEF JournalInv, JournalOK, EntryKept
<1>4. RollInv'
  <2>1. /\ \A x \in Actor : roll'[x] = IF x = h THEN NoRoll ELSE roll[x]
        /\ \A q \in Cli : q # h => command'[q] = command[q]
    BY <1>1, <1>2 DEF JournalInv, JournalOK
  <2>2. QED
    BY <1>1, <2>1 DEF JournalInv, RollInv, Rolling, Busy, Runs, Actor
<1>5. TellInv'
  BY <1>1, TellMoves DEF JournalInv, Local
<1>6. QED
  BY <1>3, <1>4, <1>5 DEF JournalInv

LEMMA BeginCommandJournal ==
  ASSUME JournalInv, NEW h \in Cli, BeginCommand(h)
  PROVE  JournalInv'
<1>1. PICK c \in main : /\ c.did # <<>>
                        /\ command' = [command EXCEPT ![h] =
                              [did |-> c.did, hook |-> c.hook, tells |-> c.tells,
                               push |-> "no", failed |-> FALSE, swallowed |-> FALSE]]
  BY DEF BeginCommand
<1> DEFINE r == [did |-> c.did, hook |-> c.hook, tells |-> c.tells, push |-> "no",
                 failed |-> FALSE, swallowed |-> FALSE]
<1>2. /\ c \in [did : Seq({"share", "also", "push", "roll"}), hook : BOOLEAN, tells : BOOLEAN]
      /\ c.tells => ~c.hook /\ c.did[Len(c.did)] = "push"
  BY <1>1, CommandsAssumption
<1>3. r \in Command1
  BY <1>2 DEF Command1
<1>4. Told(r, h \in Local')
  BY <1>1, <1>2 DEF Told
<1>5. roll[h] = NoRoll
  BY DEF BeginCommand, JournalInv, RollInv, Busy, Runs
<1>6. UNCHANGED <<pending, writer, drafts, old, rolled, roll, kept>>
  BY DEF BeginCommand
<1>7. command' = [command EXCEPT ![h] = r]
  BY <1>1
<1> HIDE DEF r
<1>8. JournalOK' /\ RollInv' /\ EntryKept'
  <2>1. kept' \subseteq Cli
    BY <1>6 DEF JournalInv, JournalOK
  <2>2. QED
    BY <1>3, <1>5, <1>6, <1>7, <2>1, CommandJournal DEF JournalInv
<1>9. TellInv'
  BY <1>4, <1>6, <1>7, TellMoves DEF JournalInv, Local
<1>10. QED
  BY <1>8, <1>9 DEF JournalInv

\* The parts of a command's work except its roll-up.
LEMMA CommandStepJournal ==
  ASSUME JournalInv, NEW h \in Cli,
         CommandWrites(h) \/ BeginPush(h) \/ SendPush(h) \/ PushThrows(h)
           \/ PushAnswered(h) \/ PushFails(h)
  PROVE  JournalInv'
<1>0. UNCHANGED <<writer, drafts, old, rolled, roll>> /\ kept' \subseteq Cli
  <2>1. kept \subseteq Cli
    BY DEF JournalInv, JournalOK
  <2>2. QED
    BY <2>1
    DEF CommandWrites, Marked, BeginPush, SendPush, PushThrows, PushAnswered, PushFails
<1>1. PICK effect \in {"share", "also", "push"} : Busy(h, effect)
  BY DEF CommandWrites, BeginPush, SendPush, PushThrows, PushAnswered, PushFails
<1>2. roll[h] = NoRoll
  BY <1>1, RollBusy DEF JournalInv
<1>3. PICK d \in Command1 :
        /\ Done(h) = [command EXCEPT ![h] = d]
        /\ d.did = Tail(command[h].did)
        /\ d.hook = command[h].hook /\ d.tells = command[h].tells
        /\ d.failed = command[h].failed
  BY <1>1, DoneIs DEF JournalInv
<1>4. ASSUME command' = Done(h) PROVE JournalOK' /\ RollInv' /\ EntryKept'
  BY <1>0, <1>2, <1>3, <1>4, CommandJournal DEF JournalInv
<1>5. /\ command[h] \in Command1 /\ Told(command[h], h \in Local)
      /\ command[h].did \in Seq(Effects1) /\ command[h].did # <<>>
      /\ Head(command[h].did) = effect
  BY <1>1, BusyType DEF JournalInv, TellInv, Busy
<1>6. CASE CommandWrites(h)
  <2>1. Busy(h, "share") \/ Busy(h, "also")
    BY <1>6 DEF CommandWrites
  <2>2. command' = Done(h) /\ Local' \cap Cli \subseteq Local \cup {h}
    BY <1>6, SessionsAssumption DEF CommandWrites, Marked, Unpushed, Local
  <2>3. TellInv'
    BY <2>1, <2>2, DoneTold DEF JournalInv
  <2>4. QED
    BY <1>4, <2>2, <2>3 DEF JournalInv
<1>7. CASE BeginPush(h) /\ command' = Done(h) /\ command[h].hook
  <2>1. Busy(h, "push") /\ Local' = Local
    BY <1>7 DEF BeginPush, vars, Local
  <2>2. TellInv'
    BY <1>7, <2>1, DoneTold DEF JournalInv
  <2>3. QED
    BY <1>4, <1>7, <2>2 DEF JournalInv
<1>8. CASE \E push \in {"begun", "sent"} : command' = [command EXCEPT ![h].push = push]
           /\ Local' = Local
  <2>1. PICK push \in {"begun", "sent"} : command' = [command EXCEPT ![h].push = push]
    BY <1>8
  <2> DEFINE r == [command[h] EXCEPT !.push = push]
  <2>2. r \in Command1 /\ r.did = command[h].did /\ r.hook = command[h].hook
        /\ r.tells = command[h].tells /\ r.failed = command[h].failed
        /\ r.swallowed = command[h].swallowed
    BY <1>5 DEF Command1
  <2>3. command' = [command EXCEPT ![h] = r]
    BY <2>1
  <2> HIDE DEF r
  <2>4. Told(r, h \in Local')
    BY <1>5, <1>8, <2>2 DEF Told
  <2>5. TellInv'
    BY <1>8, <2>3, <2>4, TellMoves DEF JournalInv
  <2>6. JournalOK' /\ RollInv' /\ EntryKept'
    BY <1>0, <1>2, <2>2, <2>3, CommandJournal DEF JournalInv
  <2>7. QED
    BY <2>5, <2>6 DEF JournalInv
<1>9. ASSUME NEW swallowed \in BOOLEAN, command' = [Done(h) EXCEPT ![h].swallowed = swallowed],
             effect = "push", Local' \subseteq Local, h \in Local' => swallowed
      PROVE  JournalInv'
  <2> DEFINE r == [d EXCEPT !.swallowed = swallowed]
  <2>1. command' = [command EXCEPT ![h] = r]
    BY <1>3, <1>9 DEF JournalInv, JournalOK
  <2>2. /\ r \in Command1 /\ r.did = d.did /\ r.hook = d.hook /\ r.tells = d.tells
        /\ r.failed = d.failed /\ r.swallowed = swallowed
    BY <1>3 DEF Command1
  <2> HIDE DEF r
  <2>3. Told(r, h \in Local')
    BY <1>3, <1>5, <1>9, <2>2, TailTold DEF Told
  <2>4. TellInv'
    BY <1>9, <2>1, <2>3, TellMoves DEF JournalInv
  <2>5. JournalOK' /\ RollInv' /\ EntryKept'
    BY <1>0, <1>2, <2>1, <2>2, CommandJournal DEF JournalInv
  <2>6. QED
    BY <2>4, <2>5 DEF JournalInv
<1>10. CASE PushAnswered(h)
  <2>1. /\ effect = "push" /\ command' = [Done(h) EXCEPT ![h].swallowed = h \in kept']
        /\ kept' \subseteq kept \cup pending /\ pending' = pending \ {h}
    BY <1>1, <1>10 DEF PushAnswered, Busy
  <2>2. Local' \subseteq Local /\ (h \in Local' => h \in kept')
    BY <2>1 DEF Local
  <2> DEFINE swallowed == h \in kept'
  <2>3. /\ swallowed \in BOOLEAN /\ (h \in Local' => swallowed)
        /\ command' = [Done(h) EXCEPT ![h].swallowed = swallowed]
    BY <2>1, <2>2
  <2> HIDE DEF swallowed
  <2>4. QED
    BY <1>9, <2>1, <2>2, <2>3
<1>11. CASE PushThrows(h)
  <2>1. /\ effect = "push" /\ command' = [Done(h) EXCEPT ![h].swallowed = TRUE]
        /\ Local' = Local
    BY <1>1, <1>11 DEF PushThrows, Busy, vars, Local
  <2>2. QED
    BY <1>9, <2>1
<1>12. CASE PushFails(h)
  <2> DEFINE r == [d EXCEPT !.failed = TRUE]
  <2>1. /\ command' = [Done(h) EXCEPT ![h].failed = TRUE]
        /\ Local' = Local
    BY <1>12 DEF PushFails, Local
  <2>2. command' = [command EXCEPT ![h] = r]
    BY <1>3, <2>1 DEF JournalInv, JournalOK
  <2>3. r \in Command1 /\ r.failed
    BY <1>3 DEF Command1
  <2> HIDE DEF r
  <2>4. TellInv'
    BY <2>1, <2>2, <2>3, TellMoves DEF JournalInv, Told
  <2>5. JournalOK' /\ RollInv' /\ EntryKept'
    BY <1>0, <1>2, <2>2, <2>3, CommandJournal DEF JournalInv
  <2>6. QED
    BY <2>4, <2>5 DEF JournalInv
<1>13. QED
  <2>1. BeginPush(h) \/ SendPush(h) => Local' = Local
    BY DEF BeginPush, SendPush, vars, Local
  <2>2. QED
    BY <1>6, <1>7, <1>8, <1>10, <1>11, <1>12, <2>1 DEF BeginPush, SendPush

\* A stored memory is one more document to push.
LEMMA StoreTold ==
  ASSUME JournalInv, NEW x \in Actor, StoreMemory(x)
  PROVE  TellInv'
<1>1. /\ Local' \subseteq Local \cup {x} /\ UNCHANGED command
      /\ roll[x] # NoRoll
  BY DEF StoreMemory, Marked, Unpushed, Rolling, Local
<1>2. x \in Cli => command[x].did # <<>>
  BY <1>1 DEF JournalInv, RollInv, Busy
<1>3. QED
  BY <1>1, <1>2 DEF JournalInv, TellInv, Told, Runs

\* A step of one roll-up.
LEMMA RollMoves ==
  ASSUME JournalOK, RollInv, NEW x \in Actor, NEW r \in Roll \cup {NoRoll},
         roll' = [roll EXCEPT ![x] = r], UNCHANGED <<command, writer>>,
         rolled \subseteq rolled',
         r # NoRoll /\ r.step = "store" => \A e \in r.read : writer[e] # Nobody,
         r # NoRoll /\ r.step = "delete" => r.read \subseteq rolled',
         x \in Cli /\ r # NoRoll => Busy(x, "roll")
  PROVE  RollInv' /\ roll' \in [Actor -> Roll \cup {NoRoll}]
<1>1. /\ \A y \in Actor : roll'[y] = IF y = x THEN r ELSE roll[y]
      /\ roll' \in [Actor -> Roll \cup {NoRoll}]
  BY DEF JournalOK
<1>2. \A y \in Actor : Rolling(y, "store")' => \A e \in roll'[y].read : writer[e] # Nobody
  BY <1>1 DEF RollInv, Rolling
<1>3. \A y \in Actor : Rolling(y, "delete")' => roll'[y].read \subseteq rolled'
  BY <1>1 DEF RollInv, Rolling
<1>4. \A h \in Cli : roll'[h] # NoRoll => Busy(h, "roll")'
  BY <1>1 DEF RollInv, Busy, Runs, Actor
<1>5. QED
  BY <1>1, <1>2, <1>3, <1>4 DEF RollInv

LEMMA SameTold ==
  ASSUME TellInv, UNCHANGED <<command, pending, kept>>
  PROVE  TellInv'
  BY DEF TellInv, Told, Runs, Local

LEMMA BeginRollJournal ==
  ASSUME JournalInv,
         \/ \E p \in Mcp : consolidateSession(p)
         \/ \E h \in Cli : consolidateStaleDrafts(h)
  PROVE  JournalInv'
<1>0. UNCHANGED <<vars, writer, drafts, old, rolled, kept>>
  BY DEF consolidateSession, consolidateStaleDrafts
<1>1. ASSUME NEW x \in Actor, NEW o \in Mcp \cup {Dead}, x \in Cli => Busy(x, "roll"),
             roll' = [roll EXCEPT ![x] = [of |-> o, step |-> "read", read |-> {}]],
             UNCHANGED command
      PROVE  JournalInv'
  <2> DEFINE r == [of |-> o, step |-> "read", read |-> {}]
  <2>1. r \in Roll /\ r.step = "read"
    BY DEF Roll
  <2>2. roll' = [roll EXCEPT ![x] = r]
    BY <1>1
  <2> HIDE DEF r
  <2>3. RollInv' /\ roll' \in [Actor -> Roll \cup {NoRoll}]
    BY <1>0, <1>1, <2>1, <2>2, RollMoves DEF JournalInv
  <2>4. QED
    BY <1>0, <1>1, <2>3, SameTold DEF JournalInv, JournalOK, EntryKept, vars
<1>2. CASE \E p \in Mcp : consolidateSession(p)
  <2>1. PICK p \in Mcp : consolidateSession(p)
    BY <1>2
  <2>2. p \in Actor /\ p \notin Cli /\ UNCHANGED command
        /\ roll' = [roll EXCEPT ![p] = [of |-> p, step |-> "read", read |-> {}]]
    BY <2>1, ActorsWrite DEF consolidateSession, Actor, Server
  <2>3. QED
    BY <1>1, <2>2
<1>3. CASE \E h \in Cli : consolidateStaleDrafts(h)
  <2>1. PICK h \in Cli : consolidateStaleDrafts(h)
    BY <1>3
  <2>2. h \in Actor /\ Busy(h, "roll") /\ roll[h] = NoRoll
    BY <2>1 DEF consolidateStaleDrafts, Actor
  <2>3. CASE command' = Done(h) /\ UNCHANGED roll
    <3>1. PICK d \in Command1 : command' = [command EXCEPT ![h] = d]
      BY <2>2, <2>3, DoneIs DEF JournalInv
    <3>2. kept' \subseteq Cli /\ Local' = Local
      BY <1>0 DEF JournalInv, JournalOK, vars, Local
    <3>3. JournalOK' /\ RollInv' /\ EntryKept'
      BY <1>0, <2>2, <2>3, <3>1, <3>2, CommandJournal DEF JournalInv
    <3>4. TellInv'
      BY <2>2, <2>3, <3>2, DoneTold DEF JournalInv
    <3>5. QED
      BY <3>3, <3>4 DEF JournalInv
  <2>4. CASE ~(command' = Done(h) /\ UNCHANGED roll)
    <3>1. PICK o \in Mcp \cup {Dead} :
            /\ roll' = [roll EXCEPT ![h] = [of |-> o, step |-> "read", read |-> {}]]
            /\ UNCHANGED command
      BY <2>1, <2>4 DEF consolidateStaleDrafts
    <3>2. QED
      BY <1>1, <2>2, <3>1
  <2>5. QED
    BY <2>3, <2>4
<1>4. QED
  BY <1>2, <1>3

LEMMA RollStepJournal ==
  ASSUME JournalInv, NEW x \in Actor, RollStep(x)
  PROVE  JournalInv'
<1>0. /\ roll[x] \in Roll /\ roll[x] # NoRoll /\ UNCHANGED <<command, writer>>
      /\ x \in Cli => Busy(x, "roll")
  BY DEF JournalInv, JournalOK, RollInv, RollStep, ReadDrafts, StoreMemory, StoreFails,
         DeleteDrafts, Rolling
<1>1. CASE ReadDrafts(x)
  <2> DEFINE ds == listSessionDrafts(roll[x].of)
             r == IF ds = {} THEN NoRoll ELSE [roll[x] EXCEPT !.step = "store", !.read = ds]
  <2>1. roll' = [roll EXCEPT ![x] = r] /\ UNCHANGED <<vars, drafts, old, rolled, kept>>
    BY <1>1 DEF ReadDrafts
  <2>2. ds \subseteq drafts /\ ds \subseteq Entry
    BY DEF listSessionDrafts, JournalInv, JournalOK
  <2> HIDE DEF ds
  <2>3. [roll[x] EXCEPT !.step = "store", !.read = ds] \in Roll
        /\ [roll[x] EXCEPT !.step = "store", !.read = ds].read = ds
        /\ [roll[x] EXCEPT !.step = "store", !.read = ds].step = "store"
    BY <1>0, <2>2 DEF Roll
  <2>4. /\ r \in Roll \cup {NoRoll} /\ (r # NoRoll => r.step = "store" /\ r.read = ds)
    BY <2>3
  <2>5. \A e \in ds : writer[e] # Nobody
    BY <2>2 DEF JournalInv, JournalOK
  <2> HIDE DEF r
  <2>6. RollInv' /\ roll' \in [Actor -> Roll \cup {NoRoll}]
    BY <1>0, <2>1, <2>4, <2>5, RollMoves DEF JournalInv
  <2>7. QED
    BY <1>0, <2>1, <2>6, SameTold DEF JournalInv, JournalOK, EntryKept, vars
<1>2. CASE StoreMemory(x)
  <2> DEFINE r == [roll[x] EXCEPT !.step = "delete"]
  <2>1. /\ roll' = [roll EXCEPT ![x] = r] /\ UNCHANGED <<drafts, old>>
        /\ rolled' = rolled \cup roll[x].read /\ Rolling(x, "store") /\ kept' \subseteq kept
    BY <1>2 DEF StoreMemory, Marked
  <2>2. r \in Roll /\ r.step = "delete" /\ r.read = roll[x].read /\ r.read \subseteq Entry
    BY <1>0 DEF Roll
  <2> HIDE DEF r
  <2>3. RollInv' /\ roll' \in [Actor -> Roll \cup {NoRoll}]
    BY <1>0, <2>1, <2>2, RollMoves DEF JournalInv
  <2>4. \A e \in rolled' : writer[e] # Nobody
    BY <2>1 DEF JournalInv, JournalOK, RollInv
  <2>5. JournalOK'
    BY <1>0, <2>1, <2>2, <2>3, <2>4 DEF JournalInv, JournalOK
  <2>6. EntryKept'
    BY <1>0, <2>1 DEF JournalInv, EntryKept
  <2>7. QED
    BY <1>2, <2>3, <2>5, <2>6, StoreTold DEF JournalInv
<1>3. CASE StoreFails(x)
  <2>1. roll' = [roll EXCEPT ![x] = NoRoll] /\ UNCHANGED <<vars, drafts, old, rolled, kept>>
    BY <1>3 DEF StoreFails
  <2>2. RollInv' /\ roll' \in [Actor -> Roll \cup {NoRoll}]
    BY <1>0, <2>1, RollMoves DEF JournalInv
  <2>3. QED
    BY <1>0, <2>1, <2>2, SameTold DEF JournalInv, JournalOK, EntryKept, vars
<1>4. CASE DeleteDrafts(x)
  <2>0. Rolling(x, "delete") /\ UNCHANGED <<vars, rolled, kept>>
    BY <1>4 DEF DeleteDrafts
  <2>1. roll[x].read \subseteq rolled /\ roll[x].step = "delete"
    BY <2>0 DEF JournalInv, RollInv, Rolling
  <2>2. TellInv'
    BY <1>0, <2>0, SameTold DEF JournalInv, vars
  <2>3. CASE roll[x].read = {}
    <3>1. roll' = [roll EXCEPT ![x] = NoRoll] /\ UNCHANGED <<drafts, old>>
      BY <1>4, <2>3 DEF DeleteDrafts
    <3>2. RollInv' /\ roll' \in [Actor -> Roll \cup {NoRoll}]
      BY <1>0, <2>0, <3>1, RollMoves DEF JournalInv
    <3>3. QED
      BY <1>0, <2>0, <2>2, <3>1, <3>2 DEF JournalInv, JournalOK, EntryKept
  <2>4. CASE roll[x].read # {}
    <3> DEFINE e == CHOOSE e \in roll[x].read : TRUE
               r == [roll[x] EXCEPT !.read = @ \ {e}]
    <3>1. e \in roll[x].read
      BY <2>4
    <3>2. /\ roll' = [roll EXCEPT ![x].read = @ \ {e}]
          /\ drafts' \in {drafts, drafts \ {e}} /\ old' = old \cap drafts'
      BY <1>4, <2>4 DEF DeleteDrafts
    <3> HIDE DEF e
    <3>3. roll' = [roll EXCEPT ![x] = r]
      BY <3>2
    <3>4. r \in Roll /\ r.step = "delete" /\ r.read = roll[x].read \ {e}
      BY <1>0, <2>1 DEF Roll
    <3> HIDE DEF r
    <3>5. RollInv' /\ roll' \in [Actor -> Roll \cup {NoRoll}]
      BY <1>0, <2>0, <2>1, <3>3, <3>4, RollMoves DEF JournalInv
    <3>6. JournalOK'
      BY <1>0, <2>0, <3>2, <3>5 DEF JournalInv, JournalOK
    <3>7. EntryKept'
      BY <1>0, <2>0, <2>1, <3>1, <3>2 DEF JournalInv, EntryKept
    <3>8. QED
      BY <2>2, <3>5, <3>6, <3>7 DEF JournalInv
  <2>5. QED
    BY <2>3, <2>4
<1>5. QED
  BY <1>1, <1>2, <1>3, <1>4 DEF RollStep

LEMMA AppendJournal ==
  ASSUME JournalInv, NEW p \in Mcp, journalAppend(p)
  PROVE  JournalInv'
<1>0. UNCHANGED <<vars, command, old, rolled, roll, kept>> /\ p # Nobody
  BY SessionsAssumption DEF journalAppend
<1>1. PICK e \in Entry : /\ writer' = [writer EXCEPT ![e] = p]
                         /\ drafts' = drafts \cup {e}
  BY DEF journalAppend
<1>2. /\ writer' \in [Entry -> Mcp \cup {Nobody, Dead}]
      /\ \A d \in Entry : writer'[d] = IF d = e THEN p ELSE writer[d]
  BY <1>1 DEF JournalInv, JournalOK
<1>3. JournalOK'
  BY <1>0, <1>1, <1>2 DEF JournalInv, JournalOK
<1>4. \A x \in Actor : Rolling(x, "store") => roll[x].read \subseteq Entry
  BY DEF Rolling, JournalInv, JournalOK, Roll
<1>5. RollInv'
  BY <1>0, <1>2, <1>4 DEF JournalInv, RollInv, Rolling, Busy, Runs
<1>6. EntryKept'
  BY <1>0, <1>1, <1>2 DEF JournalInv, EntryKept
<1>7. QED
  BY <1>0, <1>3, <1>5, <1>6, SameTold DEF JournalInv, vars

LEMMA JournalKeeps ==
  ASSUME RestOK, JournalInv, SessionNext
  PROVE  JournalInv'
<1>1. CASE \E h \in Cli : BeginCommand(h) \/ CommandStep(h) \/ Kill(h)
  <2>1. PICK h \in Cli : BeginCommand(h) \/ CommandStep(h) \/ Kill(h)
    BY <1>1
  <2>2. CASE EndCommand(h) \/ GiveUp(h) \/ Kill(h)
    BY <2>2, GoneJournal DEF EndCommand, GiveUp, Kill, vars
  <2>3. CASE consolidateStaleDrafts(h)
    BY <2>3, BeginRollJournal
  <2>4. QED
    BY <2>1, <2>2, <2>3, BeginCommandJournal, CommandStepJournal DEF CommandStep
<1>2. CASE DayPasses
  <2>1. UNCHANGED <<pending, command, writer, drafts, rolled, roll, kept>> /\ old' = drafts
    BY <1>2 DEF DayPasses, vars
  <2>2. QED
    BY <2>1, SameTold
    DEF JournalInv, JournalOK, RollInv, EntryKept, Rolling, Busy, Runs
<1>3. QED
  BY <1>1, <1>2, ServerStepJournal, BeginRollJournal, RollStepJournal, AppendJournal
  DEF SessionNext

-----------------------------------------------------------------------------
Inv == WorkOK /\ KindInv /\ RestOK /\ LoopInv /\ LockInv /\ OwedInv /\ JournalInv

LEMMA Begins == SessionInit => Inv
<1> SUFFICES ASSUME SessionInit PROVE Inv
  OBVIOUS
<1> USE DEF SessionInit, Init
<1>1. WorkOK /\ KindInv
  BY BegunType DEF WorkOK, KindInv, Early
<1>2. RestOK
  BY LoopType DEF RestOK, NoLoop, Loop
<1>3. LoopInv
  BY DEF LoopInv, StopsWithPlugin, NoLoop, Server
<1>4. LockInv
  BY DEF LockInv, Names
<1>5. OwedInv
  BY DEF OwedInv, Server
<1>6. JournalInv
  BY SessionsAssumption
  DEF JournalInv, JournalOK, RollInv, EntryKept, TellInv, Rolling, Runs, Actor, Local
<1>7. QED
  BY <1>1, <1>2, <1>3, <1>4, <1>5, <1>6 DEF Inv

LEMMA Keeps == Inv /\ [SessionNext]_allVars => Inv'
<1>1. ASSUME Inv, SessionNext PROVE Inv'
  <2>1. WorkOK /\ KindInv /\ RestOK /\ LoopInv /\ LockInv /\ OwedInv /\ JournalInv
    BY <1>1 DEF Inv
  <2>2. Next \/ Outside
    BY <1>1, <2>1, SessionSteps
  <2>3. WorkOK' /\ KindInv' /\ RestOK'
    BY <2>1, <2>2, NextKeeps, OutsideKeeps
  <2>4. LoopInv' /\ LockInv' /\ OwedInv'
    BY <2>1, <2>2, LoopKeeps, LockKeeps, OwedKeeps
  <2>5. JournalInv'
    BY <1>1, <2>1, JournalKeeps
  <2>6. QED
    BY <2>3, <2>4, <2>5 DEF Inv
<1>2. ASSUME Inv, UNCHANGED allVars PROVE Inv'
  <2> USE <1>2 DEF Inv, allVars, vars, sessionVars
  <2>1. WorkOK' /\ KindInv' /\ RestOK'
    BY DEF WorkOK, KindInv, RestOK
  <2>2. LoopInv' /\ LockInv'
    BY DEF LoopInv, StopsWithPlugin, LockInv, Names, Holds
  <2>3. OwedInv'
    BY DEF OwedInv, Promised, Sends, WillPush
  <2>4. JournalInv'
    BY DEF JournalInv, JournalOK, RollInv, EntryKept, TellInv, Rolling, Told, Runs, Busy, Local
  <2>5. QED
    BY <2>1, <2>2, <2>3, <2>4
<1>3. QED
  BY <1>1, <1>2

\* All that the theorems say of a state and of a step.
LEMMA Always == SessionSpec => []Inv
  BY Begins, Keeps, PTL DEF SessionSpec

\* The entries and the roll-ups are well formed and no journal entry is lost,
\* whoever rolls it up, twice at once or while more is written, and whatever
\* ends in between (Consistent of Sessions).
THEOREM EntriesKept == SessionSpec => []Consistent
<1>1. Inv => Consistent
  BY TypeParts, SessionParts DEF Inv, JournalInv, Consistent
<1>2. QED
  BY <1>1, Always, PTL

\* What a tool of an MCP server has written before it returns has a push that is
\* scheduled, waiting or under way until one has sent it or failed.
THEOREM PushIsPrompt == SessionSpec => []PromptPush
<1>1. Inv => PromptPush
  BY DEF Inv, OwedInv, Promised, Sends, PromptPush
<1>2. QED
  BY <1>1, Always, PTL

\* A removed plugin keeps no timer, and a lock that names a living process is
\* held for a cycle that process is running.
THEOREM NothingIsLeft == SessionSpec => []NothingLeft
<1>1. Inv => NothingLeft
  BY LockParts DEF Inv, LoopInv, NothingLeft
<1>2. QED
  BY <1>1, Always, PTL

\* A server that exits within its budget has sent what its tools returned with,
\* or the push failed, except a push that runTracked no longer remembers.
THEOREM FlushIsSent == SessionSpec => FlushSent
<1>1. Inv /\ [SessionNext]_allVars
        => [\A p \in Mcp : Exit(p) => p \notin owed \/ Forgotten(p)]_vars
  <2> SUFFICES ASSUME Inv, NEW p \in Mcp, Exit(p), p \in owed PROVE Forgotten(p)
    OBVIOUS
  <2>1. host[p] = "flushing" /\ \A s \in Slot : ~work[p][s].awaited
    BY DEF Exit
  <2>2. PICK s \in Slot : Sends(p, s) /\ (work[p][s].awaited \/ s # inFlight[p])
    BY <2>1 DEF Inv, OwedInv, Promised
  <2>3. QED
    BY <2>1, <2>2 DEF Sends, WillPush, Forgotten
<1>2. QED
  BY <1>1, Always, PTL DEF SessionSpec, FlushSent

\* A command whose exit code tells of its push and that ends with success has
\* pushed what it wrote, except what a push that threw or was refused for good
\* left on this machine (ReleaseTold of Sessions).
THEOREM ReleaseIsTold == SessionSpec => ReleaseTold
<1>1. Inv /\ [SessionNext]_allVars
        => [\A h \in Cli : EndCommand(h) /\ command[h].tells /\ ~command[h].failed
              => h \notin pending \cup kept \/ command[h].swallowed]_allVars
  BY DEF Inv, JournalInv, TellInv, Told, EndCommand, Local
<1>2. QED
  BY <1>1, Always, PTL DEF SessionSpec, ReleaseTold
=============================================================================
