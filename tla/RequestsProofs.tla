--------------------------- MODULE RequestsProofs ---------------------------
(***************************************************************************)
(* Proofs about Requests, for any number of processes, calls, accounts,    *)
(* documents and faults: whose token a request bears, what is done under a *)
(* key, whom the rate limits serve, and what a pull brings.                *)
(***************************************************************************)
EXTENDS Requests, FiniteSetTheorems, WellFoundedInduction, TLAPS

Pc == {"idle", "token", "mint", "go", "open", "sent", "done", "failed"}
Bearing == {"go", "open", "sent"}

Client1 == [pc : Pc, at : Process \cup {None}, op : Operation \cup {None},
            part : 1 .. Len(Batches), try : 0 .. 1, tok : Token \cup {None}, gen : Nat,
            refused : Token \cup {None}, reused : BOOLEAN, resent : BOOLEAN,
            via : Call \cup {None}, sent : Sending \cup {None}, pull : Pull]
Process1 == [mem : Token \cup {None}, gen : Nat, who : User \cup {None}, minting : BOOLEAN,
             me : Name \cup {None}, session : Session \cup {None},
             opening : Opening \cup {None}]
PageType == [docs : SUBSET Doc, gone : SUBSET Doc, more : BOOLEAN, d : Position, x : Position]

-----------------------------------------------------------------------------
(* The limits *)

LimitOK ==
  /\ now \in Nat
  /\ bucket \in [User \X Class -> Bucket \cup {None}]
  /\ ideal \in [User \X Class -> Bucket]
  /\ \A k \in User \X Class : bucket[k] # None =>
       bucket[k].tokens \in 0 .. Burst[k[2]] /\ bucket[k].at <= now
  /\ \A k \in User \X Class : ideal[k].tokens \in 0 .. Burst[k[2]] /\ ideal[k].at <= now

\* A bucket that is there is the one that would be, and one that was dropped
\* would be full by now.
SweptInv ==
  \A k \in User \X Class :
    \/ bucket[k] = ideal[k]
    \/ bucket[k] = None /\ Level(ideal[k], k[2]) = Burst[k[2]]

\* More time refills no less.
LEMMA Refill ==
  ASSUME NEW a \in Nat, NEW b \in Nat, a <= b, NEW r \in Nat
  PROVE  a * r \in Nat /\ b * r \in Nat /\ a * r <= b * r
<1>1. b * r = a * r + (b - a) * r
  OBVIOUS
<1>2. (b - a) * r \in Nat /\ a * r \in Nat
  OBVIOUS
<1>3. QED
  BY <1>1, <1>2

\* A level lies between nothing and the burst; the tokens of a bucket are no
\* more than its level.
LEMMA LevelRange ==
  ASSUME NEW class \in Class, NEW b \in Bucket, b.tokens <= Burst[class],
         now \in Nat, b.at <= now
  PROVE  Level(b, class) \in 0 .. Burst[class]
<1>1. b # None /\ b.tokens \in Nat /\ b.at \in Nat /\ Burst[class] \in Nat /\ Rate[class] \in Nat
  BY NoneAssumption, RequestsAssumption DEF Bucket
<1>2. (now - b.at) * Rate[class] \in Nat
  BY <1>1, Refill
<1>3. QED
  BY <1>1, <1>2 DEF Level, Lesser

\* A draw leaves a well-formed bucket, and two buckets of one level alike.
LEMMA DrawnBucket ==
  ASSUME NEW class \in Class, NEW n \in Nat, NEW b \in Bucket \cup {None}, now \in Nat,
         b # None => b.tokens <= Burst[class] /\ b.at <= now
  PROVE  /\ Drawn(b, class, n) \in Bucket
         /\ Drawn(b, class, n).tokens \in 0 .. Burst[class]
         /\ Drawn(b, class, n).at = now
<1>1. Burst[class] \in Nat /\ Cost(class, n) \in Nat
  BY RequestsAssumption DEF Cost, Lesser
<1>2. Level(b, class) \in 0 .. Burst[class]
  <2>1. CASE b = None
    BY <2>1, <1>1 DEF Level
  <2>2. CASE b # None
    BY <2>2, LevelRange
  <2>3. QED
    BY <2>1, <2>2
<1> HIDE DEF Level, Cost
<1>3. QED
  BY <1>1, <1>2 DEF Drawn, Bucket

LEMMA TakeLimit ==
  ASSUME LimitOK, SweptInv, NEW user \in User, NEW class \in Class, NEW n \in Nat,
         Take(user, class, n), now' = now
  PROVE  LimitOK' /\ SweptInv'
<1> DEFINE k == <<user, class>>
<1>1. k \in User \X Class /\ k[2] = class
  OBVIOUS
<1>2. \A b \in {bucket[k], ideal[k]} :
        /\ Drawn(b, class, n) \in Bucket
        /\ Drawn(b, class, n).tokens \in 0 .. Burst[class]
        /\ Drawn(b, class, n).at = now
  <2>1. \A b \in {bucket[k], ideal[k]} :
          b \in Bucket \cup {None} /\ (b # None => b.tokens <= Burst[class] /\ b.at <= now)
    <3>1. Burst[class] \in Nat
      BY RequestsAssumption
    <3>2. ideal[k] \in Bucket /\ bucket[k] \in Bucket \cup {None}
      BY <1>1 DEF LimitOK
    <3>3. QED
      BY <1>1, <3>1, <3>2 DEF LimitOK
  <2>2. now \in Nat
    BY DEF LimitOK
  <2>3. QED
    BY <2>1, <2>2, DrawnBucket
<1>3. Drawn(bucket[k], class, n) = Drawn(ideal[k], class, n)
  <2>1. Level(bucket[k], class) = Level(ideal[k], class)
    BY <1>1 DEF SweptInv, Level
  <2>2. QED
    BY <2>1 DEF Drawn
<1>4. \A x \in User \X Class : x # k => bucket'[x] = bucket[x] /\ ideal'[x] = ideal[x]
  BY DEF Take, LimitOK
<1>5. bucket'[k] = Drawn(bucket[k], class, n) /\ ideal'[k] = Drawn(ideal[k], class, n)
  BY <1>1 DEF Take, LimitOK
<1>6. bucket' \in [User \X Class -> Bucket \cup {None}] /\ ideal' \in [User \X Class -> Bucket]
  BY <1>1, <1>2 DEF Take, LimitOK
<1> HIDE DEF k
<1>7. LimitOK'
  <2>1. \A x \in User \X Class : bucket'[x] # None =>
          bucket'[x].tokens \in 0 .. Burst[x[2]] /\ bucket'[x].at <= now
    <3> SUFFICES ASSUME NEW x \in User \X Class, bucket'[x] # None
                 PROVE  bucket'[x].tokens \in 0 .. Burst[x[2]] /\ bucket'[x].at <= now
      OBVIOUS
    <3>1. CASE x = k
      BY <3>1, <1>1, <1>2, <1>5 DEF LimitOK
    <3>2. CASE x # k
      BY <3>2, <1>4 DEF LimitOK
    <3>3. QED
      BY <3>1, <3>2
  <2>2. \A x \in User \X Class : ideal'[x].tokens \in 0 .. Burst[x[2]] /\ ideal'[x].at <= now
    <3> SUFFICES ASSUME NEW x \in User \X Class
                 PROVE  ideal'[x].tokens \in 0 .. Burst[x[2]] /\ ideal'[x].at <= now
      OBVIOUS
    <3>1. CASE x = k
      BY <3>1, <1>1, <1>2, <1>5 DEF LimitOK
    <3>2. CASE x # k
      BY <3>2, <1>4 DEF LimitOK
    <3>3. QED
      BY <3>1, <3>2
  <2>3. QED
    BY <2>1, <2>2, <1>6 DEF LimitOK
<1>8. SweptInv'
  <2> SUFFICES ASSUME NEW x \in User \X Class
               PROVE  \/ bucket'[x] = ideal'[x]
                      \/ bucket'[x] = None /\ Level(ideal[x], x[2])' = Burst[x[2]]
    BY DEF SweptInv
  <2>1. CASE x = k
    BY <2>1, <1>3, <1>5
  <2>2. CASE x # k
    BY <2>2, <1>4 DEF SweptInv, Level
  <2>3. QED
    BY <2>1, <2>2
<1>9. QED
  BY <1>7, <1>8

\* Time fills buckets, and drops none.
LEMMA TimeLimit ==
  ASSUME LimitOK, SweptInv, UNCHANGED <<bucket, ideal>>, now' \in Nat, now <= now'
  PROVE  LimitOK' /\ SweptInv'
<1>1. LimitOK'
  <2>1. \A k \in User \X Class : bucket[k] # None => bucket[k].at <= now'
    BY NoneAssumption DEF LimitOK, Bucket
  <2>2. \A k \in User \X Class : ideal[k].at <= now'
    BY DEF LimitOK, Bucket
  <2>3. QED
    BY <2>1, <2>2 DEF LimitOK
<1>2. ASSUME NEW k \in User \X Class, Level(ideal[k], k[2]) = Burst[k[2]]
      PROVE  Level(ideal[k], k[2])' = Burst[k[2]]
  <2> DEFINE b == ideal[k]  rate == Rate[k[2]]  burst == Burst[k[2]]
  <2>1. /\ b \in Bucket /\ b # None /\ b.tokens \in Nat /\ b.at \in Nat
        /\ b.at <= now /\ now \in Nat /\ rate \in Nat /\ burst \in Nat
    BY NoneAssumption, RequestsAssumption DEF LimitOK, Bucket
  <2>2. /\ (now - b.at) * rate \in Nat /\ (now' - b.at) * rate \in Nat
        /\ (now - b.at) * rate <= (now' - b.at) * rate
    BY <2>1, Refill
  <2>3. Level(b, k[2]) = Lesser(burst, b.tokens + (now - b.at) * rate)
    BY <2>1 DEF Level
  <2>4. Level(ideal[k], k[2])' = Lesser(burst, b.tokens + (now' - b.at) * rate)
    BY <2>1 DEF Level
  <2>5. Lesser(burst, b.tokens + (now - b.at) * rate) = burst
    BY <1>2, <2>3
  <2> HIDE DEF b, rate, burst
  <2>6. Lesser(burst, b.tokens + (now' - b.at) * rate) = burst
    BY <2>1, <2>2, <2>5 DEF Lesser
  <2>7. QED
    BY <2>4, <2>6 DEF burst
<1>3. SweptInv'
  BY <1>2 DEF SweptInv
<1>4. QED
  BY <1>1, <1>3

LEMMA SweepLimit ==
  ASSUME LimitOK, SweptInv, Sweep
  PROVE  LimitOK' /\ SweptInv'
<1>1. LimitOK'
  BY DEF Sweep, LimitOK
<1>2. ASSUME NEW k \in User \X Class, Swept(k)
      PROVE  Level(ideal[k], k[2]) = Burst[k[2]]
  <2> DEFINE b == ideal[k]  rate == Rate[k[2]]  burst == Burst[k[2]]
  <2>1. /\ b \in Bucket /\ b # None /\ b.tokens \in Nat /\ b.at \in Nat
        /\ b.at <= now /\ now \in Nat /\ rate \in Nat /\ burst \in Nat /\ MaxIdle \in Nat
        /\ burst <= rate * MaxIdle
    BY NoneAssumption, RequestsAssumption DEF LimitOK, Bucket
  <2>2. CASE bucket[k] = b
    <3>1. now - b.at > MaxIdle
      BY <1>2, <2>2 DEF Swept
    <3>2. MaxIdle * rate <= (now - b.at) * rate /\ (now - b.at) * rate \in Nat
      BY <2>1, <3>1, Refill
    <3>3. MaxIdle * rate = rate * MaxIdle
      BY <2>1
    <3>4. Level(b, k[2]) = Lesser(burst, b.tokens + (now - b.at) * rate)
      BY <2>1 DEF Level
    <3> HIDE DEF b, rate, burst
    <3>5. Lesser(burst, b.tokens + (now - b.at) * rate) = burst
      BY <2>1, <3>2, <3>3 DEF Lesser
    <3>6. QED
      BY <3>4, <3>5 DEF b, burst
  <2>3. CASE bucket[k] # b
    BY <2>3, <1>2 DEF SweptInv, Swept
  <2>4. QED
    BY <2>2, <2>3
<1>3. \A k \in User \X Class : Level(ideal[k], k[2])' = Level(ideal[k], k[2])
  BY DEF Sweep, Level
<1>4. SweptInv'
  BY <1>2, <1>3 DEF Sweep, SweptInv
<1>5. QED
  BY <1>1, <1>4

LEMMA SweptLevel == LimitOK /\ SweptInv => SweepUnseen
  BY DEF SweptInv, SweepUnseen, Level, LimitOK

-----------------------------------------------------------------------------
(* The calls, the processes and their tokens *)

CallOK(c, k) ==
  /\ k \in Client1
  /\ k.pull.page <= MaxPages
  /\ k.pc # "idle" => k.at \in Process /\ k.op \in Operation
  /\ k.pc \in Bearing => k.tok \in Token
  /\ k.pc = "sent" => k.sent # None /\ k.sent.tok = k.tok
  /\ k.sent # None => /\ k.sent.call = c /\ k.sent.op = k.op /\ k.sent.stage = "sent"
                      /\ k.sent.tok = k.sent.asked
  /\ k.refused # None => k.pc \in {"token", "mint"} \cup Bearing

\* A call's token is of its process's account while the generation is; the
\* one it was refused is neither in the process's memory nor in the file.
CallWith(k, P, f, minted) ==
  /\ k.pc \in Bearing => k.gen <= P.gen /\ (k.gen = P.gen => k.tok.user = P.who)
  /\ k.tok # None => k.tok.n <= minted
  /\ k.refused # None =>
       /\ k.refused.n <= minted /\ P.mem # k.refused /\ f # k.refused
       /\ k.pc \in Bearing => k.tok # k.refused

\* The account is that of the token in memory, and of a name asked for in this
\* generation.
ProcOK(P, minted) ==
  /\ P \in Process1
  /\ P.mem # None => P.mem.n <= minted /\ P.mem.user = P.who
  /\ P.me # None => P.me.gen <= P.gen /\ (P.me.gen = P.gen /\ ~P.me.late => P.me.user = P.who)

Minted == [minted : Nat, account : User, printed : SUBSET Token, lapsed : SUBSET Nat,
           revoked : SUBSET Nat]

TokenInv ==
  /\ tokens \in Minted
  /\ proc \in [Process -> Process1] /\ \A p \in Process : ProcOK(proc[p], tokens.minted)
  /\ file \in Token \cup {None} /\ (file # None => file.n <= tokens.minted)
  /\ call \in [Call -> Client1] /\ \A c \in Call : CallOK(c, call[c])
  /\ \A c \in Call : call[c].pc # "idle" =>
       CallWith(call[c], proc[call[c].at], file, tokens.minted)
  /\ net \subseteq Sending /\ OwnToken
  /\ sessions \in [opened : Nat, ended : SUBSET Nat]

\* A session is opened for a call that waits for it, and for the calls that
\* joined: all of one process and with its token.
OpenInv ==
  /\ opens \subseteq Opening
  /\ \A o \in opens : call[o.by].pc = "open" /\ call[o.by].via = o.by
  /\ \A o, x \in opens : o.by = x.by => o = x
  /\ \A o \in opens : \A c \in OpenedFor(o) : call[c].tok = o.tok /\ call[c].at = o.at
  /\ \A c \in Call : call[c].pc = "open" => \E o \in opens : o.by = call[c].via
  /\ \A p \in Process : proc[p].opening # None => proc[p].opening \in opens /\ proc[p].opening.at = p

\* What may happen to a process and to the file beside a call: a token that
\* comes in was in the file or is new.
Later(P, Q, f, minted) ==
  /\ P.gen <= Q.gen /\ (P.gen = Q.gen => P.who = Q.who)
  /\ Q.mem \in {P.mem, None, f} \/ Q.mem.n > minted
LaterFile(f, g, minted) == g \in {f, None} \/ g.n > minted

LEMMA Nones ==
  /\ None \notin Process /\ None \notin User /\ None \notin Call /\ None \notin Operation
  /\ None \notin Token /\ None \notin Bucket /\ None \notin Name /\ None \notin Session
  /\ None \notin Opening /\ None \notin Sending
  BY NoneAssumption

LEMMA CallLater ==
  ASSUME NEW k \in Client1, NEW P \in Process1, NEW Q \in Process1, NEW f, NEW g,
         NEW m \in Nat, NEW m2 \in Nat, m <= m2,
         CallWith(k, P, f, m), Later(P, Q, f, m), LaterFile(f, g, m)
  PROVE  CallWith(k, Q, g, m2)
<1>1. /\ k.gen \in Nat /\ P.gen \in Nat /\ Q.gen \in Nat
      /\ k.tok \in Token \cup {None} /\ k.refused \in Token \cup {None}
  BY DEF Client1, Process1
<1>2. k.pc \in Bearing => k.gen <= Q.gen /\ (k.gen = Q.gen => k.tok.user = Q.who)
  BY <1>1 DEF CallWith, Later
<1>3. k.tok # None => k.tok.n <= m2
  BY <1>1 DEF CallWith, Token
<1>4. ASSUME k.refused # None
      PROVE  /\ k.refused.n <= m2 /\ Q.mem # k.refused /\ g # k.refused
             /\ k.pc \in Bearing => k.tok # k.refused
  <2>1. k.refused.n \in Nat /\ k.refused.n <= m
    BY <1>1, <1>4 DEF CallWith, Token
  <2>2. Q.mem # k.refused /\ g # k.refused
    BY <2>1, <1>4 DEF CallWith, Later, LaterFile
  <2>3. QED
    BY <2>1, <2>2, <1>4 DEF CallWith
<1>5. QED
  BY <1>2, <1>3, <1>4 DEF CallWith

\* How the invariant is kept: the calls that change are looked at one by one.
LEMMA TokenStep ==
  ASSUME TokenInv, tokens' \in Minted, tokens.minted <= tokens'.minted,
         proc' \in [Process -> Process1],
         \A p \in Process : proc'[p] = proc[p] \/
           (ProcOK(proc'[p], tokens'.minted) /\ Later(proc[p], proc'[p], file, tokens.minted)),
         file' = file \/ (/\ file' \in Token \cup {None}
                          /\ LaterFile(file, file', tokens.minted)
                          /\ file' # None => file'.n <= tokens'.minted),
         call' \in [Call -> Client1],
         \A c \in Call : call'[c] = call[c] \/
           (/\ CallOK(c, call'[c])
            /\ call'[c].pc # "idle" =>
                 CallWith(call'[c], proc'[call'[c].at], file', tokens'.minted)),
         net' \subseteq Sending, \A r \in net' : r \in net \/ r.tok = r.asked,
         sessions' \in [opened : Nat, ended : SUBSET Nat]
  PROVE  TokenInv'
<1> DEFINE m == tokens.minted  n == tokens'.minted
<1>1. m \in Nat /\ n \in Nat /\ m <= n
  BY DEF TokenInv, Minted
<1>2. \A p \in Process : ProcOK(proc'[p], n) /\ Later(proc[p], proc'[p], file, m)
  <2> SUFFICES ASSUME NEW p \in Process, proc'[p] = proc[p]
               PROVE  ProcOK(proc'[p], n) /\ Later(proc[p], proc'[p], file, m)
    OBVIOUS
  <2>1. ProcOK(proc[p], m) /\ proc[p] \in Process1
    BY DEF TokenInv
  <2>2. proc[p].mem \in Token \cup {None} /\ proc[p].gen \in Nat
    BY <2>1 DEF Process1
  <2>3. QED
    BY <1>1, <2>1, <2>2 DEF ProcOK, Later, Token
<1>3. /\ file' \in Token \cup {None} /\ (file' # None => file'.n <= n)
      /\ LaterFile(file, file', m)
  <2>1. file \in Token \cup {None} /\ (file # None => file.n <= m)
    BY DEF TokenInv
  <2>2. QED
    BY <1>1, <2>1 DEF LaterFile, Token
<1>4. \A c \in Call : CallOK(c, call'[c])
  BY DEF TokenInv
<1>5. ASSUME NEW c \in Call, call'[c].pc # "idle"
      PROVE  CallWith(call'[c], proc'[call'[c].at], file', n)
  <2> SUFFICES ASSUME call'[c] = call[c]
               PROVE  CallWith(call'[c], proc'[call'[c].at], file', n)
    BY <1>5
  <2>1. call[c].at \in Process /\ call[c] \in Client1
    BY <1>5 DEF TokenInv, CallOK
  <2>2. CallWith(call[c], proc[call[c].at], file, m)
    BY <1>5 DEF TokenInv
  <2>3. proc[call[c].at] \in Process1 /\ proc'[call[c].at] \in Process1
    BY <2>1 DEF TokenInv
  <2> HIDE DEF m, n
  <2>4. QED
    BY <1>1, <1>2, <1>3, <2>1, <2>2, <2>3, CallLater
<1>6. OwnToken'
  BY DEF TokenInv, OwnToken
<1>7. QED
  BY <1>2, <1>3, <1>4, <1>5, <1>6 DEF TokenInv

LEMMA OpenStep ==
  ASSUME OpenInv, UNCHANGED opens,
         \A p \in Process : proc'[p].opening \in {proc[p].opening, None},
         \A c \in Call : call'[c] = call[c] \/ (call[c].pc # "open" /\ call'[c].pc # "open")
  PROVE  OpenInv'
<1>1. \A o \in opens : o.by \in Call
  BY DEF OpenInv, Opening
<1>2. \A o \in opens : call'[o.by].pc = "open" /\ call'[o.by].via = o.by
  BY <1>1 DEF OpenInv
<1>3. \A o \in opens : OpenedFor(o)' = OpenedFor(o) /\ \A c \in OpenedFor(o) : call'[c] = call[c]
  BY DEF OpenedFor
<1>4. \A o \in opens' : \A c \in OpenedFor(o)' : call'[c].tok = o.tok /\ call'[c].at = o.at
  BY <1>3 DEF OpenInv
<1>5. \A p \in Process : proc'[p].opening # None => proc'[p].opening \in opens /\ proc'[p].opening.at = p
  BY DEF OpenInv
<1>6. \A c \in Call : call'[c].pc = "open" => \E o \in opens : o.by = call'[c].via
  BY DEF OpenInv
<1>7. QED
  BY <1>2, <1>4, <1>5, <1>6 DEF OpenInv

-----------------------------------------------------------------------------
(* What an answer makes of a call *)

LEMMA PagesType ==
  /\ NoPull \in Pull /\ NoPage \in PageType /\ NoPull.page = 0
  /\ Position # {} /\ 1 \in 1 .. Len(Batches) /\ MaxPages \in Nat
  /\ \A n \in 1 .. Len(Batches) : Batches[n] \subseteq Doc
<1>1. Batches \in Seq(SUBSET Doc) /\ Len(Batches) \in Nat /\ Len(Batches) # 0 /\ MaxPages \in Nat
  BY RequestsAssumption
<1>2. [t |-> 0, id |-> 0] \in Position
  BY DEF Position
<1>3. NoPull \in Pull /\ NoPage \in PageType /\ NoPull.page = 0
  BY <1>2 DEF NoPull, NoPage, Pull, PageType
<1>4. QED
  BY <1>1, <1>2, <1>3

LEMMA NoCallOK ==
  NoCall \in Client1 /\ NoCall.pc = "idle" /\ \A c \in Call : CallOK(c, NoCall)
<1>1. NoCall \in Client1
  BY PagesType DEF NoCall, Client1, Pc
<1>2. /\ NoCall.pc = "idle" /\ NoCall.sent = None /\ NoCall.refused = None
      /\ NoCall.pull = NoPull
  BY DEF NoCall
<1>3. NoCall.pull.page <= MaxPages
  BY <1>2, PagesType
<1>4. QED
  BY <1>1, <1>2, <1>3 DEF CallOK, Bearing

\* A call that is over.
Ended(k, d) ==
  /\ d.pc \in {"done", "failed"} /\ d.at = k.at /\ d.op = k.op
  /\ d.tok = None /\ d.refused = None /\ d.sent \in {k.sent, None} /\ d.pull.page = 0

LEMMA OverCall ==
  ASSUME NEW k \in Client1, NEW e \in {"done", "failed"}, NEW o \in BOOLEAN
  PROVE  Over(k, e) \in Client1 /\ Ended(k, Over(k, e)) /\ Over(k, e).pc = e
<1> DEFINE p == [NoPull EXCEPT !.cut = k.pull.cut]
           s == IF k.op.idempotent THEN k.sent ELSE None
           d == [pc |-> e, at |-> k.at, op |-> k.op, part |-> 1, try |-> 0, tok |-> None,
                 gen |-> 0, refused |-> None, reused |-> FALSE, resent |-> FALSE,
                 via |-> None, sent |-> s, pull |-> p]
<1>1. Over(k, e) = d
  <2>1. Over(k, e) = [NoCall EXCEPT !.pc = e, !.at = k.at, !.op = k.op,
                                    !.pull.cut = k.pull.cut, !.sent = s]
    BY DEF Over
  <2>2. [NoCall EXCEPT !.pc = e, !.at = k.at, !.op = k.op,
                       !.pull.cut = k.pull.cut, !.sent = s]
        = [NoCall EXCEPT !.pc = e, !.at = k.at, !.op = k.op, !.pull = p, !.sent = s]
    BY DEF NoCall
  <2> HIDE DEF p, s
  <2>3. QED
    BY <2>1, <2>2 DEF NoCall
<1>2. k.at \in Process \cup {None} /\ k.op \in Operation \cup {None}
      /\ k.sent \in Sending \cup {None} /\ k.pull \in Pull
  BY DEF Client1
<1>3. p \in Pull /\ p.page = 0
  BY <1>2, PagesType DEF Pull
<1>4. s \in {k.sent, None}
  OBVIOUS
<1> HIDE DEF p, s
<1>5. d \in Client1
  BY <1>2, <1>3, <1>4, PagesType DEF Client1, Pc
<1>6. QED
  BY <1>1, <1>3, <1>4, <1>5 DEF Ended

LEMMA OverOK ==
  ASSUME NEW c \in Call, NEW k, CallOK(c, k), k.pc # "idle", NEW e \in {"done", "failed"}
  PROVE  /\ CallOK(c, Over(k, e)) /\ Over(k, e).pc = e /\ Over(k, e) \in Client1
         /\ \A P, f, m : CallWith(Over(k, e), P, f, m)
<1>1. k \in Client1
  BY DEF CallOK
<1>2. Over(k, e) \in Client1 /\ Ended(k, Over(k, e)) /\ Over(k, e).pc = e
  BY <1>1, OverCall
<1>3. CallOK(c, Over(k, e))
  <2>1. 0 <= MaxPages
    BY PagesType
  <2>2. QED
    BY <1>2, <2>1 DEF CallOK, Ended, Bearing
<1>4. \A P, f, m : CallWith(Over(k, e), P, f, m)
  BY <1>2 DEF CallWith, Ended, Bearing
<1>5. QED
  BY <1>2, <1>3, <1>4

\* A call that asks for a token again, of a page or a part further on or for
\* its second attempt.
Again(k, d) ==
  /\ d.pc = "token" /\ d.at = k.at /\ d.op = k.op /\ d.tok = k.tok /\ d.sent = k.sent
  /\ d.refused \in {None, k.tok}

LEMMA NextPartCall ==
  ASSUME NEW k \in Client1
  PROVE  /\ NextPart(k) \in Client1 /\ Again(k, NextPart(k))
         /\ NextPart(k).refused = None /\ NextPart(k).pull = k.pull
<1> DEFINE d == [k EXCEPT !.pc = "token", !.try = 0, !.refused = None, !.resent = FALSE]
<1>1. NextPart(k) = d
  BY DEF NextPart
<1>2. d \in Client1
  <2>1. 0 \in 0 .. 1 /\ "token" \in Pc /\ FALSE \in BOOLEAN
    BY DEF Pc
  <2>2. QED
    BY <2>1 DEF Client1
<1>3. /\ d.pc = "token" /\ d.at = k.at /\ d.op = k.op /\ d.tok = k.tok /\ d.sent = k.sent
      /\ d.refused = None /\ d.pull = k.pull
  BY DEF Client1
<1>4. QED
  BY <1>1, <1>2, <1>3 DEF Again

LEMMA TurnedCall ==
  ASSUME NEW c \in Call, NEW k, CallOK(c, k), k.pc = "sent", NEW page \in PageType
  PROVE  LET d == Turned(k, page) IN
         \/ \E j \in {[k EXCEPT !.pull.cut = TRUE], [k EXCEPT !.pull.cut = FALSE]} :
              j \in Client1 /\ d = Over(j, "done")
         \/ /\ d \in Client1 /\ Again(k, d) /\ d.refused = None /\ d.pull.page <= MaxPages
<1> DEFINE pl == k.pull
           turned == [pl EXCEPT !.d = page.d, !.x = page.x, !.page = pl.page + 1,
                                !.seen = pl.seen \cup page.docs]
           on == page.more /\ (page.d # pl.d \/ page.x # pl.x \/ pl.page = 0)
           further == [k EXCEPT !.pull = turned]
<1>1. k \in Client1 /\ pl \in Pull
  BY DEF CallOK, Client1
<1>2. turned \in Pull /\ turned.page = pl.page + 1
  <2>1. pl.page + 1 \in Nat /\ page.d \in Position /\ page.x \in Position
        /\ pl.seen \cup page.docs \in SUBSET Doc
    BY <1>1 DEF Pull, PageType
  <2>2. QED
    BY <1>1, <2>1 DEF Pull
<1>3. on \in BOOLEAN
  OBVIOUS
<1>4. \A b \in BOOLEAN : [k EXCEPT !.pull.cut = b] \in Client1
  BY <1>1 DEF Client1, Pull
<1>5. further \in Client1 /\ further.pull = turned /\ Again(k, NextPart(further))
  <2> HIDE DEF turned
  <2>1. further \in Client1 /\ further.pull = turned
    BY <1>1, <1>2 DEF Client1
  <2>2. /\ further.at = k.at /\ further.op = k.op /\ further.tok = k.tok /\ further.sent = k.sent
    BY <1>1 DEF Client1
  <2>3. Again(further, NextPart(further)) /\ NextPart(further).refused = None
    BY <2>1, NextPartCall
  <2>4. QED
    BY <2>1, <2>2, <2>3 DEF Again
<1>6. Turned(k, page) = IF on /\ turned.page < MaxPages THEN NextPart(further)
                        ELSE Over([k EXCEPT !.pull.cut = on], "done")
  BY DEF Turned
<1>7. turned.page \in Nat
  BY <1>2 DEF Pull
<1> HIDE DEF on, turned, further
<1>8. CASE on /\ turned.page < MaxPages
  <2>1. NextPart(further) \in Client1 /\ NextPart(further).refused = None
        /\ NextPart(further).pull = turned
    BY <1>5, NextPartCall
  <2>2. QED
    BY <2>1, <1>5, <1>6, <1>7, <1>8, PagesType
<1>9. CASE ~(on /\ turned.page < MaxPages)
  <2>1. [k EXCEPT !.pull.cut = on] \in {[k EXCEPT !.pull.cut = TRUE], [k EXCEPT !.pull.cut = FALSE]}
    BY <1>3
  <2>2. QED
    BY <2>1, <1>3, <1>4, <1>6, <1>9
<1>10. QED
  BY <1>8, <1>9

LEMMA AgainOK ==
  ASSUME NEW c \in Call, NEW k, CallOK(c, k), k.pc = "sent",
         NEW d \in Client1, Again(k, d), d.pull.page <= MaxPages
  PROVE  CallOK(c, d)
  BY DEF CallOK, Again, Bearing

\* A call that connects once more, with the token it has.
Resent(k, d) ==
  /\ d.pc = "go" /\ d.at = k.at /\ d.tok = k.tok /\ d.gen = k.gen /\ d.refused = k.refused
  /\ d.op = k.op /\ d.pull = k.pull

LEMMA ExpiredCall ==
  ASSUME NEW c \in Call, NEW k, CallOK(c, k), k.pc = "sent"
  PROVE  LET d == Expired(k) IN
         \/ \E e \in {"done", "failed"} : d = Over(k, e)
         \/ CallOK(c, d) /\ Resent(k, d)
<1> DEFINE d == [k EXCEPT !.pc = "go", !.resent = TRUE]
<1>1. k \in Client1
  BY DEF CallOK
<1>2. d \in Client1
  <2>1. "go" \in Pc /\ TRUE \in BOOLEAN
    BY DEF Pc
  <2>2. QED
    BY <1>1, <2>1 DEF Client1
<1>3. /\ d.pc = "go" /\ d.at = k.at /\ d.tok = k.tok /\ d.gen = k.gen /\ d.refused = k.refused
      /\ d.op = k.op /\ d.sent = k.sent /\ d.pull = k.pull
  BY <1>1 DEF Client1
<1>4. Expired(k) = d \/ \E e \in {"done", "failed"} : Expired(k) = Over(k, e)
  BY DEF Expired
<1> HIDE DEF d
<1>5. CallOK(c, d) /\ Resent(k, d)
  BY <1>2, <1>3 DEF CallOK, Resent, Bearing
<1>6. QED
  BY <1>4, <1>5

LEMMA RejectedCall ==
  ASSUME NEW c \in Call, NEW k, CallOK(c, k), k.pc \in {"sent", "open"}
  PROVE  LET d == Rejected(k) IN
         \/ d = Over(k, "failed")
         \/ d \in Client1 /\ Again(k, d) /\ d.pull = k.pull /\ d.refused = k.tok /\ k.try = 0
<1> DEFINE d == [k EXCEPT !.pc = "token", !.try = 1, !.refused = k.tok, !.resent = FALSE]
<1>1. k \in Client1
  BY DEF CallOK
<1>2. d \in Client1
  <2>1. "token" \in Pc /\ FALSE \in BOOLEAN /\ 1 \in 0 .. 1 /\ k.tok \in Token \cup {None}
    BY <1>1 DEF Pc, Client1
  <2>2. QED
    BY <1>1, <2>1 DEF Client1
<1>3. /\ d.pc = "token" /\ d.at = k.at /\ d.op = k.op /\ d.tok = k.tok /\ d.sent = k.sent
      /\ d.refused = k.tok /\ d.pull = k.pull
  BY <1>1 DEF Client1
<1>4. Rejected(k) = IF k.try = 0 THEN d ELSE Over(k, "failed")
  BY DEF Rejected
<1> HIDE DEF d
<1>5. QED
  BY <1>2, <1>3, <1>4 DEF Again

LEMMA AnsweredCall ==
  ASSUME NEW c \in Call, NEW k, CallOK(c, k), k.pc = "sent", NEW page \in PageType
  PROVE  LET d == Answered(k, page) IN
         \/ \E j \in {k, [k EXCEPT !.pull.cut = TRUE], [k EXCEPT !.pull.cut = FALSE]} :
              j \in Client1 /\ d = Over(j, "done")
         \/ d \in Client1 /\ Again(k, d) /\ d.refused = None /\ d.pull.page <= MaxPages
<1>1. k \in Client1 /\ k.pull.page <= MaxPages
  BY DEF CallOK
<1>2. CASE k.op.how = "pages"
  <2>1. Answered(k, page) = Turned(k, page)
    BY <1>2 DEF Answered
  <2>2. QED
    BY <2>1, TurnedCall
<1>3. CASE k.op.how # "pages" /\ k.op.how = "chunks" /\ k.part < Len(Batches)
  <2> DEFINE j == [k EXCEPT !.part = k.part + 1]
  <2>1. Answered(k, page) = NextPart(j)
    BY <1>3 DEF Answered
  <2>2. k.part + 1 \in 1 .. Len(Batches)
    <3>1. Len(Batches) \in Nat
      BY RequestsAssumption
    <3>2. QED
      BY <1>1, <1>3, <3>1 DEF Client1
  <2>3. j \in Client1
    BY <1>1, <2>2 DEF Client1
  <2>4. j.at = k.at /\ j.op = k.op /\ j.tok = k.tok /\ j.sent = k.sent /\ j.pull = k.pull
    BY <1>1 DEF Client1
  <2> HIDE DEF j
  <2>5. NextPart(j) \in Client1 /\ Again(j, NextPart(j)) /\ NextPart(j).refused = None
        /\ NextPart(j).pull = k.pull
    BY <2>3, <2>4, NextPartCall
  <2>6. QED
    BY <1>1, <2>1, <2>4, <2>5 DEF Again
<1>4. CASE k.op.how # "pages" /\ ~(k.op.how = "chunks" /\ k.part < Len(Batches))
  BY <1>1, <1>4 DEF Answered
<1>5. QED
  BY <1>2, <1>3, <1>4

\* An answer ends the call, sends it for a token again or lets it connect again.
LEMMA HeardCall ==
  ASSUME NEW c \in Call, NEW k, CallOK(c, k), k.pc = "sent", NEW status, NEW page \in PageType
  PROVE  LET d == Heard(k, status, page) IN
         /\ CallOK(c, d) /\ d \in Client1
         /\ \/ Ended(k, d)
            \/ /\ Again(k, d)
               /\ d.refused = None \/ (d.refused = k.tok /\ status = "unauthenticated" /\ k.try = 0)
            \/ Resent(k, d)
<1> DEFINE d == Heard(k, status, page)
<1>1. k \in Client1 /\ k.pull.page <= MaxPages
  BY DEF CallOK
<1>2. \A e \in {"done", "failed"} :
        CallOK(c, Over(k, e)) /\ Over(k, e) \in Client1 /\ Ended(k, Over(k, e))
  BY <1>1, OverOK, OverCall
<1>3. ASSUME NEW j \in {[k EXCEPT !.pull.cut = TRUE], [k EXCEPT !.pull.cut = FALSE]},
             j \in Client1
      PROVE  CallOK(c, Over(j, "done")) /\ Over(j, "done") \in Client1 /\ Ended(k, Over(j, "done"))
  <2>1. j.at = k.at /\ j.op = k.op /\ j.sent = k.sent
    BY <1>1 DEF Client1
  <2>2. Over(j, "done") \in Client1 /\ Ended(j, Over(j, "done"))
    BY <1>3, OverCall
  <2>3. Ended(k, Over(j, "done"))
    BY <2>1, <2>2 DEF Ended
  <2>4. CallOK(c, Over(j, "done"))
    <3>1. 0 <= MaxPages
      BY PagesType
    <3>2. QED
      BY <2>2, <2>3, <3>1 DEF CallOK, Ended, Bearing
  <2>5. QED
    BY <2>2, <2>3, <2>4
<1>4. CASE status = "ok"
  <2>1. d = Answered(k, page)
    BY <1>4 DEF Heard
  <2>2. QED
    BY <1>2, <1>3, <2>1, AnsweredCall, AgainOK
<1>5. CASE status = "unauthenticated"
  <2>1. d = Rejected(k)
    BY <1>5 DEF Heard
  <2>2. QED
    BY <1>1, <1>2, <1>5, <2>1, RejectedCall, AgainOK
<1>6. CASE status = "expired"
  <2>1. d = Expired(k)
    BY <1>6 DEF Heard
  <2>2. QED
    BY <1>2, <2>1, ExpiredCall DEF CallOK
<1>7. CASE status \notin {"ok", "unauthenticated", "expired"}
  <2>1. d = Over(k, "failed")
    BY <1>7 DEF Heard
  <2>2. QED
    BY <1>2, <2>1
<1>8. QED
  BY <1>4, <1>5, <1>6, <1>7

LEMMA HeardOK ==
  ASSUME NEW c \in Call, NEW k, CallOK(c, k), k.pc = "sent", NEW status, NEW page \in PageType,
         NEW P \in Process1, NEW Q \in Process1, NEW f, NEW g, NEW m \in Nat,
         CallWith(k, P, f, m), Later(P, Q, f, m), LaterFile(f, g, m),
         status = "unauthenticated" /\ k.try = 0 => Q.mem = None /\ g = None
  PROVE  /\ CallOK(c, Heard(k, status, page)) /\ Heard(k, status, page) \in Client1
         /\ CallWith(Heard(k, status, page), Q, g, m)
         /\ Heard(k, status, page).at = k.at /\ Heard(k, status, page).pc # "open"
         /\ Heard(k, status, page).pc # "idle"
<1> DEFINE d == Heard(k, status, page)
<1>1. /\ CallOK(c, d) /\ d \in Client1
      /\ \/ Ended(k, d)
         \/ /\ Again(k, d)
            /\ d.refused = None \/ (d.refused = k.tok /\ status = "unauthenticated" /\ k.try = 0)
         \/ Resent(k, d)
  BY HeardCall
<1>2. CallWith(k, Q, g, m)
  BY CallLater DEF CallOK
<1>3. k.tok \in Token
  BY DEF CallOK, Bearing
<1> SUFFICES CallWith(d, Q, g, m) /\ d.at = k.at /\ d.pc # "open" /\ d.pc # "idle"
  BY <1>1
<1> HIDE DEF d
<1>4. CASE Ended(k, d)
  BY <1>4, <1>1 DEF Ended, CallWith, Bearing
<1>5. CASE /\ Again(k, d)
           /\ d.refused = None \/ (d.refused = k.tok /\ status = "unauthenticated" /\ k.try = 0)
  BY <1>5, <1>1, <1>2, <1>3, Nones DEF Again, CallWith, Bearing
<1>6. CASE Resent(k, d)
  BY <1>6, <1>1, <1>2 DEF Resent, CallWith, Bearing
<1>7. QED
  BY <1>1, <1>4, <1>5, <1>6

-----------------------------------------------------------------------------
(* What an answer changes in the process *)

LEMMA WithoutSessionOK ==
  ASSUME NEW P \in Process1, NEW k
  PROVE  LET Q == WithoutSession(P, k) IN
         /\ Q \in Process1
         /\ Q.mem = P.mem /\ Q.gen = P.gen /\ Q.who = P.who /\ Q.me = P.me
         /\ Q.opening = P.opening /\ Q.minting = P.minting
<1> DEFINE Q == [P EXCEPT !.session = None]
<1>1. Q \in Process1
  BY DEF Process1
<1>2. /\ Q.mem = P.mem /\ Q.gen = P.gen /\ Q.who = P.who /\ Q.me = P.me
      /\ Q.opening = P.opening /\ Q.minting = P.minting
  BY DEF Process1
<1>3. WithoutSession(P, k) \in {P, Q}
  BY DEF WithoutSession
<1> HIDE DEF Q
<1>4. QED
  BY <1>1, <1>2, <1>3

LEMMA SettledOK ==
  ASSUME NEW c \in Call, NEW k, CallOK(c, k), k.pc = "sent", NEW status,
         NEW P \in Process1, NEW f, NEW m \in Nat, ProcOK(P, m), CallWith(k, P, f, m)
  PROVE  LET Q == Settled(P, k, status) IN
         /\ ProcOK(Q, m) /\ Q \in Process1 /\ Later(P, Q, f, m)
         /\ Q.opening = P.opening
         /\ status = "unauthenticated" /\ k.try = 0 => Q.mem = None
<1>1. /\ P.mem \in Token \cup {None} /\ P.gen \in Nat /\ P.who \in User \cup {None}
      /\ k.gen \in Nat /\ k.tok \in Token /\ k.sent # None /\ k.sent.tok = k.tok
      /\ k.tok.user \in User
  BY DEF Process1, CallOK, Client1, Bearing, Token
<1>2. CASE status = "ok" /\ k.op.how \in {"me", "sign in"}
  <2> DEFINE name == [user |-> k.sent.tok.user, gen |-> P.gen, late |-> k.gen # P.gen]
             Q == [P EXCEPT !.me = name]
  <2>1. Settled(P, k, status) = Q
    BY <1>2 DEF Settled
  <2>2. name \in Name /\ name.gen = P.gen /\ name.user = k.tok.user /\ (name.late <=> k.gen # P.gen)
    <3>1. (k.gen # P.gen) \in BOOLEAN
      OBVIOUS
    <3>2. name \in Name
      BY <1>1, <3>1 DEF Name
    <3>3. name.gen = P.gen /\ name.user = k.tok.user
      BY <1>1
    <3>4. name.late <=> k.gen # P.gen
      BY Zenon
    <3>5. QED
      BY <3>2, <3>3, <3>4
  <2> HIDE DEF name
  <2>3. /\ Q \in Process1 /\ Q.mem = P.mem /\ Q.gen = P.gen /\ Q.who = P.who
        /\ Q.me = name /\ Q.opening = P.opening
    BY <2>2 DEF Process1
  <2>4. ~name.late => k.tok.user = P.who
    BY <2>2 DEF CallWith, Bearing
  <2> HIDE DEF Q
  <2>5. ProcOK(Q, m)
    BY <1>1, <2>2, <2>3, <2>4 DEF ProcOK
  <2>6. Later(P, Q, f, m)
    BY <1>1, <2>3 DEF Later
  <2>7. QED
    BY <1>2, <2>1, <2>3, <2>5, <2>6
<1>3. CASE status = "unauthenticated"
  <2> DEFINE R == WithoutSession(P, k)
             Q == [R EXCEPT !.mem = IF k.try = 0 THEN None ELSE R.mem]
  <2>1. Settled(P, k, status) = Q
    BY <1>3 DEF Settled
  <2>2. /\ R \in Process1 /\ R.mem = P.mem /\ R.gen = P.gen /\ R.who = P.who /\ R.me = P.me
        /\ R.opening = P.opening
    BY WithoutSessionOK
  <2> HIDE DEF R
  <2>3. /\ Q \in Process1 /\ Q.mem \in {P.mem, None} /\ (k.try = 0 => Q.mem = None)
        /\ Q.gen = P.gen /\ Q.who = P.who /\ Q.me = P.me /\ Q.opening = P.opening
    BY <2>2 DEF Process1
  <2> HIDE DEF Q
  <2>4. ProcOK(Q, m) /\ Later(P, Q, f, m)
    BY <1>1, <2>3 DEF ProcOK, Later
  <2>5. QED
    BY <2>1, <2>3, <2>4
<1>4. CASE ~(status = "ok" /\ k.op.how \in {"me", "sign in"}) /\ status # "unauthenticated"
  <2>1. Settled(P, k, status) \in {P, WithoutSession(P, k)}
    BY <1>4 DEF Settled
  <2>2. PICK Q : Q = Settled(P, k, status)
    OBVIOUS
  <2>3. /\ Q \in Process1 /\ Q.mem = P.mem /\ Q.gen = P.gen /\ Q.who = P.who /\ Q.me = P.me
        /\ Q.opening = P.opening
    BY <2>1, <2>2, WithoutSessionOK
  <2>4. ProcOK(Q, m) /\ Later(P, Q, f, m)
    BY <1>1, <2>3 DEF ProcOK, Later
  <2>5. QED
    BY <1>4, <2>2, <2>3, <2>4
<1>5. QED
  BY <1>2, <1>3, <1>4

-----------------------------------------------------------------------------
(* A page of the feeds *)

\* An order has an extreme among finitely many.
LEMMA Extreme ==
  ASSUME NEW S, IsFiniteSet(S), S # {}, NEW R, \A x \in S : <<x, x>> \notin R,
         \A x, y, z \in S : <<x, y>> \in R /\ <<y, z>> \in R => <<x, z>> \in R
  PROVE  \E m \in S : \A y \in S : <<m, y>> \notin R
<1> DEFINE Above(x) == {y \in S : <<x, y>> \in R}
           T == {Above(x) : x \in S}
<1>1. T # {} /\ T \subseteq FiniteSubsetsOf(S)
  <2>1. T # {}
    <3>1. PICK x : x \in S
      OBVIOUS
    <3>2. Above(x) \in T
      BY <3>1
    <3>3. QED
      BY <3>2
  <2>2. T \subseteq SUBSET S
    OBVIOUS
  <2> HIDE DEF T
  <2>3. QED
    BY <2>1, <2>2, FS_FiniteSubsetsOfFinite
<1>2. \E A \in T : \A B \in T : <<B, A>> \notin StrictSubsetOrdering(S)
  <2> HIDE DEF T
  <2> QED
    BY <1>1, FS_StrictSubsetOrderingWellFounded, WFMin
<1>3. PICK m \in S : \A B \in T : <<B, Above(m)>> \notin StrictSubsetOrdering(S)
  BY <1>2
<1>4. ASSUME NEW y \in S, <<m, y>> \in R
      PROVE  FALSE
  <2>1. y \in Above(m) /\ y \notin Above(y)
    BY <1>4
  <2>2. Above(y) \subseteq Above(m)
    BY <1>4
  <2>3. Above(y) \in T
    OBVIOUS
  <2>4. Above(y) \subseteq S /\ Above(m) \subseteq S /\ Above(y) # Above(m)
    BY <2>1
  <2> HIDE DEF Above, T
  <2>5. <<Above(y), Above(m)>> \in StrictSubsetOrdering(S)
    BY <2>2, <2>4 DEF StrictSubsetOrdering
  <2>6. QED
    BY <2>3, <2>5, <1>3
<1>5. QED
  BY <1>4

\* The order of a feed.
LEMMA BeforeOrder ==
  ASSUME NEW at \in [Doc -> Nat]
  PROVE  /\ \A d \in Doc : ~Before(d, d, at)
         /\ \A d, e, f \in Doc : Before(d, e, at) /\ Before(e, f, at) => Before(d, f, at)
         /\ \A d, e \in Doc : d # e => Before(d, e, at) \/ Before(e, d, at)
<1>1. \A d \in Doc : d \in Nat /\ at[d] \in Nat
  BY RequestsAssumption
<1>2. QED
  BY <1>1 DEF Before

LEMMA FiniteFeed ==
  ASSUME NEW S, S \subseteq Doc
  PROVE  IsFiniteSet(S) /\ Cardinality(S) \in Nat
<1>1. IsFiniteSet(Doc) /\ S \in SUBSET Doc
  BY RequestsAssumption
<1>2. IsFiniteSet(S)
  BY <1>1, FS_Subset
<1>3. QED
  BY <1>2, FS_CardinalityType

\* A finite feed has a last entry, and a first.
LEMMA HasLast ==
  ASSUME NEW S, S \subseteq Doc, S # {}, NEW at \in [Doc -> Nat]
  PROVE  \E d \in S : \A f \in S \ {d} : Before(f, d, at)
<1> DEFINE R == {p \in S \X S : Before(p[1], p[2], at)}
<1>1. \A x, y \in S : <<x, y>> \in R <=> Before(x, y, at)
  OBVIOUS
<1> HIDE DEF R
<1>2. \A x \in S : <<x, x>> \notin R
  BY <1>1, BeforeOrder
<1>3. \A x, y, z \in S : <<x, y>> \in R /\ <<y, z>> \in R => <<x, z>> \in R
  BY <1>1, BeforeOrder
<1>4. PICK m \in S : \A y \in S : <<m, y>> \notin R
  BY <1>2, <1>3, FiniteFeed, Extreme
<1>5. QED
  BY <1>1, <1>4, BeforeOrder

LEMMA HasFirst ==
  ASSUME NEW S, S \subseteq Doc, S # {}, NEW at \in [Doc -> Nat]
  PROVE  \E d \in S : \A f \in S \ {d} : Before(d, f, at)
<1> DEFINE R == {p \in S \X S : Before(p[2], p[1], at)}
<1>1. \A x, y \in S : <<x, y>> \in R <=> Before(y, x, at)
  OBVIOUS
<1> HIDE DEF R
<1>2. \A x \in S : <<x, x>> \notin R
  BY <1>1, BeforeOrder
<1>3. \A x, y, z \in S : <<x, y>> \in R /\ <<y, z>> \in R => <<x, z>> \in R
  BY <1>1, BeforeOrder
<1>4. PICK m \in S : \A y \in S : <<m, y>> \notin R
  BY <1>2, <1>3, FiniteFeed, Extreme
<1>5. QED
  BY <1>1, <1>4, BeforeOrder

\* The position after a feed is that of its last entry.
LEMMA LastEntry ==
  ASSUME NEW S, S \subseteq Doc, S # {}, NEW at \in [Doc -> Nat], NEW pos
  PROVE  \E d \in S : /\ \A f \in S \ {d} : Before(f, d, at)
                      /\ Last(S, at, pos) = [t |-> at[d], id |-> d]
<1> DEFINE e == CHOOSE e \in S : \A f \in S \ {e} : Before(f, e, at)
<1>1. e \in S /\ \A f \in S \ {e} : Before(f, e, at)
  BY HasLast
<1>2. Last(S, at, pos) = [t |-> at[e], id |-> e]
  BY DEF Last
<1>3. QED
  BY <1>1, <1>2

LEMMA LastType ==
  ASSUME NEW S, S \subseteq Doc, NEW at \in [Doc -> Nat], NEW pos \in Position
  PROVE  Last(S, at, pos) \in Position
<1>1. CASE S = {}
  BY <1>1 DEF Last
<1>2. CASE S # {}
  <2>1. PICK d \in S : Last(S, at, pos) = [t |-> at[d], id |-> d]
    BY <1>2, LastEntry
  <2>2. d \in Nat /\ at[d] \in Nat
    BY RequestsAssumption
  <2>3. QED
    BY <2>1, <2>2 DEF Position
<1>3. QED
  BY <1>1, <1>2

\* What is taken of a feed is its beginning.
LEMMA FirstDown ==
  ASSUME NEW S, S \subseteq Doc, NEW at \in [Doc -> Nat], NEW n \in Nat,
         NEW d \in First(n, S, at), NEW e \in S, Before(e, d, at)
  PROVE  e \in First(n, S, at)
<1> DEFINE P(x) == {f \in S : Before(f, x, at)}
<1>1. P(e) \in SUBSET P(d)
  <2>1. d \in Doc /\ e \in Doc
    BY DEF First
  <2>2. QED
    BY <2>1, BeforeOrder
<1>2. IsFiniteSet(P(d)) /\ Cardinality(P(d)) \in Nat /\ P(e) \subseteq Doc
  BY FiniteFeed
<1>3. Cardinality(P(e)) <= Cardinality(P(d)) /\ Cardinality(P(e)) \in Nat
  BY <1>1, <1>2, FS_Subset, FiniteFeed
<1>4. Cardinality(P(d)) < n
  BY DEF First
<1> HIDE DEF P
<1>5. Cardinality(P(e)) < n
  BY <1>2, <1>3, <1>4
<1>6. QED
  BY <1>5 DEF First, P

LEMMA WithinDown ==
  ASSUME NEW S, S \subseteq Doc, NEW at \in [Doc -> Nat],
         NEW d \in WithinBytes(S, at), NEW e \in S, Before(e, d, at)
  PROVE  e \in WithinBytes(S, at)
<1>1. d \in S /\ \A f \in S : Before(f, d, at) => Fits(f, S, at)
  BY DEF WithinBytes
<1>2. \A f \in S : Before(f, e, at) => Before(f, d, at)
  BY <1>1, BeforeOrder
<1>3. QED
  BY <1>1, <1>2 DEF WithinBytes

\* Something is taken of a feed that has entries.
LEMMA SomeTaken ==
  ASSUME NEW S, S \subseteq Doc, S # {}, NEW at \in [Doc -> Nat]
  PROVE  WithinBytes(S, at) # {} /\ \A n \in Nat \ {0} : First(n, S, at) # {}
<1>1. PICK d \in S : \A f \in S \ {d} : Before(d, f, at)
  BY HasFirst
<1>2. {f \in S : Before(f, d, at)} = {}
  <2> SUFFICES ASSUME NEW f \in S, Before(f, d, at) PROVE FALSE
    OBVIOUS
  <2>1. f # d /\ Before(d, f, at)
    BY <1>1, BeforeOrder
  <2>2. QED
    BY <2>1, BeforeOrder
<1>3. d \in WithinBytes(S, at)
  BY <1>2 DEF WithinBytes, Fits
<1>4. \A n \in Nat \ {0} : d \in First(n, S, at)
  <2>1. Cardinality({f \in S : Before(f, d, at)}) = 0
    BY <1>2, FS_EmptySet
  <2>2. QED
    BY <2>1 DEF First
<1>5. QED
  BY <1>3, <1>4

\* What is left of a feed has as many before it as were asked for.
LEMMA LeftOver ==
  ASSUME NEW S, S \subseteq Doc, NEW at \in [Doc -> Nat], NEW n \in Nat, First(n, S, at) # S
  PROVE  \E B \in SUBSET First(n, S, at) :
           /\ n <= Cardinality(B)
           /\ \A e \in B : \A f \in S : Before(f, e, at) => f \in B
<1>1. PICK d \in S \ First(n, S, at) : \A f \in (S \ First(n, S, at)) \ {d} : Before(d, f, at)
  <2>1. S \ First(n, S, at) # {} /\ S \ First(n, S, at) \subseteq Doc
    BY DEF First
  <2>2. QED
    BY <2>1, HasFirst
<1> DEFINE B == {f \in S : Before(f, d, at)}
<1>2. B \in SUBSET First(n, S, at)
  <2> SUFFICES ASSUME NEW f \in S, Before(f, d, at), f \notin First(n, S, at) PROVE FALSE
    OBVIOUS
  <2>1. f # d
    BY BeforeOrder
  <2>2. Before(d, f, at)
    BY <1>1, <2>1
  <2>3. QED
    BY <2>2, BeforeOrder
<1>3. n <= Cardinality(B)
  <2>1. ~(Cardinality(B) < n)
    BY <1>1 DEF First
  <2>2. Cardinality(B) \in Nat
    BY FiniteFeed
  <2> HIDE DEF B
  <2>3. QED
    BY <2>1, <2>2
<1>4. \A e \in B : \A f \in S : Before(f, e, at) => f \in B
  BY BeforeOrder
<1> HIDE DEF B
<1>5. QED
  BY <1>2, <1>3, <1>4

\* One more than the limit was asked for: when none had to be left out, the
\* feed had no more.
LEMMA NoMore ==
  ASSUME NEW S, S \subseteq Doc, NEW at \in [Doc -> Nat], NEW n \in Nat \ {0},
         First(n, First(n + 1, S, at), at) = First(n + 1, S, at)
  PROVE  First(n + 1, S, at) = S
<1> SUFFICES ASSUME First(n + 1, S, at) # S PROVE FALSE
  OBVIOUS
<1>1. PICK F : F = First(n + 1, S, at)
  OBVIOUS
<1>2. F \subseteq S /\ n + 1 \in Nat
  BY <1>1 DEF First
<1>3. PICK B \in SUBSET F :
        /\ n + 1 <= Cardinality(B)
        /\ \A e \in B : \A f \in S : Before(f, e, at) => f \in B
  BY <1>1, <1>2, LeftOver
<1>4. B # {} /\ IsFiniteSet(B) /\ Cardinality(B) \in Nat /\ B \subseteq Doc
  <2>1. B \subseteq Doc
    BY <1>2, <1>3
  <2>2. IsFiniteSet(B) /\ Cardinality(B) \in Nat
    BY <2>1, FiniteFeed
  <2>3. B # {}
    BY <1>3, FS_EmptySet
  <2>4. QED
    BY <2>1, <2>2, <2>3
<1>5. PICK e \in B : \A f \in B \ {e} : Before(f, e, at)
  BY <1>4, HasLast
<1>6. {f \in F : Before(f, e, at)} = B \ {e}
  <2>1. \A f \in F : Before(f, e, at) => f \in B \ {e}
    BY <1>2, <1>3, <1>4, BeforeOrder
  <2>2. QED
    BY <1>3, <1>5, <2>1
<1>7. Cardinality(B \ {e}) = Cardinality(B) - 1
  BY <1>4, FS_RemoveElement
<1>8. e \in First(n, F, at)
  BY <1>1
<1>9. Cardinality({f \in F : Before(f, e, at)}) < n
  BY <1>8 DEF First
<1>10. QED
  BY <1>3, <1>4, <1>6, <1>7, <1>9

\* Past what was taken lies what was not; and something taken moves the position.
LEMMA PastLast ==
  ASSUME NEW S, S \subseteq Doc, NEW at \in [Doc -> Nat], NEW pos \in Position,
         \A d \in S : After(at[d], d, pos),
         NEW T \in SUBSET S, \A d \in T : \A e \in S : Before(e, d, at) => e \in T
  PROVE  /\ \A d \in S \ T : After(at[d], d, Last(T, at, pos))
         /\ T # {} => Last(T, at, pos) # pos
<1>1. CASE T = {}
  BY <1>1 DEF Last
<1>2. CASE T # {}
  <2>1. PICK e \in T : Last(T, at, pos) = [t |-> at[e], id |-> e]
    BY <1>2, LastEntry
  <2>2. e \in Doc /\ e \in S /\ e \in Nat \ {0} /\ at[e] \in Nat
    BY RequestsAssumption
  <2>3. ASSUME NEW d \in S \ T PROVE After(at[d], d, Last(T, at, pos))
    <3>1. d \in Nat /\ at[d] \in Nat /\ d # e /\ d \in Doc
      BY RequestsAssumption
    <3>2. Before(e, d, at)
      BY <2>2, <3>1, BeforeOrder
    <3>3. QED
      BY <2>1, <2>2, <3>1, <3>2 DEF After, Before
  <2>4. After(at[e], e, pos)
    OBVIOUS
  <2>5. Last(T, at, pos) # pos
    <3>1. pos.t \in Nat /\ pos.id \in Nat
      BY DEF Position
    <3>2. QED
      BY <2>1, <2>2, <2>4, <3>1 DEF After
  <2>6. QED
    BY <2>3, <2>5
<1>3. QED
  BY <1>1, <1>2

RowsOK == row \in [Doc -> [at : Nat, own : BOOLEAN]] /\ deleted \in [Doc -> Nat]

LEMMA PageOK ==
  ASSUME RowsOK, NEW pl \in Pull
  PROVE  Page(pl) \in PageType
<1> DEFINE at == [d \in Doc |-> row[d].at]
           found == First(PageLimit + 1,
                          {d \in Doc : Live(d) /\ ~row[d].own /\ After(at[d], d, pl.d)}, at)
           docs == WithinBytes(First(PageLimit, found, at), at)
           dels == First(PageLimit + 1,
                         {d \in Doc : deleted[d] # 0 /\ After(deleted[d], d, pl.x)}, deleted)
           gone == First(PageLimit, dels, deleted)
<1>1. at \in [Doc -> Nat] /\ deleted \in [Doc -> Nat]
  BY DEF RowsOK
<1>2. pl.d \in Position /\ pl.x \in Position
  BY DEF Pull
<1>3. docs \subseteq Doc /\ gone \subseteq Doc
  BY DEF First, WithinBytes
<1>4. More(docs, found, dels) \in BOOLEAN
  BY DEF More
<1>5. Page(pl) = [docs |-> docs, gone |-> gone, more |-> More(docs, found, dels),
                  d |-> Last(docs, at, pl.d), x |-> Last(gone, deleted, pl.x)]
  BY DEF Page
<1> HIDE DEF at, found, docs, dels, gone
<1>6. Last(docs, at, pl.d) \in Position /\ Last(gone, deleted, pl.x) \in Position
  BY <1>1, <1>2, <1>3, LastType
<1>7. QED
  BY <1>3, <1>4, <1>5, <1>6 DEF PageType

\* The entries of the two feeds past a pull's positions.
Rows(pl) == {d \in Doc : Live(d) /\ ~row[d].own /\ After(row[d].at, d, pl.d)}
Removed(pl) == {d \in Doc : deleted[d] # 0 /\ After(deleted[d], d, pl.x)}

\* A page: what it leaves lies past its positions, it leaves nothing when it is
\* the last one, and one that is not moves on.
PageTurn(pl, page) ==
  /\ page.docs \subseteq Rows(pl) /\ page.gone \subseteq Removed(pl)
  /\ \A d \in Rows(pl) \ page.docs : After(row[d].at, d, page.d)
  /\ \A d \in Removed(pl) \ page.gone : After(deleted[d], d, page.x)
  /\ ~page.more => page.docs = Rows(pl) /\ page.gone = Removed(pl)
  /\ page.more => page.d # pl.d \/ page.x # pl.x

LEMMA PageTurns ==
  ASSUME RowsOK, NEW pl \in Pull
  PROVE  PageTurn(pl, Page(pl))
<1>1. PICK at \in [Doc -> Nat] : at = [d \in Doc |-> row[d].at]
  BY DEF RowsOK
<1>2. PICK F : F = Rows(pl)
  OBVIOUS
<1>3. PICK D : D = Removed(pl)
  OBVIOUS
<1>4. PICK found : found = First(PageLimit + 1, F, at)
  OBVIOUS
<1>5. PICK few : few = First(PageLimit, found, at)
  OBVIOUS
<1>6. PICK docs : docs = WithinBytes(few, at)
  OBVIOUS
<1>7. PICK dels : dels = First(PageLimit + 1, D, deleted)
  OBVIOUS
<1>8. PICK gone : gone = First(PageLimit, dels, deleted)
  OBVIOUS
<1>9. PageLimit \in Nat \ {0} /\ PageLimit + 1 \in Nat \ {0} /\ deleted \in [Doc -> Nat]
      /\ pl.d \in Position /\ pl.x \in Position
  BY RequestsAssumption DEF RowsOK, Pull
<1>10. /\ F \subseteq Doc /\ found \subseteq F /\ few \subseteq found /\ docs \subseteq few
       /\ D \subseteq Doc /\ dels \subseteq D /\ gone \subseteq dels
  BY <1>2, <1>3, <1>4, <1>5, <1>6, <1>7, <1>8 DEF Rows, Removed, First, WithinBytes
<1>11. /\ \A d \in F : After(at[d], d, pl.d) /\ at[d] = row[d].at
       /\ \A d \in D : After(deleted[d], d, pl.x)
  BY <1>1, <1>2, <1>3 DEF Rows, Removed
<1>12. PICK page : page = Page(pl)
  OBVIOUS
<1>13. /\ page.docs = docs /\ page.gone = gone
       /\ page.d = Last(docs, at, pl.d) /\ page.x = Last(gone, deleted, pl.x)
       /\ page.more <=> Cardinality(docs) < Cardinality(found) \/ Cardinality(dels) > PageLimit
  <2>1. F = {d \in Doc : Live(d) /\ ~row[d].own /\ After(at[d], d, pl.d)}
    BY <1>1, <1>2 DEF Rows
  <2>2. D = {d \in Doc : deleted[d] # 0 /\ After(deleted[d], d, pl.x)}
    BY <1>3 DEF Removed
  <2>3. page = [docs |-> docs, gone |-> gone, more |-> More(docs, found, dels),
                d |-> Last(docs, at, pl.d), x |-> Last(gone, deleted, pl.x)]
    BY <1>1, <1>4, <1>5, <1>6, <1>7, <1>8, <1>12, <2>1, <2>2, Zenon DEF Page
  <2>4. /\ page.docs = docs /\ page.gone = gone
        /\ page.d = Last(docs, at, pl.d) /\ page.x = Last(gone, deleted, pl.x)
    BY <2>3
  <2>5. page.more <=> More(docs, found, dels)
    BY <2>3, Zenon
  <2>6. QED
    BY <2>4, <2>5 DEF More
<1>14. \A d \in docs : \A e \in F : Before(e, d, at) => e \in docs
  <2> SUFFICES ASSUME NEW d \in docs, NEW e \in F, Before(e, d, at) PROVE e \in docs
    OBVIOUS
  <2>1. d \in few /\ d \in found /\ few \subseteq Doc /\ found \subseteq Doc
    BY <1>10
  <2>2. e \in found
    BY <1>4, <1>9, <1>10, <2>1, FirstDown
  <2>3. e \in few
    BY <1>5, <1>9, <2>1, <2>2, FirstDown
  <2>4. QED
    BY <1>6, <2>1, <2>3, WithinDown
<1>15. \A d \in gone : \A e \in D : Before(e, d, deleted) => e \in gone
  <2> SUFFICES ASSUME NEW d \in gone, NEW e \in D, Before(e, d, deleted) PROVE e \in gone
    OBVIOUS
  <2>1. d \in dels /\ dels \subseteq Doc
    BY <1>10
  <2>2. e \in dels
    BY <1>7, <1>9, <1>10, <2>1, FirstDown
  <2>3. QED
    BY <1>8, <1>9, <2>1, <2>2, FirstDown
<1>16. \A d \in F \ docs : After(at[d], d, page.d)
  <2>1. docs \in SUBSET F
    BY <1>10
  <2>2. QED
    BY <1>9, <1>10, <1>11, <1>13, <1>14, <2>1, PastLast
<1>17. \A d \in D \ gone : After(deleted[d], d, page.x)
  <2>1. gone \in SUBSET D
    BY <1>10
  <2>2. QED
    BY <1>9, <1>10, <1>11, <1>13, <1>15, <2>1, PastLast
<1>18. ASSUME ~page.more PROVE docs = F /\ gone = D
  <2>1. IsFiniteSet(found) /\ IsFiniteSet(dels) /\ Cardinality(found) \in Nat
        /\ Cardinality(dels) \in Nat /\ Cardinality(docs) \in Nat
    <3>1. found \subseteq Doc /\ dels \subseteq Doc /\ docs \subseteq Doc
      BY <1>10
    <3>2. QED
      BY <3>1, FiniteFeed
  <2>2. docs = found
    <3>1. docs \in SUBSET found
      BY <1>10
    <3>2. Cardinality(docs) <= Cardinality(found) /\ (Cardinality(docs) = Cardinality(found) => docs = found)
      BY <2>1, <3>1, FS_Subset
    <3>3. QED
      BY <1>13, <1>18, <2>1, <3>2
  <2>3. found = F
    <3>1. First(PageLimit, found, at) = found
      BY <1>5, <1>10, <2>2
    <3>2. QED
      BY <1>4, <1>9, <1>10, <3>1, NoMore
  <2>4. \A d \in dels : Cardinality({e \in dels : Before(e, d, deleted)}) < PageLimit
    <3> SUFFICES ASSUME NEW d \in dels
                 PROVE  Cardinality({e \in dels : Before(e, d, deleted)}) < PageLimit
      OBVIOUS
    <3> DEFINE B == {e \in dels : Before(e, d, deleted)}
    <3>1. B \in SUBSET (dels \ {d})
      BY <1>9, <1>10, BeforeOrder
    <3>2. IsFiniteSet(dels \ {d}) /\ Cardinality(dels \ {d}) = Cardinality(dels) - 1
      BY <2>1, FS_RemoveElement
    <3>3. Cardinality(B) <= Cardinality(dels \ {d})
      BY <3>1, <3>2, FS_Subset
    <3>4. Cardinality(B) \in Nat
      BY <1>10, FiniteFeed
    <3> HIDE DEF B
    <3>5. Cardinality(B) < PageLimit
      BY <1>9, <1>13, <1>18, <2>1, <3>2, <3>3, <3>4
    <3>6. QED
      BY <3>5 DEF B
  <2>5. gone = dels
    BY <1>8, <2>4 DEF First
  <2>6. dels = D
    BY <1>7, <1>8, <1>9, <1>10, <2>5, NoMore
  <2>7. QED
    BY <2>2, <2>3, <2>5, <2>6
<1>19. ASSUME page.more PROVE page.d # pl.d \/ page.x # pl.x
  <2>1. CASE Cardinality(docs) < Cardinality(found)
    <3>1. found # {}
      <4>1. found \subseteq Doc /\ docs \subseteq Doc
        BY <1>10
      <4>2. Cardinality(docs) \in Nat
        BY <4>1, FiniteFeed
      <4>3. QED
        BY <2>1, <4>2, FS_EmptySet
    <3>2. few # {}
      BY <1>5, <1>9, <1>10, <3>1, SomeTaken
    <3>3. docs # {}
      BY <1>6, <1>10, <3>2, SomeTaken
    <3>4. docs \in SUBSET F
      BY <1>10
    <3>5. page.d # pl.d
      BY <1>9, <1>10, <1>11, <1>13, <1>14, <3>3, <3>4, PastLast
    <3>6. QED
      BY <3>5
  <2>2. CASE Cardinality(dels) > PageLimit
    <3>1. dels # {}
      <4> SUFFICES ASSUME dels = {} PROVE FALSE
        OBVIOUS
      <4>1. Cardinality(dels) = 0
        BY FS_EmptySet
      <4> QED
        BY <1>9, <2>2, <4>1
    <3>2. gone # {}
      BY <1>8, <1>9, <1>10, <3>1, SomeTaken
    <3>3. gone \in SUBSET D
      BY <1>10
    <3>4. page.x # pl.x
      BY <1>9, <1>10, <1>11, <1>13, <1>15, <3>2, <3>3, PastLast
    <3>5. QED
      BY <3>4
  <2>3. QED
    BY <1>13, <1>19, <2>1, <2>2
<1>20. PageTurn(pl, page)
  <2>1. page.docs \subseteq F /\ page.gone \subseteq D
    BY <1>10, <1>13
  <2>2. QED
    BY <1>2, <1>3, <1>11, <1>13, <1>16, <1>17, <1>18, <1>19, <2>1 DEF PageTurn
<1>21. QED
  BY <1>12, <1>20

-----------------------------------------------------------------------------
(* Each step keeps the tokens and the sessions *)

ClientInv == TokenInv /\ OpenInv

\* The call in slot c is replaced.
LEMMA CallAt ==
  ASSUME call \in [Call -> Client1], NEW c \in Call, NEW d, call' = [call EXCEPT ![c] = d]
  PROVE  /\ call'[c] = d
         /\ \A x \in Call : x # c => call'[x] = call[x]
         /\ d \in Client1 => call' \in [Call -> Client1]
  OBVIOUS

LEMMA ProcessAt ==
  ASSUME proc \in [Process -> Process1], NEW p \in Process, NEW Q,
         proc' = [proc EXCEPT ![p] = Q]
  PROVE  /\ proc'[p] = Q
         /\ \A x \in Process : x # p => proc'[x] = proc[x]
         /\ Q \in Process1 => proc' \in [Process -> Process1]
  OBVIOUS

\* Nothing of this changes, but for requests.
LEMMA QuietClient ==
  ASSUME ClientInv, UNCHANGED <<proc, file, call, opens>>,
         tokens' = tokens \/ (/\ tokens' \in Minted /\ tokens'.minted = tokens.minted),
         net' \subseteq Sending, \A r \in net' : r \in net \/ r.tok = r.asked,
         sessions' \in [opened : Nat, ended : SUBSET Nat]
  PROVE  ClientInv'
<1>1. tokens' \in Minted /\ tokens.minted <= tokens'.minted
  BY DEF ClientInv, TokenInv, Minted
<1>2. TokenInv'
  <2>1. TokenInv /\ proc \in [Process -> Process1] /\ call \in [Call -> Client1]
    BY DEF ClientInv, TokenInv
  <2>2. QED
    BY <1>1, <2>1, TokenStep
<1>3. OpenInv'
  BY OpenStep DEF ClientInv
<1>4. QED
  BY <1>2, <1>3 DEF ClientInv

LEMMA AnswerClient ==
  ASSUME ClientInv, NEW r \in net, NEW status, NEW page \in PageType, Answer(r, status, page),
         UNCHANGED <<tokens, opens, sessions>>
  PROVE  ClientInv'
<1>1. r \in Sending /\ r.call \in Call
  BY DEF ClientInv, TokenInv, Sending
<1> DEFINE waits == call[r.call].pc = "sent" /\ call[r.call].sent = [r EXCEPT !.stage = "sent", !.done = {}]
<1>2. net' \subseteq Sending /\ (\A q \in net' : q \in net)
  BY DEF Answer, ClientInv, TokenInv
<1>3. sessions' \in [opened : Nat, ended : SUBSET Nat] /\ tokens \in Minted
  BY DEF ClientInv, TokenInv
<1>4. CASE ~waits
  <2>1. UNCHANGED <<proc, file, call>>
    BY <1>4 DEF Answer
  <2>2. QED
    BY <1>2, <1>3, <2>1, QuietClient
<1>5. CASE waits
  <2>1. PICK c \in Call : c = r.call
    BY <1>1
  <2>2. PICK k : k = call[c]
    OBVIOUS
  <2>3. PICK p : p = k.at
    OBVIOUS
  <2>4. k.pc = "sent" /\ CallOK(c, k) /\ k \in Client1 /\ p \in Process
    BY <1>5, <2>1, <2>2, <2>3 DEF ClientInv, TokenInv, CallOK
  <2>5. PICK P : P = proc[p]
    OBVIOUS
  <2>6. PICK m : m = tokens.minted
    OBVIOUS
  <2>7. /\ P \in Process1 /\ m \in Nat /\ ProcOK(P, m) /\ CallWith(k, P, file, m)
        /\ file \in Token \cup {None} /\ (file # None => file.n <= m)
    BY <2>2, <2>3, <2>4, <2>5, <2>6 DEF ClientInv, TokenInv, Minted
  <2>8. PICK Q : Q = Settled(P, k, status)
    OBVIOUS
  <2>9. /\ ProcOK(Q, m) /\ Q \in Process1 /\ Later(P, Q, file, m)
        /\ Q.opening = P.opening
        /\ status = "unauthenticated" /\ k.try = 0 => Q.mem = None
    BY <2>4, <2>7, <2>8, SettledOK
  <2>10. PICK d : d = Heard(k, status, page)
    OBVIOUS
  <2>11. /\ call' = [call EXCEPT ![c] = d] /\ proc' = [proc EXCEPT ![p] = Q]
         /\ file' = IF status = "unauthenticated" /\ k.try = 0 THEN None ELSE file
    BY <1>5, <2>1, <2>2, <2>3, <2>5, <2>8, <2>10 DEF Answer, ClearFile
  <2>12. LaterFile(file, file', m)
    BY <2>11 DEF LaterFile
  <2>13. /\ CallOK(c, d) /\ d \in Client1 /\ CallWith(d, Q, file', m)
         /\ d.at = p /\ d.pc # "open" /\ d.pc # "idle"
    BY <2>3, <2>4, <2>7, <2>9, <2>10, <2>11, <2>12, HeardOK
  <2>14. proc \in [Process -> Process1] /\ call \in [Call -> Client1] /\ TokenInv /\ OpenInv
    BY DEF ClientInv, TokenInv
  <2>15. /\ proc' \in [Process -> Process1] /\ proc'[p] = Q
         /\ \A x \in Process : x # p => proc'[x] = proc[x]
    BY <2>4, <2>9, <2>11, <2>14, ProcessAt
  <2>16. /\ call' \in [Call -> Client1] /\ call'[c] = d
         /\ \A x \in Call : x # c => call'[x] = call[x]
    BY <2>11, <2>13, <2>14, CallAt
  <2>17. TokenInv'
    <3>1. \A x \in Process : proc'[x] = proc[x] \/
            (ProcOK(proc'[x], tokens'.minted) /\ Later(proc[x], proc'[x], file, tokens.minted))
      BY <2>5, <2>6, <2>9, <2>15
    <3>2. \A x \in Call : call'[x] = call[x] \/
            (/\ CallOK(x, call'[x])
             /\ call'[x].pc # "idle" =>
                  CallWith(call'[x], proc'[call'[x].at], file', tokens'.minted))
      BY <2>6, <2>13, <2>15, <2>16
    <3>3. file' = file \/ (/\ file' \in Token \cup {None}
                           /\ LaterFile(file, file', tokens.minted)
                           /\ file' # None => file'.n <= tokens'.minted)
      BY <2>6, <2>11, <2>12
    <3>4. tokens' \in Minted /\ tokens.minted <= tokens'.minted
      BY <1>3, <2>6, <2>7
    <3>5. QED
      BY <1>2, <1>3, <2>14, <2>15, <2>16, <3>1, <3>2, <3>3, <3>4, TokenStep
  <2>18. OpenInv'
    <3>1. \A x \in Process : proc'[x].opening \in {proc[x].opening, None}
      BY <2>5, <2>9, <2>15
    <3>2. \A x \in Call : call'[x] = call[x] \/ (call[x].pc # "open" /\ call'[x].pc # "open")
      BY <2>2, <2>4, <2>13, <2>16
    <3>3. QED
      BY <2>14, <3>1, <3>2, OpenStep
  <2>19. QED
    BY <2>17, <2>18 DEF ClientInv
<1>6. QED
  BY <1>4, <1>5

\* One call goes on by itself.
LEMMA CallStep ==
  ASSUME ClientInv, NEW c \in Call, NEW d \in Client1, call' = [call EXCEPT ![c] = d],
         CallOK(c, d), d.pc # "idle" => CallWith(d, proc[d.at], file, tokens.minted),
         call[c].pc # "open", d.pc # "open",
         UNCHANGED <<proc, file, tokens, opens, sessions>>,
         net' \subseteq Sending, \A r \in net' : r \in net \/ r.tok = r.asked
  PROVE  ClientInv'
<1>1. proc \in [Process -> Process1] /\ call \in [Call -> Client1] /\ TokenInv /\ OpenInv
      /\ tokens \in Minted /\ sessions \in [opened : Nat, ended : SUBSET Nat]
      /\ tokens.minted \in Nat
  BY DEF ClientInv, TokenInv, Minted
<1>2. call' \in [Call -> Client1] /\ call'[c] = d /\ \A x \in Call : x # c => call'[x] = call[x]
  BY <1>1, CallAt
<1>3. TokenInv'
  <2>1. \A x \in Call : call'[x] = call[x] \/
          (/\ CallOK(x, call'[x])
           /\ call'[x].pc # "idle" =>
                CallWith(call'[x], proc'[call'[x].at], file', tokens'.minted))
    BY <1>2
  <2>2. tokens.minted <= tokens'.minted
    BY <1>1
  <2>3. QED
    BY <1>1, <1>2, <2>1, <2>2, TokenStep
<1>4. OpenInv'
  BY <1>1, <1>2, OpenStep
<1>5. QED
  BY <1>3, <1>4 DEF ClientInv

\* One process changes beside its call.
LEMMA ProcessStep ==
  ASSUME ClientInv, NEW c \in Call, NEW d \in Client1, call' = [call EXCEPT ![c] = d],
         NEW p \in Process, NEW Q \in Process1, proc' = [proc EXCEPT ![p] = Q],
         ProcOK(Q, tokens.minted), Later(proc[p], Q, file, tokens.minted),
         Q.opening = proc[p].opening,
         CallOK(c, d), d.at = p, d.pc # "idle", CallWith(d, Q, file, tokens.minted),
         call[c].pc # "open", d.pc # "open",
         UNCHANGED <<file, tokens, opens, sessions, net>>
  PROVE  ClientInv'
<1>1. proc \in [Process -> Process1] /\ call \in [Call -> Client1] /\ TokenInv /\ OpenInv
      /\ tokens \in Minted /\ sessions \in [opened : Nat, ended : SUBSET Nat]
      /\ tokens.minted \in Nat /\ net \subseteq Sending
  BY DEF ClientInv, TokenInv, Minted
<1>2. call' \in [Call -> Client1] /\ call'[c] = d /\ \A x \in Call : x # c => call'[x] = call[x]
  BY <1>1, CallAt
<1>3. proc' \in [Process -> Process1] /\ proc'[p] = Q
      /\ \A x \in Process : x # p => proc'[x] = proc[x]
  BY <1>1, ProcessAt
<1>4. TokenInv'
  <2>1. \A x \in Call : call'[x] = call[x] \/
          (/\ CallOK(x, call'[x])
           /\ call'[x].pc # "idle" =>
                CallWith(call'[x], proc'[call'[x].at], file', tokens'.minted))
    BY <1>2, <1>3
  <2>2. \A x \in Process : proc'[x] = proc[x] \/
          (ProcOK(proc'[x], tokens'.minted) /\ Later(proc[x], proc'[x], file, tokens.minted))
    BY <1>3
  <2>3. tokens.minted <= tokens'.minted
    BY <1>1
  <2>4. QED
    BY <1>1, <1>2, <1>3, <2>1, <2>2, <2>3, TokenStep
<1>5. OpenInv'
  <2>1. \A x \in Process : proc'[x].opening \in {proc[x].opening, None}
    BY <1>3
  <2>2. QED
    BY <1>1, <1>2, <2>1, OpenStep
<1>6. QED
  BY <1>4, <1>5 DEF ClientInv

LEMMA BeginClient ==
  ASSUME ClientInv, NEW c \in Call, NEW p \in Process, NEW op \in Operation, Begin(c, p, op)
  PROVE  ClientInv'
<1> DEFINE e == IF op.how = "me" /\ Cached(p) THEN "done" ELSE "token"
           d == [NoCall EXCEPT !.at = p, !.op = op, !.pc = e]
<1>1. e \in {"done", "token"}
  OBVIOUS
<1>2. call' = [call EXCEPT ![c] = d] /\ call[c].pc = "idle"
      /\ UNCHANGED <<proc, file, tokens, opens, sessions, net>>
  BY DEF Begin
<1> HIDE DEF e
<1>3. d \in Client1
  BY <1>1, NoCallOK DEF Client1, Pc
<1>4. d.pc = e /\ d.at = p /\ d.op = op /\ d.tok = None /\ d.refused = None /\ d.sent = None
      /\ d.pull = NoPull
  BY DEF NoCall
<1> HIDE DEF d
<1>5. CallOK(c, d)
  BY <1>1, <1>3, <1>4, PagesType DEF CallOK, Bearing
<1>6. CallWith(d, proc[d.at], file, tokens.minted)
  BY <1>1, <1>4 DEF CallWith, Bearing
<1>7. net' \subseteq Sending /\ (\A r \in net' : r \in net) /\ d.pc # "open" /\ call[c].pc # "open"
  BY <1>1, <1>2, <1>4 DEF ClientInv, TokenInv
<1>8. QED
  BY <1>2, <1>3, <1>5, <1>6, <1>7, CallStep

LEMMA GrantedOK ==
  ASSUME NEW c \in Call, NEW k, CallOK(c, k), k.pc \in {"token", "mint"}, NEW t \in Token,
         NEW Q, NEW g, NEW m, CallWith(k, Q, g, m), Q.gen \in Nat,
         t.user = Q.who, t.n <= m, k.refused # None => t # k.refused
  PROVE  LET d == Granted(k, t, Q.gen) IN
         /\ d \in Client1 /\ CallOK(c, d) /\ CallWith(d, Q, g, m)
         /\ d.at = k.at /\ d.pc = "go"
<1> DEFINE d == [k EXCEPT !.pc = "go", !.tok = t, !.gen = Q.gen]
<1>1. k \in Client1
  BY DEF CallOK
<1>2. d \in Client1
  <2>1. "go" \in Pc
    BY DEF Pc
  <2>2. QED
    BY <1>1, <2>1 DEF Client1
<1>3. d.pc = "go" /\ d.tok = t /\ d.gen = Q.gen /\ d.at = k.at /\ d.op = k.op
      /\ d.refused = k.refused /\ d.sent = k.sent /\ d.pull = k.pull
  BY <1>1 DEF Client1
<1>4. Granted(k, t, Q.gen) = d
  BY DEF Granted
<1> HIDE DEF d
<1>5. CallOK(c, d)
  BY <1>2, <1>3 DEF CallOK, Bearing
<1>6. CallWith(d, Q, g, m)
  BY <1>3 DEF CallWith, Bearing
<1>7. QED
  BY <1>2, <1>3, <1>4, <1>5, <1>6

\* A token that is read or minted is the process's, in a new generation.
LEMMA AdoptOK ==
  ASSUME NEW p \in Process, proc[p] \in Process1, NEW m, ProcOK(proc[p], m),
         NEW t \in Token, NEW n, t.n <= n, NEW b \in BOOLEAN
  PROVE  LET Q == [Adopt(p, t) EXCEPT !.minting = b] IN
         /\ Q \in Process1 /\ ProcOK(Q, n) /\ Adopt(p, t) \in Process1 /\ ProcOK(Adopt(p, t), n)
         /\ Q.mem = t /\ Q.gen = proc[p].gen + 1 /\ Q.who = t.user
         /\ Q.opening = proc[p].opening
         /\ Adopt(p, t).mem = t /\ Adopt(p, t).gen = proc[p].gen + 1 /\ Adopt(p, t).who = t.user
         /\ Adopt(p, t).opening = proc[p].opening
<1> DEFINE P == proc[p]
           A == [P EXCEPT !.mem = t, !.gen = P.gen + 1, !.who = t.user]
           Q == [A EXCEPT !.minting = b]
<1>1. Adopt(p, t) = A
  BY DEF Adopt
<1>2. t.user \in User /\ P.gen \in Nat
  BY DEF Token, Process1
<1>3. A \in Process1 /\ A.mem = t /\ A.gen = P.gen + 1 /\ A.who = t.user /\ A.me = P.me
      /\ A.opening = P.opening
  <2>1. P \in Process1 /\ P.gen + 1 \in Nat
    BY <1>2
  <2> HIDE DEF P
  <2>2. A \in Process1
    BY <1>2, <2>1 DEF Process1
  <2>3. A.mem = t /\ A.gen = P.gen + 1 /\ A.who = t.user /\ A.me = P.me /\ A.opening = P.opening
    BY <2>1 DEF Process1
  <2>4. QED
    BY <2>2, <2>3
<1>4. P.me # None => P.me.gen \in Nat /\ P.me.gen <= P.gen
  BY DEF ProcOK, Process1, Name
<1> HIDE DEF P, A
<1>5. Q \in Process1 /\ Q.mem = t /\ Q.gen = P.gen + 1 /\ Q.who = t.user /\ Q.me = P.me
      /\ Q.opening = P.opening
  BY <1>3 DEF Process1
<1> HIDE DEF Q
<1>6. ProcOK(A, n) /\ ProcOK(Q, n)
  BY <1>2, <1>3, <1>4, <1>5 DEF ProcOK
<1>7. QED
  BY <1>1, <1>3, <1>5, <1>6 DEF P, Q

LEMMA GetTokenClient ==
  ASSUME ClientInv, NEW c \in Call, GetToken(c)
  PROVE  ClientInv'
<1>1. PICK k : k = call[c]
  OBVIOUS
<1>2. k.pc = "token" /\ CallOK(c, k) /\ k \in Client1 /\ k.at \in Process
  BY <1>1 DEF GetToken, ClientInv, TokenInv, CallOK
<1>3. PICK p \in Process : p = k.at
  BY <1>2
<1>4. PICK P : P = proc[p]
  OBVIOUS
<1>5. PICK m : m = tokens.minted
  OBVIOUS
<1>6. /\ P \in Process1 /\ m \in Nat /\ ProcOK(P, m) /\ CallWith(k, P, file, m)
      /\ file \in Token \cup {None} /\ (file # None => file.n <= m)
      /\ P.mem \in Token \cup {None} /\ P.gen \in Nat
  <2>1. P \in Process1 /\ m \in Nat /\ ProcOK(P, m)
    BY <1>4, <1>5 DEF ClientInv, TokenInv, Minted
  <2>2. CallWith(k, P, file, m)
    BY <1>1, <1>2, <1>3, <1>4, <1>5 DEF ClientInv, TokenInv
  <2>3. file \in Token \cup {None} /\ (file # None => file.n <= m)
    BY <1>5 DEF ClientInv, TokenInv
  <2>4. QED
    BY <2>1, <2>2, <2>3 DEF Process1
<1>7. UNCHANGED <<file, tokens, opens, sessions, net>> /\ net \subseteq Sending
  BY DEF GetToken, ClientInv, TokenInv
<1>8. CASE Usable(P.mem) /\ call' = [call EXCEPT ![c] = Granted(k, P.mem, P.gen)] /\ UNCHANGED proc
  <2>1. P.mem \in Token /\ P.mem.user = P.who /\ P.mem.n <= m
    BY <1>6, <1>8 DEF Usable, ProcOK
  <2>2. k.refused # None => P.mem # k.refused
    BY <1>6 DEF CallWith
  <2>3. PICK d : d = Granted(k, P.mem, P.gen)
    OBVIOUS
  <2>4. d \in Client1 /\ CallOK(c, d) /\ CallWith(d, P, file, m) /\ d.at = k.at /\ d.pc = "go"
    BY <1>2, <1>6, <2>1, <2>2, <2>3, GrantedOK
  <2>5. CallWith(d, proc[d.at], file, tokens.minted) /\ d.pc # "open" /\ call[c].pc # "open"
    BY <1>1, <1>2, <1>3, <1>4, <1>5, <2>4
  <2>6. QED
    BY <1>7, <1>8, <2>3, <2>4, <2>5, CallStep
<1>9. CASE /\ Usable(file) /\ proc' = [proc EXCEPT ![p] = Adopt(p, file)]
           /\ call' = [call EXCEPT ![c] = Granted(k, file, P.gen + 1)]
  <2>1. file \in Token /\ file.n <= m
    BY <1>6, <1>9 DEF Usable
  <2>2. PICK Q : Q = Adopt(p, file)
    OBVIOUS
  <2>3. /\ Q \in Process1 /\ ProcOK(Q, m) /\ Q.mem = file /\ Q.gen = P.gen + 1
        /\ Q.who = file.user /\ Q.opening = P.opening
    BY <1>4, <1>6, <2>1, <2>2, AdoptOK
  <2>4. Later(P, Q, file, m) /\ LaterFile(file, file, m)
    BY <1>6, <2>3 DEF Later, LaterFile
  <2>5. CallWith(k, Q, file, m)
    BY <1>2, <1>6, <2>3, <2>4, CallLater
  <2>6. k.refused # None => file # k.refused
    BY <1>6 DEF CallWith
  <2>7. PICK d : d = Granted(k, file, Q.gen)
    OBVIOUS
  <2>8. d \in Client1 /\ CallOK(c, d) /\ CallWith(d, Q, file, m) /\ d.at = k.at /\ d.pc = "go"
    BY <1>2, <1>6, <2>1, <2>3, <2>5, <2>6, <2>7, GrantedOK
  <2>9. /\ call' = [call EXCEPT ![c] = d] /\ proc' = [proc EXCEPT ![p] = Q]
        /\ ProcOK(Q, tokens.minted) /\ Later(proc[p], Q, file, tokens.minted)
        /\ Q.opening = proc[p].opening
        /\ d.at = p /\ d.pc # "idle" /\ CallWith(d, Q, file, tokens.minted)
        /\ call[c].pc # "open" /\ d.pc # "open"
    BY <1>1, <1>2, <1>3, <1>4, <1>5, <1>9, <2>2, <2>3, <2>4, <2>7, <2>8
  <2>10. QED
    BY <1>7, <2>3, <2>8, <2>9, ProcessStep
<1>10. CASE proc' = [proc EXCEPT ![p].minting = TRUE] /\ call' = [call EXCEPT ![c].pc = "mint"]
  <2> DEFINE Q == [P EXCEPT !.minting = TRUE]
             d == [k EXCEPT !.pc = "mint"]
  <2>1. /\ Q \in Process1 /\ Q.mem = P.mem /\ Q.gen = P.gen /\ Q.who = P.who /\ Q.me = P.me
        /\ Q.opening = P.opening
    BY <1>6 DEF Process1
  <2>2. d \in Client1 /\ d.pc = "mint" /\ d.at = k.at /\ d.op = k.op /\ d.tok = k.tok
        /\ d.refused = k.refused /\ d.sent = k.sent /\ d.pull = k.pull
    BY <1>2 DEF Client1, Pc
  <2>3. call' = [call EXCEPT ![c] = d] /\ proc' = [proc EXCEPT ![p] = Q]
    BY <1>1, <1>4, <1>10
  <2> HIDE DEF Q, d
  <2>4. ProcOK(Q, m) /\ Later(P, Q, file, m)
    BY <1>6, <2>1 DEF ProcOK, Later
  <2>5. CallOK(c, d)
    BY <1>2, <2>2 DEF CallOK, Bearing
  <2>6. CallWith(d, Q, file, m)
    BY <1>6, <2>1, <2>2 DEF CallWith, Bearing
  <2>7. /\ ProcOK(Q, tokens.minted) /\ Later(proc[p], Q, file, tokens.minted)
        /\ Q.opening = proc[p].opening
        /\ d.at = p /\ d.pc # "idle" /\ CallWith(d, Q, file, tokens.minted)
        /\ call[c].pc # "open" /\ d.pc # "open"
    BY <1>1, <1>2, <1>3, <1>4, <1>5, <2>1, <2>2, <2>4, <2>6
  <2>8. QED
    BY <1>7, <2>1, <2>2, <2>3, <2>5, <2>7, ProcessStep
<1>11. QED
  BY <1>1, <1>3, <1>4, <1>8, <1>9, <1>10 DEF GetToken

LEMMA WaitingAre ==
  ASSUME ClientInv, NEW p \in Process, NEW c \in Waiting(p)
  PROVE  /\ c \in Call /\ call[c].pc = "mint" /\ call[c].at = p
         /\ CallOK(c, call[c]) /\ call[c] \in Client1
         /\ CallWith(call[c], proc[p], file, tokens.minted)
  BY DEF Waiting, ClientInv, TokenInv

\* A token comes in, and no call holds it for refused.
LEMMA ForgivenOK ==
  ASSUME NEW c \in Call, NEW k, CallOK(c, k), NEW t \in Token,
         NEW P \in Process1, NEW Q \in Process1, NEW f, NEW m \in Nat, NEW n \in Nat, m <= n,
         k.pc # "idle" => CallWith(k, P, f, m),
         Q = P \/ (Q.mem = t /\ Q.gen = P.gen + 1)
  PROVE  LET d == Forgiven(k, t) IN
         /\ d \in Client1 /\ CallOK(c, d) /\ d.pc = k.pc /\ d.at = k.at
         /\ d.refused # None => t # d.refused
         /\ d.pc # "idle" => CallWith(d, Q, t, n)
<1>1. k \in Client1
  BY DEF CallOK
<1>2. PICK x \in Token \cup {None} : x = IF k.refused = t THEN None ELSE k.refused
  BY <1>1 DEF Client1
<1> DEFINE d == [k EXCEPT !.refused = x]
<1>3. Forgiven(k, t) = d
  BY <1>2 DEF Forgiven
<1>4. /\ d \in Client1 /\ d.pc = k.pc /\ d.at = k.at /\ d.op = k.op /\ d.tok = k.tok
      /\ d.gen = k.gen /\ d.sent = k.sent /\ d.pull = k.pull /\ d.refused = x
  BY <1>1 DEF Client1
<1> HIDE DEF d
<1>5. x # None => x = k.refused /\ x # t
  BY <1>2
<1>6. CallOK(c, d)
  BY <1>4, <1>5 DEF CallOK
<1>7. ASSUME d.pc # "idle"
      PROVE  CallWith(d, Q, t, n)
  <2>1. CallWith(k, P, f, m) /\ k.gen \in Nat /\ P.gen \in Nat /\ k.tok \in Token \cup {None}
        /\ k.refused \in Token \cup {None}
    BY <1>1, <1>4, <1>7 DEF Client1, Process1
  <2>2. d.pc \in Bearing => d.gen <= Q.gen /\ (d.gen = Q.gen => d.tok.user = Q.who)
    BY <1>4, <2>1 DEF CallWith
  <2>3. d.tok # None => d.tok.n <= n
    BY <1>4, <2>1 DEF CallWith, Token
  <2>4. ASSUME d.refused # None
        PROVE  /\ d.refused.n <= n /\ Q.mem # d.refused /\ t # d.refused
               /\ d.pc \in Bearing => d.tok # d.refused
    BY <1>4, <1>5, <2>1, <2>4 DEF CallWith, Token
  <2>5. QED
    BY <2>2, <2>3, <2>4 DEF CallWith
<1>8. d.refused # None => t # d.refused
  BY <1>4, <1>5
<1>9. QED
  BY <1>3, <1>4, <1>6, <1>7, <1>8

LEMMA MintDoneClient ==
  ASSUME ClientInv, NEW p \in Process, NEW t \in Printable, MintDone(p, t)
  PROVE  ClientInv'
<1>1. /\ tokens.minted \in Nat /\ tokens.account \in User /\ tokens \in Minted /\ TokenInv
      /\ proc \in [Process -> Process1] /\ call \in [Call -> Client1] /\ OpenInv
      /\ net \subseteq Sending /\ OwnToken
      /\ sessions \in [opened : Nat, ended : SUBSET Nat]
  BY DEF ClientInv, TokenInv, Minted
<1>2. t \in Token /\ t.n \in Nat
  BY <1>1 DEF Printable, Minted, Token
<1>3. PICK m \in Nat : m = tokens.minted
  BY <1>1
<1>4. PICK n \in Nat : n = (IF t.n > m THEN t.n ELSE m)
  BY <1>2
<1>5. tokens' \in Minted /\ tokens'.minted = n /\ m <= n /\ t.n <= n
  <2>1. PICK done \in SUBSET Token : done = tokens.printed \cup {t}
    BY <1>1, <1>2 DEF Minted
  <2>2. tokens' = [tokens EXCEPT !.minted = n, !.printed = done]
    BY <1>3, <1>4, <2>1 DEF MintDone
  <2>3. tokens' \in Minted /\ tokens'.minted = n
    BY <1>1, <2>2 DEF Minted
  <2>4. QED
    BY <1>2, <1>4, <2>3
<1>6. PICK Q : Q = [Adopt(p, t) EXCEPT !.minting = FALSE]
  OBVIOUS
<1>7. /\ proc' = [proc EXCEPT ![p] = Q] /\ file' = t
      /\ call' = [c \in Call |->
                    IF c \in Waiting(p) THEN Granted(Forgiven(call[c], t), t, proc[p].gen + 1)
                    ELSE Forgiven(call[c], t)]
      /\ UNCHANGED <<opens, sessions, net>>
  BY <1>6 DEF MintDone
<1>8. proc[p] \in Process1 /\ proc[p].gen \in Nat
  BY <1>1 DEF Process1
<1>9. /\ Q \in Process1 /\ ProcOK(Q, n) /\ Q.mem = t /\ Q.gen = proc[p].gen + 1
      /\ Q.who = t.user /\ Q.opening = proc[p].opening
  <2>1. ProcOK(proc[p], m)
    BY <1>1, <1>3 DEF TokenInv
  <2>2. QED
    BY <1>2, <1>5, <1>6, <1>8, <2>1, AdoptOK
<1>10. /\ proc' \in [Process -> Process1] /\ proc'[p] = Q
       /\ \A x \in Process : x # p => proc'[x] = proc[x]
  BY <1>1, <1>7, <1>9, ProcessAt
<1>11. ASSUME NEW x \in Process PROVE ProcOK(proc'[x], n)
  <2>1. CASE x = p
    BY <1>9, <1>10, <2>1
  <2>2. CASE x # p
    <3>1. ProcOK(proc[x], m) /\ proc[x] \in Process1
      BY <1>1, <1>3 DEF TokenInv
    <3>2. proc[x].mem \in Token \cup {None}
      BY <3>1 DEF Process1
    <3>3. QED
      BY <1>5, <1>10, <2>2, <3>1, <3>2 DEF ProcOK, Token
  <2>3. QED
    BY <2>1, <2>2
<1>12. ASSUME NEW c \in Call
       PROVE  LET d == Forgiven(call[c], t) IN
              /\ d \in Client1 /\ CallOK(c, d) /\ d.pc = call[c].pc /\ d.at = call[c].at
              /\ d.refused # None => t # d.refused
              /\ d.pc # "idle" => CallWith(d, proc'[d.at], t, n)
  <2>1. PICK k : k = call[c]
    OBVIOUS
  <2>2. CallOK(c, k) /\ k \in Client1
    BY <1>1, <2>1 DEF TokenInv
  <2>3. CASE k.pc = "idle"
    <3>1. Q = Q
      OBVIOUS
    <3>2. k.pc # "idle" => CallWith(k, Q, file, m)
      BY <2>3
    <3>3. QED
      BY <1>2, <1>5, <1>9, <2>1, <2>2, <2>3, <3>2, ForgivenOK
  <2>4. CASE k.pc # "idle"
    <3>1. k.at \in Process
      BY <2>2, <2>4 DEF CallOK
    <3>2. CallWith(k, proc[k.at], file, m) /\ proc[k.at] \in Process1 /\ proc'[k.at] \in Process1
      BY <1>1, <1>3, <1>10, <2>1, <2>4, <3>1 DEF TokenInv
    <3>3. proc'[k.at] = proc[k.at] \/ (proc'[k.at].mem = t /\ proc'[k.at].gen = proc[k.at].gen + 1)
      BY <1>9, <1>10, <3>1
    <3>4. QED
      BY <1>2, <1>5, <2>1, <2>2, <3>2, <3>3, ForgivenOK
  <2>5. QED
    BY <2>3, <2>4
<1>13. ASSUME NEW c \in Call, c \in Waiting(p)
       PROVE  LET d == Granted(Forgiven(call[c], t), t, proc[p].gen + 1) IN
              d \in Client1 /\ CallOK(c, d) /\ CallWith(d, Q, t, n) /\ d.at = p /\ d.pc = "go"
  <2>1. PICK k : k = Forgiven(call[c], t)
    OBVIOUS
  <2>2. call[c].pc = "mint" /\ call[c].at = p
    BY <1>13 DEF Waiting
  <2>3. CallOK(c, k) /\ k.pc = "mint" /\ k.at = p /\ CallWith(k, Q, t, n)
        /\ (k.refused # None => t # k.refused)
    BY <1>10, <1>12, <2>1, <2>2
  <2>4. Q.gen \in Nat /\ t.user = Q.who
    BY <1>8, <1>9
  <2>5. QED
    BY <1>2, <1>5, <1>9, <2>1, <2>3, <2>4, GrantedOK
<1>14. ASSUME NEW c \in Call
       PROVE  /\ call'[c] \in Client1 /\ CallOK(c, call'[c])
              /\ call'[c].pc # "idle" => CallWith(call'[c], proc'[call'[c].at], t, n)
              /\ call'[c] = Forgiven(call[c], t) \/ (call[c].pc = "mint" /\ call'[c].pc = "go")
  <2>1. CASE c \in Waiting(p)
    <3>1. call'[c] = Granted(Forgiven(call[c], t), t, proc[p].gen + 1) /\ call[c].pc = "mint"
      BY <1>7, <2>1 DEF Waiting
    <3>2. QED
      BY <1>10, <1>13, <2>1, <3>1
  <2>2. CASE c \notin Waiting(p)
    <3>1. call'[c] = Forgiven(call[c], t)
      BY <1>7, <2>2
    <3>2. QED
      BY <1>12, <3>1
  <2>3. QED
    BY <2>1, <2>2
<1>15. TokenInv'
  <2>1. call' \in [Call -> Client1]
    <3>1. \A c \in Call : call'[c] \in Client1
      BY <1>14
    <3>2. DOMAIN call' = Call /\ call' = [c \in Call |-> call'[c]]
      BY <1>7
    <3>3. QED
      BY <3>1, <3>2
  <2>2. file' \in Token \cup {None} /\ (file' # None => file'.n <= tokens'.minted)
    BY <1>2, <1>5, <1>7
  <2>3. net' \subseteq Sending /\ OwnToken' /\ sessions' \in [opened : Nat, ended : SUBSET Nat]
    BY <1>1, <1>7 DEF OwnToken
  <2>4. \A x \in Process : ProcOK(proc'[x], tokens'.minted)
    BY <1>5, <1>11
  <2>5. /\ \A c \in Call : CallOK(c, call'[c])
        /\ \A c \in Call : call'[c].pc # "idle" =>
             CallWith(call'[c], proc'[call'[c].at], file', tokens'.minted)
    BY <1>5, <1>7, <1>14
  <2>6. tokens' \in Minted /\ proc' \in [Process -> Process1]
    BY <1>5, <1>10
  <2>7. QED
    BY <2>1, <2>2, <2>3, <2>4, <2>5, <2>6 DEF TokenInv
<1>16. OpenInv'
  <2>1. \A x \in Process : proc'[x].opening \in {proc[x].opening, None}
    BY <1>9, <1>10
  <2>2. ASSUME NEW c \in Call
        PROVE  /\ (call'[c].pc = "open") <=> (call[c].pc = "open")
               /\ call[c].pc = "open" => /\ call'[c].via = call[c].via /\ call'[c].tok = call[c].tok
                                         /\ call'[c].at = call[c].at
    <3>1. CASE call'[c] = Forgiven(call[c], t)
      <4>1. call[c] \in Client1
        BY <1>1
      <4>2. QED
        BY <3>1, <4>1 DEF Forgiven, Client1
    <3>2. CASE call[c].pc = "mint" /\ call'[c].pc = "go"
      BY <3>2
    <3>3. QED
      BY <1>14, <3>1, <3>2
  <2>3. \A o \in opens : o.by \in Call
    BY <1>1 DEF OpenInv, Opening
  <2>4. \A o \in opens : OpenedFor(o)' = OpenedFor(o)
    BY <2>2 DEF OpenedFor
  <2>5. \A o \in opens : call'[o.by].pc = "open" /\ call'[o.by].via = o.by
    BY <1>1, <2>2, <2>3 DEF OpenInv
  <2>6. \A o \in opens : \A c \in OpenedFor(o)' : call'[c].tok = o.tok /\ call'[c].at = o.at
    <3>1. \A o \in opens : \A c \in OpenedFor(o) : c \in Call /\ call[c].pc = "open"
      BY DEF OpenedFor
    <3>2. QED
      BY <1>1, <2>2, <2>4, <3>1 DEF OpenInv
  <2>7. \A c \in Call : call'[c].pc = "open" => \E o \in opens : o.by = call'[c].via
    BY <1>1, <2>2 DEF OpenInv
  <2>8. \A x \in Process : proc'[x].opening # None => proc'[x].opening \in opens /\ proc'[x].opening.at = x
    BY <1>1, <2>1 DEF OpenInv
  <2>9. QED
    BY <1>1, <1>7, <2>5, <2>6, <2>7, <2>8 DEF OpenInv
<1>17. QED
  BY <1>15, <1>16 DEF ClientInv

LEMMA Failing ==
  ASSUME ClientInv, NEW c \in Call, call[c].pc # "idle"
  PROVE  Over(call[c], "failed") \in Client1
  BY OverOK DEF ClientInv, TokenInv

\* Calls that are given up, and a process that loses nothing by it.
LEMMA FailedClient ==
  ASSUME ClientInv, NEW S \in SUBSET Call, \A c \in S : call[c].pc # "idle",
         call' \in [Call -> Client1],
         \A c \in Call : call'[c] = IF c \in S THEN Over(call[c], "failed") ELSE call[c],
         NEW p \in Process, NEW Q \in Process1, proc' = [proc EXCEPT ![p] = Q],
         Q.mem \in {proc[p].mem, None}, Q.gen = proc[p].gen, Q.who = proc[p].who,
         Q.me \in {proc[p].me, None},
         file' \in {file, None}, UNCHANGED <<tokens, net>>,
         sessions' \in [opened : Nat, ended : SUBSET Nat]
  PROVE  TokenInv'
         /\ proc'[p] = Q /\ (\A x \in Process : x # p => proc'[x] = proc[x])
         /\ \A c \in Call : IF c \in S THEN call'[c].pc = "failed" ELSE call'[c] = call[c]
<1>1. /\ proc \in [Process -> Process1] /\ call \in [Call -> Client1] /\ TokenInv
      /\ tokens \in Minted /\ tokens.minted \in Nat /\ net \subseteq Sending
      /\ ProcOK(proc[p], tokens.minted) /\ proc[p] \in Process1
      /\ file \in Token \cup {None} /\ (file # None => file.n <= tokens.minted)
  BY DEF ClientInv, TokenInv, Minted
<1>2. /\ proc' \in [Process -> Process1] /\ proc'[p] = Q
      /\ \A x \in Process : x # p => proc'[x] = proc[x]
  BY <1>1, ProcessAt
<1>3. ProcOK(Q, tokens.minted) /\ Later(proc[p], Q, file, tokens.minted)
  <2>1. proc[p].gen \in Nat
    BY <1>1 DEF Process1
  <2>2. QED
    BY <1>1, <2>1 DEF ProcOK, Later
<1>4. \A c \in S : /\ CallOK(c, Over(call[c], "failed")) /\ Over(call[c], "failed") \in Client1
                   /\ Over(call[c], "failed").pc = "failed"
                   /\ \A P, f, m : CallWith(Over(call[c], "failed"), P, f, m)
  BY OverOK DEF ClientInv, TokenInv
<1>5. \A c \in Call : IF c \in S THEN call'[c] = Over(call[c], "failed") ELSE call'[c] = call[c]
  BY <1>1, <1>4
<1>6. \A c \in Call : call'[c] = call[c] \/
        (/\ CallOK(c, call'[c])
         /\ call'[c].pc # "idle" =>
              CallWith(call'[c], proc'[call'[c].at], file', tokens'.minted))
  BY <1>4, <1>5
<1>7. TokenInv'
  <2>1. \A x \in Process : proc'[x] = proc[x] \/
          (ProcOK(proc'[x], tokens'.minted) /\ Later(proc[x], proc'[x], file, tokens.minted))
    BY <1>2, <1>3
  <2>2. file' = file \/ (/\ file' \in Token \cup {None}
                         /\ LaterFile(file, file', tokens.minted)
                         /\ file' # None => file'.n <= tokens'.minted)
    BY <1>1 DEF LaterFile
  <2>3. tokens.minted <= tokens'.minted
    BY <1>1
  <2>4. QED
    BY <1>1, <1>2, <1>5, <1>6, <2>1, <2>2, <2>3, TokenStep
<1>8. QED
  BY <1>2, <1>4, <1>5, <1>7

LEMMA MintFailsClient ==
  ASSUME ClientInv, NEW p \in Process, MintFails(p)
  PROVE  ClientInv'
<1> DEFINE Q == [proc[p] EXCEPT !.minting = FALSE]
<1>1. proc[p] \in Process1 /\ OpenInv /\ sessions \in [opened : Nat, ended : SUBSET Nat]
      /\ call \in [Call -> Client1]
  BY DEF ClientInv, TokenInv
<1>2. /\ Q \in Process1 /\ Q.mem = proc[p].mem /\ Q.gen = proc[p].gen /\ Q.who = proc[p].who
      /\ Q.me = proc[p].me /\ Q.opening = proc[p].opening
  BY <1>1 DEF Process1
<1>3. /\ proc' = [proc EXCEPT ![p] = Q]
      /\ call' = [c \in Call |-> IF c \in Waiting(p) THEN Over(call[c], "failed") ELSE call[c]]
      /\ UNCHANGED <<file, tokens, opens, sessions, net>>
  BY DEF MintFails
<1> HIDE DEF Q
<1>4. Waiting(p) \in SUBSET Call /\ \A c \in Waiting(p) : call[c].pc = "mint"
  BY DEF Waiting
<1>5. /\ call' \in [Call -> Client1]
      /\ \A c \in Call : call'[c] = IF c \in Waiting(p) THEN Over(call[c], "failed") ELSE call[c]
  BY <1>1, <1>3, <1>4, Failing
<1>6. /\ TokenInv' /\ proc'[p] = Q /\ (\A x \in Process : x # p => proc'[x] = proc[x])
      /\ \A c \in Call : IF c \in Waiting(p) THEN call'[c].pc = "failed" ELSE call'[c] = call[c]
  BY <1>1, <1>2, <1>3, <1>4, <1>5, FailedClient
<1>7. OpenInv'
  BY <1>1, <1>2, <1>3, <1>4, <1>6, OpenStep
<1>8. QED
  BY <1>6, <1>7 DEF ClientInv

\* A call sends its request under the token it was given.
LEMMA RequestOK ==
  ASSUME ClientInv, NEW c \in Call, call[c].pc \in {"go", "open"}, NEW id \in Nat
  PROVE  LET r == Request(c, call[c].tok, id) IN
         /\ r \in Sending /\ r.tok = call[c].tok /\ r.tok = r.asked
         /\ r.call = c /\ r.op = call[c].op /\ r.stage = "sent"
<1>1. PICK k : k = call[c]
  OBVIOUS
<1>2. /\ k \in Client1 /\ k.tok \in Token /\ k.op \in Operation /\ k.pull \in Pull
      /\ k.part \in 1 .. Len(Batches) /\ k.try \in 0 .. 1 /\ k.resent \in BOOLEAN
  <2>1. CallOK(c, k) /\ k.pc \in {"go", "open"}
    BY <1>1 DEF ClientInv, TokenInv
  <2>2. QED
    BY <2>1 DEF CallOK, Client1, Bearing
<1>3. k.pull.page \in Nat
  BY <1>2 DEF Pull
<1> DEFINE r == [call |-> c, part |-> k.part, page |-> k.pull.page, try |-> k.try,
                 op |-> k.op, tok |-> k.tok, asked |-> k.tok, session |-> id,
                 stage |-> "sent", done |-> {}, copy |-> FALSE, resent |-> k.resent]
<1>4. Request(c, call[c].tok, id) = r
  BY <1>1 DEF Request
<1>5. r \in Sending
  BY <1>2, <1>3 DEF Sending
<1>6. QED
  BY <1>1, <1>4, <1>5

LEMMA SentOK ==
  ASSUME NEW c \in Call, NEW k, CallOK(c, k), k.pc \in {"go", "open"}, NEW r \in Sending,
         r.call = c, r.op = k.op, r.stage = "sent", r.tok = k.tok, r.tok = r.asked,
         NEW b \in BOOLEAN, NEW Q, NEW g, NEW m, CallWith(k, Q, g, m)
  PROVE  /\ Sent(k, r, b) \in Client1 /\ CallOK(c, Sent(k, r, b))
         /\ CallWith(Sent(k, r, b), Q, g, m)
         /\ Sent(k, r, b).pc = "sent" /\ Sent(k, r, b).at = k.at
<1> DEFINE d == [k EXCEPT !.pc = "sent", !.sent = r, !.reused = b, !.via = None]
<1>1. Sent(k, r, b) = d /\ k \in Client1
  BY DEF Sent, CallOK
<1>2. d \in Client1
  <2>1. "sent" \in Pc
    BY DEF Pc
  <2>2. QED
    BY <1>1, <2>1 DEF Client1
<1>3. /\ d.pc = "sent" /\ d.sent = r /\ d.at = k.at /\ d.op = k.op /\ d.tok = k.tok
      /\ d.gen = k.gen /\ d.refused = k.refused /\ d.pull = k.pull
  BY <1>1 DEF Client1
<1> HIDE DEF d
<1>4. CallOK(c, d)
  BY <1>2, <1>3, Nones DEF CallOK, Bearing
<1>5. CallWith(d, Q, g, m)
  BY <1>3 DEF CallWith, Bearing
<1>6. QED
  BY <1>1, <1>2, <1>3, <1>4, <1>5

LEMMA SendClient ==
  ASSUME ClientInv, NEW c \in Call, call[c].pc = "go", NEW id \in Nat, NEW b \in BOOLEAN,
         LET r == Request(c, call[c].tok, id) IN
           net' = net \cup {r} /\ call' = [call EXCEPT ![c] = Sent(call[c], r, b)],
         UNCHANGED <<proc, file, tokens, opens, sessions>>
  PROVE  ClientInv'
<1>1. PICK r : r = Request(c, call[c].tok, id)
  OBVIOUS
<1>2. PICK k : k = call[c]
  OBVIOUS
<1>3. /\ r \in Sending /\ r.tok = k.tok /\ r.tok = r.asked
      /\ r.call = c /\ r.op = k.op /\ r.stage = "sent"
  BY <1>1, <1>2, RequestOK
<1>4. CallOK(c, k) /\ k.pc = "go" /\ CallWith(k, proc[k.at], file, tokens.minted)
  BY <1>2 DEF ClientInv, TokenInv
<1>5. PICK d : d = Sent(k, r, b)
  OBVIOUS
<1>6. /\ d \in Client1 /\ CallOK(c, d) /\ CallWith(d, proc[k.at], file, tokens.minted)
      /\ d.pc = "sent" /\ d.at = k.at
  BY <1>3, <1>4, <1>5, SentOK
<1>7. net' = net \cup {r} /\ call' = [call EXCEPT ![c] = d]
  BY <1>1, <1>2, <1>5
<1>8. net' \subseteq Sending /\ \A q \in net' : q \in net \/ q.tok = q.asked
  BY <1>3, <1>7 DEF ClientInv, TokenInv
<1>9. call[c].pc # "open" /\ d.pc # "open" /\ CallWith(d, proc[d.at], file, tokens.minted)
  BY <1>2, <1>4, <1>6
<1>10. QED
  BY <1>6, <1>7, <1>8, <1>9, CallStep

LEMMA SendHttpClient ==
  ASSUME ClientInv, NEW c \in Call, SendHttp(c)
  PROVE  ClientInv'
<1>1. 0 \in Nat /\ FALSE \in BOOLEAN
  OBVIOUS
<1>2. QED
  BY <1>1, SendClient DEF SendHttp

LEMMA SendOverSessionClient ==
  ASSUME ClientInv, NEW c \in Call, SendOverSession(c)
  PROVE  ClientInv'
<1>1. PICK s : s = proc[call[c].at].session
  OBVIOUS
<1>2. /\ call[c].pc = "go" /\ s # None /\ s.tok = call[c].tok
      /\ net' = net \cup {Request(c, s.tok, s.id)}
      /\ call' = [call EXCEPT ![c] = Sent(call[c], Request(c, s.tok, s.id), TRUE)]
      /\ UNCHANGED <<proc, file, tokens, opens, sessions>>
  BY <1>1 DEF SendOverSession
<1>3. s \in Session
  <2>1. call[c].at \in Process
    BY <1>2 DEF ClientInv, TokenInv, CallOK
  <2>2. proc[call[c].at] \in Process1
    BY <2>1 DEF ClientInv, TokenInv
  <2>3. QED
    BY <1>1, <1>2, <2>2 DEF Process1
<1>4. s.id \in Nat /\ TRUE \in BOOLEAN
  BY <1>3 DEF Session
<1>5. QED
  BY <1>2, <1>4, SendClient

LEMMA TimeOutClient ==
  ASSUME ClientInv, NEW c \in Call, TimeOut(c)
  PROVE  ClientInv'
<1>1. PICK p : p = call[c].at
  OBVIOUS
<1>2. call[c].pc = "sent" /\ p \in Process
  BY <1>1 DEF TimeOut, ClientInv, TokenInv, CallOK
<1>3. PICK Q : Q = WithoutSession(proc[p], call[c])
  OBVIOUS
<1>4. /\ call' = [call EXCEPT ![c] = Over(call[c], "failed")] /\ proc' = [proc EXCEPT ![p] = Q]
      /\ UNCHANGED <<file, tokens, opens, sessions, net>>
  BY <1>1, <1>3 DEF TimeOut
<1>5. proc[p] \in Process1 /\ OpenInv /\ sessions \in [opened : Nat, ended : SUBSET Nat]
      /\ call \in [Call -> Client1]
  BY <1>2 DEF ClientInv, TokenInv
<1>6. /\ Q \in Process1 /\ Q.mem = proc[p].mem /\ Q.gen = proc[p].gen /\ Q.who = proc[p].who
      /\ Q.me = proc[p].me /\ Q.opening = proc[p].opening
  BY <1>3, <1>5, WithoutSessionOK
<1>7. PICK S \in SUBSET Call : S = {c}
  OBVIOUS
<1>8. /\ call' \in [Call -> Client1] /\ \A x \in S : call[x].pc # "idle"
      /\ \A x \in Call : call'[x] = IF x \in S THEN Over(call[x], "failed") ELSE call[x]
  BY <1>2, <1>4, <1>5, <1>7, Failing
<1>9. /\ TokenInv' /\ proc'[p] = Q /\ (\A x \in Process : x # p => proc'[x] = proc[x])
      /\ \A x \in Call : IF x \in S THEN call'[x].pc = "failed" ELSE call'[x] = call[x]
  BY <1>2, <1>4, <1>5, <1>6, <1>8, FailedClient
<1>10. OpenInv'
  <2>1. \A x \in Process : proc'[x].opening \in {proc[x].opening, None}
    BY <1>6, <1>9
  <2>2. \A x \in Call : call'[x] = call[x] \/ (call[x].pc # "open" /\ call'[x].pc # "open")
    BY <1>2, <1>7, <1>9
  <2>3. QED
    BY <1>4, <1>5, <2>1, <2>2, OpenStep
<1>11. QED
  BY <1>9, <1>10 DEF ClientInv

LEMMA CloseClient ==
  ASSUME ClientInv, NEW p \in Process, Close(p)
  PROVE  ClientInv'
<1> DEFINE Q == [proc[p] EXCEPT !.mem = None, !.me = None, !.session = None, !.opening = None]
<1>1. proc[p] \in Process1 /\ OpenInv /\ sessions \in [opened : Nat, ended : SUBSET Nat]
      /\ call \in [Call -> Client1]
  BY DEF ClientInv, TokenInv
<1>2. /\ Q \in Process1 /\ Q.mem = None /\ Q.gen = proc[p].gen /\ Q.who = proc[p].who
      /\ Q.me = None /\ Q.opening = None
  BY <1>1 DEF Process1
<1>3. /\ proc' = [proc EXCEPT ![p] = Q] /\ file' = None
      /\ UNCHANGED <<tokens, call, opens, net>>
  BY DEF Close, ClearFile
<1>4. sessions' \in [opened : Nat, ended : SUBSET Nat]
  <2>1. proc[p].session # None => proc[p].session.id \in Nat
    BY <1>1 DEF Process1, Session
  <2>2. QED
    BY <1>1, <2>1 DEF Close
<1> HIDE DEF Q
<1>5. PICK S \in SUBSET Call : S = {}
  OBVIOUS
<1>6. /\ call' \in [Call -> Client1] /\ \A x \in S : call[x].pc # "idle"
      /\ \A c \in Call : call'[c] = IF c \in S THEN Over(call[c], "failed") ELSE call[c]
  BY <1>1, <1>3, <1>5
<1>7. /\ TokenInv' /\ proc'[p] = Q /\ (\A x \in Process : x # p => proc'[x] = proc[x])
  BY <1>2, <1>3, <1>4, <1>6, FailedClient
<1>8. OpenInv'
  BY <1>1, <1>2, <1>3, <1>7, OpenStep
<1>9. QED
  BY <1>7, <1>8 DEF ClientInv

\* The sessions under way, without one that is done.
LEMMA OpenGone ==
  ASSUME OpenInv, NEW o \in opens, opens' = opens \ {o},
         \A p \in Process : proc'[p].opening \in {proc[p].opening, None} \ {o},
         \A c \in Call : IF c \in OpenedFor(o) THEN call'[c].pc # "open" ELSE call'[c] = call[c]
  PROVE  OpenInv'
<1>1. \A x \in opens : x.by \in Call
  BY DEF OpenInv, Opening
<1>2. \A x \in opens' : x \in opens /\ x.by # o.by
  BY DEF OpenInv
<1>3. \A x \in opens' : call'[x.by].pc = "open" /\ call'[x.by].via = x.by
  <2> SUFFICES ASSUME NEW x \in opens' PROVE call'[x.by].pc = "open" /\ call'[x.by].via = x.by
    OBVIOUS
  <2>1. call[x.by].pc = "open" /\ call[x.by].via = x.by /\ x.by # o.by /\ x.by \in Call
    BY <1>1, <1>2 DEF OpenInv
  <2>2. x.by \notin OpenedFor(o)
    BY <2>1 DEF OpenedFor
  <2>3. QED
    BY <2>1, <2>2
<1>4. \A x \in opens' : \A c \in OpenedFor(x)' : call'[c].tok = x.tok /\ call'[c].at = x.at
  <2> SUFFICES ASSUME NEW x \in opens', NEW c \in OpenedFor(x)'
               PROVE  call'[c].tok = x.tok /\ call'[c].at = x.at
    OBVIOUS
  <2>1. c \in Call /\ call'[c].pc = "open" /\ call'[c].via = x.by
    BY DEF OpenedFor
  <2>2. call'[c] = call[c]
    BY <2>1
  <2>3. c \in OpenedFor(x)
    BY <2>1, <2>2 DEF OpenedFor
  <2>4. QED
    BY <1>2, <2>2, <2>3 DEF OpenInv
<1>5. \A c \in Call : call'[c].pc = "open" => \E x \in opens' : x.by = call'[c].via
  <2> SUFFICES ASSUME NEW c \in Call, call'[c].pc = "open"
               PROVE  \E x \in opens' : x.by = call'[c].via
    OBVIOUS
  <2>1. call'[c] = call[c] /\ c \notin OpenedFor(o)
    OBVIOUS
  <2>2. PICK x \in opens : x.by = call[c].via
    BY <2>1 DEF OpenInv
  <2>3. x # o
    BY <2>1, <2>2 DEF OpenedFor
  <2>4. QED
    BY <2>1, <2>2, <2>3
<1>6. \A p \in Process : proc'[p].opening # None =>
        proc'[p].opening \in opens' /\ proc'[p].opening.at = p
  BY DEF OpenInv
<1>7. opens' \subseteq Opening /\ \A x, y \in opens' : x.by = y.by => x = y
  BY <1>2 DEF OpenInv
<1>8. QED
  BY <1>3, <1>4, <1>5, <1>6, <1>7 DEF OpenInv

\* The process an opening is for, and the calls.
LEMMA OpeningOf ==
  ASSUME ClientInv, NEW o \in opens
  PROVE  /\ o \in Opening /\ o # None /\ o.at \in Process /\ o.tok \in Token
         /\ proc[o.at] \in Process1 /\ ProcOK(proc[o.at], tokens.minted)
         /\ OpenedFor(o) \in SUBSET Call
         /\ \A c \in OpenedFor(o) :
              /\ call[c].pc = "open" /\ call[c].tok = o.tok /\ call[c].at = o.at
              /\ CallOK(c, call[c]) /\ call[c] \in Client1
              /\ CallWith(call[c], proc[o.at], file, tokens.minted)
<1>1. o \in Opening
  BY DEF ClientInv, OpenInv
<1>2. o # None /\ o.at \in Process /\ o.tok \in Token
  BY <1>1, Nones DEF Opening
<1>3. proc[o.at] \in Process1 /\ ProcOK(proc[o.at], tokens.minted)
  BY <1>2 DEF ClientInv, TokenInv
<1>4. \A c \in OpenedFor(o) : c \in Call /\ call[c].pc = "open"
  BY DEF OpenedFor
<1>5. \A c \in OpenedFor(o) : call[c].tok = o.tok /\ call[c].at = o.at
  BY DEF ClientInv, OpenInv
<1>6. \A c \in OpenedFor(o) : CallOK(c, call[c]) /\ call[c] \in Client1
  BY <1>4 DEF ClientInv, TokenInv
<1>7. \A c \in OpenedFor(o) : CallWith(call[c], proc[o.at], file, tokens.minted)
  BY <1>4, <1>5 DEF ClientInv, TokenInv
<1>8. OpenedFor(o) \in SUBSET Call
  BY <1>4
<1>9. QED
  BY <1>1, <1>2, <1>3, <1>4, <1>5, <1>6, <1>7, <1>8

LEMMA NoLongerOK ==
  ASSUME ClientInv, NEW o \in opens
  PROVE  LET P == proc[o.at]  Q == NoLongerOpening(o) IN
         /\ Q \in Process1 /\ Q.mem = P.mem /\ Q.gen = P.gen /\ Q.who = P.who /\ Q.me = P.me
         /\ Q.opening \in {P.opening, None} \ {o}
<1>1. PICK P : P = proc[o.at]
  OBVIOUS
<1>2. P \in Process1 /\ o # None
  BY <1>1, OpeningOf
<1> DEFINE e == IF P.opening = o THEN None ELSE P.opening
           Q == [P EXCEPT !.opening = e]
<1>3. NoLongerOpening(o) = Q
  BY <1>1 DEF NoLongerOpening
<1>4. e \in {P.opening, None} \ {o} /\ e \in Opening \cup {None}
  BY <1>2 DEF Process1
<1> HIDE DEF e
<1>5. /\ Q \in Process1 /\ Q.mem = P.mem /\ Q.gen = P.gen /\ Q.who = P.who /\ Q.me = P.me
      /\ Q.opening = e
  BY <1>2, <1>4 DEF Process1
<1>6. QED
  BY <1>1, <1>3, <1>4, <1>5

\* Whose opening is over, once that process has let go of it.
LEMMA LetGo ==
  ASSUME ClientInv, NEW o \in opens, NEW Q, Q.opening \in {proc[o.at].opening, None} \ {o},
         proc' = [proc EXCEPT ![o.at] = Q]
  PROVE  \A p \in Process : proc'[p].opening \in {proc[p].opening, None} \ {o}
<1>1. o.at \in Process /\ proc \in [Process -> Process1] /\ o # None
  BY OpeningOf DEF ClientInv, TokenInv
<1>2. proc'[o.at] = Q /\ \A p \in Process : p # o.at => proc'[p] = proc[p]
  BY <1>1
<1>3. \A p \in Process : proc[p].opening # None => proc[p].opening.at = p
  BY DEF ClientInv, OpenInv
<1>4. QED
  BY <1>1, <1>2, <1>3

LEMMA OpenFailsClient ==
  ASSUME ClientInv, NEW o \in opens, OpenFails(o)
  PROVE  ClientInv'
<1>1. PICK Q : Q = NoLongerOpening(o)
  OBVIOUS
<1>2. /\ Q \in Process1 /\ Q.mem = proc[o.at].mem /\ Q.gen = proc[o.at].gen
      /\ Q.who = proc[o.at].who /\ Q.me = proc[o.at].me
      /\ Q.opening \in {proc[o.at].opening, None} \ {o}
  BY <1>1, NoLongerOK
<1>3. PICK S \in SUBSET Call : S = OpenedFor(o)
  BY OpeningOf
<1>4. /\ proc' = [proc EXCEPT ![o.at] = Q] /\ opens' = opens \ {o}
      /\ call' = [c \in Call |-> IF c \in S THEN Over(call[c], "failed") ELSE call[c]]
      /\ UNCHANGED <<file, tokens, sessions, net>>
  BY <1>1, <1>3 DEF OpenFails
<1>5. /\ o.at \in Process /\ sessions \in [opened : Nat, ended : SUBSET Nat]
      /\ call \in [Call -> Client1] /\ OpenInv
      /\ \A c \in S : call[c].pc # "idle"
  BY <1>3, OpeningOf DEF ClientInv, TokenInv
<1>6. /\ call' \in [Call -> Client1]
      /\ \A c \in Call : call'[c] = IF c \in S THEN Over(call[c], "failed") ELSE call[c]
  BY <1>4, <1>5, Failing
<1>7. /\ TokenInv'
      /\ \A c \in Call : IF c \in S THEN call'[c].pc = "failed" ELSE call'[c] = call[c]
  BY <1>2, <1>4, <1>5, <1>6, FailedClient
<1>8. OpenInv'
  <2>1. \A p \in Process : proc'[p].opening \in {proc[p].opening, None} \ {o}
    BY <1>2, <1>4, LetGo
  <2>2. \A c \in Call : IF c \in OpenedFor(o) THEN call'[c].pc # "open" ELSE call'[c] = call[c]
    BY <1>3, <1>7
  <2>3. QED
    BY <1>4, <1>5, <2>1, <2>2, OpenGone
<1>9. QED
  BY <1>7, <1>8 DEF ClientInv

\* What a step around one process leaves of the tokens.
LEMMA OneProcess ==
  ASSUME ClientInv, NEW p \in Process, NEW Q \in Process1, proc' = [proc EXCEPT ![p] = Q],
         ProcOK(Q, tokens.minted), Later(proc[p], Q, file, tokens.minted),
         file' \in {file, None}, UNCHANGED tokens,
         call' \in [Call -> Client1],
         \A c \in Call : call'[c] = call[c] \/
           (CallOK(c, call'[c]) /\ call'[c].at = p /\ CallWith(call'[c], Q, file', tokens.minted)),
         net' \subseteq Sending, \A r \in net' : r \in net \/ r.tok = r.asked,
         sessions' \in [opened : Nat, ended : SUBSET Nat]
  PROVE  TokenInv'
<1>1. /\ proc \in [Process -> Process1] /\ TokenInv /\ tokens \in Minted /\ tokens.minted \in Nat
      /\ file \in Token \cup {None} /\ (file # None => file.n <= tokens.minted)
  BY DEF ClientInv, TokenInv, Minted
<1>2. /\ proc' \in [Process -> Process1] /\ proc'[p] = Q
      /\ \A x \in Process : x # p => proc'[x] = proc[x]
  BY <1>1, ProcessAt
<1>3. \A x \in Process : proc'[x] = proc[x] \/
        (ProcOK(proc'[x], tokens'.minted) /\ Later(proc[x], proc'[x], file, tokens.minted))
  BY <1>2
<1>4. file' = file \/ (/\ file' \in Token \cup {None}
                       /\ LaterFile(file, file', tokens.minted)
                       /\ file' # None => file'.n <= tokens'.minted)
  BY <1>1 DEF LaterFile
<1>5. \A c \in Call : call'[c] = call[c] \/
        (/\ CallOK(c, call'[c])
         /\ call'[c].pc # "idle" =>
              CallWith(call'[c], proc'[call'[c].at], file', tokens'.minted))
  BY <1>2
<1>6. tokens.minted <= tokens'.minted
  BY <1>1
<1>7. QED
  BY <1>1, <1>2, <1>3, <1>4, <1>5, <1>6, TokenStep

LEMMA OpenDoneClient ==
  ASSUME ClientInv, NEW o \in opens, OpenDone(o)
  PROVE  ClientInv'
<1>1. PICK id : id = sessions.opened + 1
  OBVIOUS
<1>2. PICK p : p = o.at
  OBVIOUS
<1>3. PICK R : R = NoLongerOpening(o)
  OBVIOUS
<1> DEFINE session == [tok |-> o.tok, id |-> id]
           Q == [R EXCEPT !.session = session]
<1>4. /\ sessions \in [opened : Nat, ended : SUBSET Nat] /\ sessions.opened \in Nat /\ id \in Nat
      /\ call \in [Call -> Client1] /\ OpenInv /\ net \subseteq Sending
      /\ p \in Process /\ proc[p] \in Process1 /\ ProcOK(proc[p], tokens.minted)
      /\ o.tok \in Token
  <2>1. /\ sessions \in [opened : Nat, ended : SUBSET Nat] /\ sessions.opened \in Nat
        /\ call \in [Call -> Client1] /\ OpenInv /\ net \subseteq Sending
    BY DEF ClientInv, TokenInv
  <2>2. id \in Nat
    BY <1>1, <2>1
  <2>3. QED
    BY <1>2, <2>1, <2>2, OpeningOf
<1>5. /\ R \in Process1 /\ R.mem = proc[p].mem /\ R.gen = proc[p].gen
      /\ R.who = proc[p].who /\ R.me = proc[p].me
      /\ R.opening \in {proc[p].opening, None} \ {o}
  BY <1>2, <1>3, NoLongerOK
<1>6. /\ proc' = [proc EXCEPT ![p] = Q] /\ opens' = opens \ {o}
      /\ sessions' = [sessions EXCEPT !.opened = id]
      /\ net' = net \cup {Request(c, o.tok, id) : c \in OpenedFor(o)}
      /\ call' = [c \in Call |-> IF c \in OpenedFor(o)
                                 THEN Sent(call[c], Request(c, o.tok, id), FALSE) ELSE call[c]]
      /\ UNCHANGED <<file, tokens>>
  BY <1>1, <1>2, <1>3 DEF OpenDone
<1>7. session \in Session
  BY <1>4 DEF Session
<1> HIDE DEF session
<1>8. /\ Q \in Process1 /\ Q.mem = proc[p].mem /\ Q.gen = proc[p].gen
      /\ Q.who = proc[p].who /\ Q.me = proc[p].me
      /\ Q.opening \in {proc[p].opening, None} \ {o}
  BY <1>5, <1>7 DEF Process1
<1> HIDE DEF Q
<1>9. ProcOK(Q, tokens.minted) /\ Later(proc[p], Q, file, tokens.minted)
  <2>1. proc[p].gen \in Nat
    BY <1>4 DEF Process1
  <2>2. QED
    BY <1>4, <1>8, <2>1 DEF ProcOK, Later
<1>10. ASSUME NEW c \in OpenedFor(o)
       PROVE  /\ Request(c, o.tok, id) \in Sending
              /\ Request(c, o.tok, id).tok = Request(c, o.tok, id).asked
              /\ c \in Call /\ call'[c] \in Client1
              /\ CallOK(c, call'[c]) /\ call'[c].at = p /\ call'[c].pc = "sent"
              /\ CallWith(call'[c], Q, file, tokens.minted)
  <2>1. PICK k : k = call[c]
    OBVIOUS
  <2>2. /\ c \in Call /\ k.pc = "open" /\ k.tok = o.tok /\ k.at = p /\ CallOK(c, k) /\ k \in Client1
        /\ CallWith(k, proc[p], file, tokens.minted)
    BY <1>2, <2>1, OpeningOf
  <2>3. PICK r : r = Request(c, o.tok, id)
    OBVIOUS
  <2>4. /\ r \in Sending /\ r.tok = k.tok /\ r.tok = r.asked
        /\ r.call = c /\ r.op = k.op /\ r.stage = "sent"
    BY <1>4, <2>1, <2>2, <2>3, RequestOK
  <2>5. CallWith(k, Q, file, tokens.minted)
    BY <1>8, <2>2 DEF CallWith
  <2>6. /\ Sent(k, r, FALSE) \in Client1 /\ CallOK(c, Sent(k, r, FALSE))
        /\ CallWith(Sent(k, r, FALSE), Q, file, tokens.minted)
        /\ Sent(k, r, FALSE).pc = "sent" /\ Sent(k, r, FALSE).at = p
    BY <2>2, <2>4, <2>5, SentOK
  <2>7. call'[c] = Sent(k, r, FALSE)
    BY <1>6, <2>1, <2>2, <2>3
  <2>8. QED
    BY <2>2, <2>3, <2>4, <2>6, <2>7
<1>11. \A c \in Call : c \notin OpenedFor(o) => call'[c] = call[c]
  BY <1>6
<1>12. call' \in [Call -> Client1]
  <2>1. \A c \in Call : call'[c] \in Client1
    BY <1>4, <1>10, <1>11
  <2>2. QED
    BY <1>6, <2>1
<1>13. net' \subseteq Sending /\ \A r \in net' : r \in net \/ r.tok = r.asked
  BY <1>4, <1>6, <1>10
<1>14. sessions' \in [opened : Nat, ended : SUBSET Nat]
  BY <1>4, <1>6
<1>15. TokenInv'
  BY <1>4, <1>6, <1>8, <1>9, <1>10, <1>11, <1>12, <1>13, <1>14, OneProcess
<1>16. OpenInv'
  <2>1. \A x \in Process : proc'[x].opening \in {proc[x].opening, None} \ {o}
    BY <1>2, <1>6, <1>8, LetGo
  <2>2. \A c \in Call : IF c \in OpenedFor(o) THEN call'[c].pc # "open" ELSE call'[c] = call[c]
    BY <1>10, <1>11
  <2>3. QED
    BY <1>4, <1>6, <2>1, <2>2, OpenGone
<1>17. QED
  BY <1>15, <1>16 DEF ClientInv

LEMMA OpenRejectedClient ==
  ASSUME ClientInv, NEW o \in opens, OpenRejected(o)
  PROVE  ClientInv'
<1>1. PICK p : p = o.at
  OBVIOUS
<1>2. PICK R : R = NoLongerOpening(o)
  OBVIOUS
<1> DEFINE retrying == {c \in OpenedFor(o) : call[c].try = 0}
           mem == IF retrying # {} THEN None ELSE proc[p].mem
           Q == [R EXCEPT !.mem = mem]
<1>3. /\ sessions \in [opened : Nat, ended : SUBSET Nat]
      /\ call \in [Call -> Client1] /\ OpenInv /\ net \subseteq Sending
      /\ p \in Process /\ proc[p] \in Process1 /\ ProcOK(proc[p], tokens.minted)
      /\ proc[p].gen \in Nat /\ proc[p].mem \in Token \cup {None}
      /\ tokens.minted \in Nat
      /\ \A r \in net : r.tok = r.asked
  <2>1. /\ sessions \in [opened : Nat, ended : SUBSET Nat]
        /\ call \in [Call -> Client1] /\ OpenInv /\ net \subseteq Sending
        /\ tokens.minted \in Nat /\ \A r \in net : r.tok = r.asked
    BY DEF ClientInv, TokenInv, OwnToken, Minted
  <2>2. p \in Process /\ proc[p] \in Process1 /\ ProcOK(proc[p], tokens.minted)
    BY <1>1, OpeningOf
  <2>3. QED
    BY <2>1, <2>2 DEF Process1
<1>4. /\ R \in Process1 /\ R.mem = proc[p].mem /\ R.gen = proc[p].gen
      /\ R.who = proc[p].who /\ R.me = proc[p].me
      /\ R.opening \in {proc[p].opening, None} \ {o}
  BY <1>1, <1>2, NoLongerOK
<1>5. /\ proc' = [proc EXCEPT ![p] = Q] /\ opens' = opens \ {o}
      /\ file' = (IF retrying # {} THEN None ELSE file)
      /\ call' = [c \in Call |-> IF c \in OpenedFor(o) THEN Rejected(call[c]) ELSE call[c]]
      /\ UNCHANGED <<tokens, sessions, net>>
  BY <1>1, <1>2 DEF OpenRejected, ClearFile
<1>6. mem \in {proc[p].mem, None} /\ (retrying # {} => mem = None /\ file' = None)
      /\ file' \in {file, None}
  BY <1>5
<1>7. \A c \in OpenedFor(o) : call[c].try = 0 => retrying # {}
  OBVIOUS
<1> HIDE DEF retrying, mem
<1>8. /\ Q \in Process1 /\ Q.mem = mem /\ Q.gen = proc[p].gen
      /\ Q.who = proc[p].who /\ Q.me = proc[p].me
      /\ Q.opening \in {proc[p].opening, None} \ {o}
  BY <1>3, <1>4, <1>6 DEF Process1
<1> HIDE DEF Q
<1>9. ProcOK(Q, tokens.minted) /\ Later(proc[p], Q, file, tokens.minted)
  BY <1>3, <1>6, <1>8 DEF ProcOK, Later
<1>10. ASSUME NEW c \in OpenedFor(o)
       PROVE  /\ c \in Call /\ call'[c] \in Client1
              /\ CallOK(c, call'[c]) /\ call'[c].at = p /\ call'[c].pc # "open"
              /\ CallWith(call'[c], Q, file', tokens.minted)
  <2>1. PICK k : k = call[c]
    OBVIOUS
  <2>2. /\ c \in Call /\ k.pc = "open" /\ k.at = p /\ CallOK(c, k) /\ k \in Client1
        /\ CallWith(k, proc[p], file, tokens.minted) /\ k.tok \in Token
    BY <1>1, <2>1, OpeningOf
  <2>3. PICK d : d = Rejected(k)
    OBVIOUS
  <2>4. call'[c] = d
    BY <1>5, <2>1, <2>2, <2>3
  <2>5. CASE d = Over(k, "failed")
    <3>1. CallOK(c, d) /\ d.pc = "failed" /\ d \in Client1 /\ CallWith(d, Q, file', tokens.minted)
      BY <2>2, <2>5, OverOK
    <3>2. d.at = k.at
      BY <2>2, <2>5, OverCall DEF Ended
    <3>3. QED
      BY <2>2, <2>4, <3>1, <3>2
  <2>6. CASE d \in Client1 /\ Again(k, d) /\ d.pull = k.pull /\ d.refused = k.tok /\ k.try = 0
    <3>1. CallOK(c, d)
      BY <2>2, <2>6 DEF CallOK, Again, Bearing
    <3>2. Q.mem = None /\ file' = None
      BY <1>6, <1>7, <1>8, <2>1, <2>6
    <3>3. CallWith(d, Q, file', tokens.minted)
      BY <2>2, <2>6, <3>2, Nones DEF CallWith, Again, Bearing
    <3>4. QED
      BY <2>2, <2>4, <2>6, <3>1, <3>3 DEF Again
  <2>7. QED
    BY <2>2, <2>3, <2>5, <2>6, RejectedCall
<1>11. \A c \in Call : c \notin OpenedFor(o) => call'[c] = call[c]
  BY <1>5
<1>12. call' \in [Call -> Client1]
  <2>1. \A c \in Call : call'[c] \in Client1
    BY <1>3, <1>10, <1>11
  <2>2. QED
    BY <1>5, <2>1
<1>13. TokenInv'
  BY <1>3, <1>5, <1>6, <1>8, <1>9, <1>10, <1>11, <1>12, OneProcess
<1>14. OpenInv'
  <2>1. \A x \in Process : proc'[x].opening \in {proc[x].opening, None} \ {o}
    BY <1>1, <1>5, <1>8, LetGo
  <2>2. \A c \in Call : IF c \in OpenedFor(o) THEN call'[c].pc # "open" ELSE call'[c] = call[c]
    BY <1>10, <1>11
  <2>3. QED
    BY <1>3, <1>5, <2>1, <2>2, OpenGone
<1>15. QED
  BY <1>13, <1>14 DEF ClientInv

\* A call that waits for an opening: one that is there, or its own new one.
LEMMA OpenJoined ==
  ASSUME ClientInv, NEW c \in Call, call[c].pc = "go", NEW d,
         d.pc = "open", d.tok = call[c].tok, d.at = call[c].at,
         call'[c] = d, \A x \in Call : x # c => call'[x] = call[x],
         NEW o \in Opening, o.at = call[c].at, o.tok = call[c].tok, d.via = o.by,
         opens' = opens \cup {o}, o \in opens \/ o.by = c,
         \A p \in Process : proc'[p].opening = proc[p].opening
                            \/ (proc'[p].opening = o /\ p = o.at)
  PROVE  OpenInv'
<1>1. /\ OpenInv /\ opens \subseteq Opening /\ \A x \in opens' : x.by \in Call
  BY DEF ClientInv, OpenInv, Opening
<1>2. \A x \in opens : x.by # c /\ call'[x.by].pc = "open" /\ call'[x.by].via = x.by
  BY <1>1 DEF OpenInv
<1>3. \A x \in opens' : call'[x.by].pc = "open" /\ call'[x.by].via = x.by
  BY <1>2
<1>4. \A x, y \in opens' : x.by = y.by => x = y
  BY <1>1, <1>2 DEF OpenInv
<1>5. ASSUME NEW x \in opens', NEW y \in OpenedFor(x)'
      PROVE  call'[y].tok = x.tok /\ call'[y].at = x.at
  <2>1. y \in Call /\ call'[y].pc = "open" /\ call'[y].via = x.by
    BY <1>5 DEF OpenedFor
  <2>2. CASE y = c
    <3>1. x = o
      BY <1>4, <2>1, <2>2
    <3>2. QED
      BY <2>2, <3>1
  <2>3. CASE y # c
    <3>1. call'[y] = call[y]
      BY <2>1, <2>3
    <3>2. PICK z \in opens : z.by = call[y].via
      BY <1>1, <2>1, <3>1 DEF OpenInv
    <3>3. z = x
      BY <1>4, <2>1, <3>1, <3>2
    <3>4. y \in OpenedFor(x)
      BY <2>1, <3>1 DEF OpenedFor
    <3>5. QED
      BY <1>1, <3>1, <3>2, <3>3, <3>4 DEF OpenInv
  <2>4. QED
    BY <2>2, <2>3
<1>6. \A x \in Call : call'[x].pc = "open" => \E y \in opens' : y.by = call'[x].via
  BY <1>1 DEF OpenInv
<1>7. \A p \in Process : proc'[p].opening # None =>
        proc'[p].opening \in opens' /\ proc'[p].opening.at = p
  BY <1>1 DEF OpenInv
<1>8. opens' \subseteq Opening
  BY <1>1
<1>9. QED
  BY <1>3, <1>4, <1>5, <1>6, <1>7, <1>8 DEF OpenInv

LEMMA ConnectClient ==
  ASSUME ClientInv, NEW c \in Call, Connect(c)
  PROVE  ClientInv'
<1>1. PICK k : k = call[c]
  OBVIOUS
<1>2. PICK p : p = k.at
  OBVIOUS
<1>3. PICK P : P = proc[p]
  OBVIOUS
<1>4. /\ k.pc = "go" /\ k \in Client1 /\ k.tok \in Token /\ p \in Process /\ CallOK(c, k)
      /\ P \in Process1 /\ ProcOK(P, tokens.minted) /\ P.gen \in Nat
      /\ CallWith(k, P, file, tokens.minted)
      /\ call \in [Call -> Client1] /\ proc \in [Process -> Process1]
      /\ sessions \in [opened : Nat, ended : SUBSET Nat]
      /\ net \subseteq Sending /\ \A r \in net : r.tok = r.asked
  <2>1. k.pc = "go" /\ CallOK(c, k)
    BY <1>1 DEF Connect, ClientInv, TokenInv
  <2>2. k \in Client1 /\ k.tok \in Token /\ p \in Process
    BY <1>2, <2>1 DEF CallOK, Bearing
  <2>3. P \in Process1 /\ ProcOK(P, tokens.minted) /\ CallWith(k, P, file, tokens.minted)
    BY <1>1, <1>2, <1>3, <2>1, <2>2 DEF ClientInv, TokenInv
  <2>4. P.gen \in Nat
    BY <2>3 DEF Process1
  <2>5. QED
    BY <2>1, <2>2, <2>3, <2>4 DEF ClientInv, TokenInv, OwnToken
<1> DEFINE new == [at |-> p, tok |-> k.tok, by |-> c]
           joins == OwnOpening(p, k.tok)
<1>5. PICK o : o = IF joins THEN P.opening ELSE new
  OBVIOUS
<1> DEFINE Q == [P EXCEPT !.session = None, !.opening = o]
           d == [k EXCEPT !.pc = "open", !.via = o.by]
<1>6. /\ proc' = [proc EXCEPT ![p] = Q]
      /\ UNCHANGED <<file, tokens, net>>
  <2>1. proc' = [proc EXCEPT ![p].session = None, ![p].opening = IF joins THEN @ ELSE new]
        /\ UNCHANGED <<file, tokens, net>>
    BY <1>1, <1>2, <1>3 DEF Connect
  <2>2. [proc EXCEPT ![p].session = None, ![p].opening = IF joins THEN @ ELSE new]
        = [proc EXCEPT ![p] = [P EXCEPT !.session = None, !.opening = IF joins THEN @ ELSE new]]
    BY <1>3, <1>4
  <2>3. [P EXCEPT !.session = None, !.opening = IF joins THEN @ ELSE new] = Q
    BY <1>4, <1>5 DEF Process1
  <2>4. QED
    BY <2>1, <2>2, <2>3
<1>7. call' = [call EXCEPT ![c] = d]
  BY <1>1, <1>2, <1>3, <1>5 DEF Connect
<1>8. sessions' \in [opened : Nat, ended : SUBSET Nat]
  <2>1. P.session # None => P.session.id \in Nat
    BY <1>4 DEF Process1, Session
  <2>2. QED
    BY <1>1, <1>2, <1>3, <1>4, <2>1 DEF Connect
<1>9. /\ o \in Opening /\ o.at = p /\ o.tok = k.tok /\ (o \in opens \/ o.by = c)
      /\ opens' = opens \cup {o}
  <2>1. new \in Opening /\ new.by = c /\ new.at = p /\ new.tok = k.tok
    BY <1>4 DEF Opening
  <2>2. joins => P.opening \in opens /\ P.opening.at = p /\ P.opening.tok = k.tok
    BY <1>3, <1>4 DEF OwnOpening, ClientInv, OpenInv
  <2>3. opens \subseteq Opening
    BY DEF ClientInv, OpenInv
  <2>4. opens' = IF joins THEN opens ELSE opens \cup {new}
    BY <1>1, <1>2 DEF Connect
  <2>5. QED
    BY <1>5, <2>1, <2>2, <2>3, <2>4
<1>10. /\ Q \in Process1 /\ Q.mem = P.mem /\ Q.gen = P.gen /\ Q.who = P.who /\ Q.me = P.me
      /\ Q.opening = o
  <2>1. P \in Process1 /\ o \in Opening
    BY <1>4, <1>9
  <2> HIDE DEF new, joins
  <2>2. o \in Opening \cup {None} /\ None \in Session \cup {None}
    BY <2>1
  <2>3. Q \in Process1
    BY <2>1, <2>2 DEF Process1
  <2>4. Q.mem = P.mem /\ Q.gen = P.gen /\ Q.who = P.who /\ Q.me = P.me
    BY <2>1 DEF Process1
  <2>5. Q.opening = o
    BY <2>1 DEF Process1
  <2>6. QED
    BY <2>3, <2>4, <2>5
<1>11. d \in Client1
  <2>1. "open" \in Pc /\ o.by \in Call
    BY <1>9 DEF Pc, Opening
  <2>2. QED
    BY <1>4, <2>1 DEF Client1
<1>12. /\ d.pc = "open" /\ d.via = o.by /\ d.at = k.at /\ d.tok = k.tok /\ d.op = k.op
       /\ d.sent = k.sent /\ d.refused = k.refused /\ d.pull = k.pull /\ d.gen = k.gen
  BY <1>4 DEF Client1
<1> HIDE DEF Q, d
<1>13. ProcOK(Q, tokens.minted) /\ Later(P, Q, file, tokens.minted)
  BY <1>4, <1>10 DEF ProcOK, Later
<1>14. CallOK(c, d)
  BY <1>4, <1>11, <1>12 DEF CallOK, Bearing
<1>15. CallWith(d, Q, file, tokens.minted)
  BY <1>4, <1>10, <1>12 DEF CallWith, Bearing
<1>16. /\ call' \in [Call -> Client1] /\ call'[c] = d /\ \A x \in Call : x # c => call'[x] = call[x]
  BY <1>4, <1>7, <1>11, CallAt
<1>17. TokenInv'
  <2>1. \A x \in Call : call'[x] = call[x] \/
          (CallOK(x, call'[x]) /\ call'[x].at = p /\ CallWith(call'[x], Q, file', tokens.minted))
    BY <1>2, <1>6, <1>12, <1>14, <1>15, <1>16
  <2>2. QED
    BY <1>3, <1>4, <1>6, <1>8, <1>10, <1>13, <1>16, <2>1, OneProcess
<1>18. OpenInv'
  <2>1. \A x \in Process : proc'[x].opening = proc[x].opening
                            \/ (proc'[x].opening = o /\ x = o.at)
    BY <1>4, <1>6, <1>9, <1>10
  <2>2. QED
    BY <1>1, <1>2, <1>4, <1>9, <1>12, <1>16, <2>1, OpenJoined
<1>19. QED
  BY <1>17, <1>18 DEF ClientInv

-----------------------------------------------------------------------------
(* The service's steps, and the tokens *)

\* Every operation takes from a class there is.
LEMMA Classes == \A op \in Operation : op.route.class \in Class
<1>1. /\ \A does : Get(does).class = "read"
      /\ \A does : OfDocs(does).class = "write"
      /\ \A class, does : Route(class, does).class = class
      /\ \A class, does : Keyed(Route(class, does)).class = class
  BY DEF Get, OfDocs, Keyed, Route
<1>2. /\ \A how, route : Ask(how, route).route = route
      /\ \A how, route : Idempotent(Ask(how, route)).route = route
  BY DEF Idempotent, Ask
<1>3. \A op \in {me, dataRules, listDeleted, collections, collectionsForUser, createdAt,
                 maxTaskNumber, leaseList, health, prepare, describe, pull} : op.route.class = "read"
  <2>1. me.route.class = "read"
    BY <1>1, <1>2 DEF me, GetMe
  <2>2. createdAt.route.class = "read"
    <3>1. \A route : [Ask("once", route) EXCEPT !.allow404 = TRUE].route = route
      BY DEF Ask
    <3>2. QED
      BY <1>1, <3>1 DEF createdAt, GetCreatedAt
  <2>3. prepare.route.class = "read" /\ describe.route.class = "read"
    <3>1. GetMe.class = "read"
      BY <1>1 DEF GetMe
    <3>2. prepare.route = GetMe /\ describe.route = GetMe
      BY <1>2 DEF prepare, describe
    <3>3. QED
      BY <3>1, <3>2
  <2>4. \A op \in {listDeleted, collections, collectionsForUser, maxTaskNumber, leaseList,
                   health, pull} : op.route.class = "read"
    BY <1>1, <1>2
       DEF listDeleted, collections, collectionsForUser, maxTaskNumber, leaseList, health, pull,
           GetHealth, GetMyCollections, GetMaxTaskNumber, GetCollections, GetDeleted, GetLeases,
           GetDocuments
  <2>5. QED
    BY <2>1, <2>2, <2>3, <2>4 DEF dataRules
<1>4. \A op \in {collectionsByIds, ownersByIds, similar} : op.route.class \in {"read", "similar"}
  BY <1>1, <1>2 DEF collectionsByIds, ownersByIds, similar, PostCollections, PostOwners,
                    PostSimilar
<1>5. \A op \in {leaseAcquire, leaseHeartbeat, leaseRelease, addRelatedIds} :
        op.route.class = "write"
  BY <1>1, <1>2 DEF leaseAcquire, leaseHeartbeat, leaseRelease, addRelatedIds, LeasesAcquire,
                    LeasesHeartbeat, LeasesRelease, PostRelatedIds
<1>6. \A op \in {upsertMany, delete, restore, purge, counterNext, nextTaskId} :
        op.route.class = "write"
  BY <1>1, <1>2 DEF upsertMany, delete, restore, purge, counterNext, nextTaskId, BatchUpsert,
                    BatchDelete, PostRestore, PostPurge, CountersNext, TaskIdsNext
<1>7. QED
  BY <1>3, <1>4, <1>5, <1>6 DEF Operation, Class

-----------------------------------------------------------------------------
(* The invariant *)

StoreInv == RowsOK /\ held \subseteq Doc

\* A keyed request between its look-up and its record.
AtWork(r, k) == WithKey(r) /\ TheKey(r) = k /\ r.stage \in {"run", "work", "keep"}
Recorded(k) == \E user \in User : <<user, k>> \in kept

\* One request at most is at work under a key; what it did is not done before,
\* and is on record once it is answered.
KeyInv(k) ==
  /\ ran[k] <= 1
  /\ \A q, r \in net : AtWork(q, k) /\ AtWork(r, k) => q = r
  /\ \A r \in net : AtWork(r, k) /\ ~Begun(r) => ran[k] = 0
  /\ ran[k] > 0 => Recorded(k) \/ \E r \in net : AtWork(r, k) /\ Begun(r)

RecordInv ==
  /\ kept \subseteq User \X Key /\ torn \subseteq Key /\ ran \in [Key -> Nat]
  /\ \A k \in Key \ torn : KeyInv(k)

LimitInv == LimitOK /\ SweptInv

Inv == ClientInv /\ StoreInv /\ RecordInv /\ LimitInv

\* What the clients and the faults leave alone at the service; what they send
\* has yet to arrive.
Outer ==
  /\ UNCHANGED <<records, limits, store, now>>
  /\ net \subseteq net' /\ \A r \in net' : r \in net \/ r.stage = "sent"

LEMMA OuterSteps ==
  ASSUME ClientInv,
         \/ \E c \in Call, p \in Process : \E op \in Asked[c] : Begin(c, p, op)
         \/ \E c \in Call : GetToken(c) \/ SendHttp(c) \/ SendOverSession(c) \/ Connect(c)
         \/ \E p \in Process : \E t \in Printable : MintDone(p, t)
         \/ \E o \in opens : OpenDone(o) \/ OpenRejected(o)
         \/ \E p \in Process : MintFails(p) \/ Close(p)
         \/ \E o \in opens : OpenFails(o)
         \/ \E c \in Call : TimeOut(c) \/ Duplicate(c)
         \/ \E id \in 1 .. sessions.opened : SessionEnds(id)
         \/ \E user \in User : SwitchAccount(user)
         \/ TokenEnds
  PROVE  ClientInv' /\ Outer /\ UNCHANGED held
<1>1. \A c, tok, id : Request(c, tok, id).stage = "sent"
  BY DEF Request
<1>2. ASSUME NEW c \in Call, NEW p \in Process, NEW op \in Asked[c], Begin(c, p, op)
      PROVE  ClientInv' /\ Outer /\ UNCHANGED held
  <2>1. op \in Operation
    BY RequestsAssumption
  <2>2. ClientInv'
    BY <1>2, <2>1, BeginClient
  <2>3. QED
    BY <1>2, <2>2 DEF Begin, Outer, records, limits, store
<1>3. ASSUME NEW c \in Call, GetToken(c)
      PROVE  ClientInv' /\ Outer /\ UNCHANGED held
  BY <1>3, GetTokenClient DEF GetToken, Outer, records, limits, store
<1>4. ASSUME NEW c \in Call, SendHttp(c)
      PROVE  ClientInv' /\ Outer /\ UNCHANGED held
  BY <1>1, <1>4, SendHttpClient DEF SendHttp, Outer, records, limits, store
<1>5. ASSUME NEW c \in Call, SendOverSession(c)
      PROVE  ClientInv' /\ Outer /\ UNCHANGED held
  <2>1. ClientInv'
    BY <1>5, SendOverSessionClient
  <2>2. PICK r : r = Request(c, proc[call[c].at].session.tok, proc[call[c].at].session.id)
    OBVIOUS
  <2>3. net' = net \cup {r} /\ UNCHANGED <<records, limits, store, now, held>>
    BY <1>5, <2>2 DEF SendOverSession
  <2>4. r.stage = "sent"
    BY <1>1, <2>2
  <2>5. QED
    BY <2>1, <2>3, <2>4 DEF Outer
<1>6. ASSUME NEW c \in Call, Connect(c)
      PROVE  ClientInv' /\ Outer /\ UNCHANGED held
  BY <1>6, ConnectClient DEF Connect, Outer, records, limits, store
<1>7. ASSUME NEW p \in Process, NEW t \in Printable, MintDone(p, t)
      PROVE  ClientInv' /\ Outer /\ UNCHANGED held
  BY <1>7, MintDoneClient DEF MintDone, Outer, records, limits, store
<1>8. ASSUME NEW o \in opens, OpenDone(o)
      PROVE  ClientInv' /\ Outer /\ UNCHANGED held
  <2>1. ClientInv'
    BY <1>8, OpenDoneClient
  <2>2. UNCHANGED <<records, limits, store, now, held>>
    BY <1>8 DEF OpenDone
  <2>3. net' = net \cup {Request(c, o.tok, sessions.opened + 1) : c \in OpenedFor(o)}
    BY <1>8 DEF OpenDone
  <2>4. QED
    BY <1>1, <2>1, <2>2, <2>3 DEF Outer
<1>9. ASSUME NEW o \in opens, OpenRejected(o)
      PROVE  ClientInv' /\ Outer /\ UNCHANGED held
  BY <1>9, OpenRejectedClient DEF OpenRejected, Outer, records, limits, store
<1>10. ASSUME NEW p \in Process, MintFails(p)
       PROVE  ClientInv' /\ Outer /\ UNCHANGED held
  BY <1>10, MintFailsClient DEF MintFails, Outer, records, limits, store
<1>11. ASSUME NEW p \in Process, Close(p)
       PROVE  ClientInv' /\ Outer /\ UNCHANGED held
  BY <1>11, CloseClient DEF Close, Outer, records, limits, store
<1>12. ASSUME NEW o \in opens, OpenFails(o)
       PROVE  ClientInv' /\ Outer /\ UNCHANGED held
  BY <1>12, OpenFailsClient DEF OpenFails, Outer, records, limits, store
<1>13. ASSUME NEW c \in Call, TimeOut(c)
       PROVE  ClientInv' /\ Outer /\ UNCHANGED held
  BY <1>13, TimeOutClient DEF TimeOut, Outer, records, limits, store
<1>14. ASSUME NEW c \in Call, Duplicate(c)
       PROVE  ClientInv' /\ Outer /\ UNCHANGED held
  <2>1. PICK s : s = call[c].sent
    OBVIOUS
  <2>2. s \in Sending /\ s.stage = "sent" /\ s.tok = s.asked
    <3>1. CallOK(c, call[c]) /\ s # None
      BY <1>14, <2>1 DEF ClientInv, TokenInv, Duplicate
    <3>2. QED
      BY <2>1, <3>1 DEF CallOK, Client1
  <2>3. PICK r : r = [s EXCEPT !.copy = TRUE]
    OBVIOUS
  <2>4. r \in Sending /\ r.stage = "sent" /\ r.tok = r.asked
    <3>1. TRUE \in BOOLEAN
      OBVIOUS
    <3>2. r \in Sending
      BY <2>2, <2>3, <3>1 DEF Sending
    <3>3. QED
      BY <2>2, <2>3, <3>2 DEF Sending
  <2>5. net' = net \cup {r} /\ UNCHANGED <<client, tokens, opens, sessions, records, limits, store, now>>
    BY <1>14, <2>1, <2>3 DEF Duplicate
  <2>6. ClientInv'
    <3>1. net' \subseteq Sending /\ (\A q \in net' : q \in net \/ q.tok = q.asked)
          /\ sessions \in [opened : Nat, ended : SUBSET Nat]
      BY <2>4, <2>5 DEF ClientInv, TokenInv
    <3>2. QED
      BY <2>5, <3>1, QuietClient DEF client
  <2>7. QED
    BY <2>4, <2>5, <2>6 DEF Outer, client
<1>15. ASSUME NEW id \in 1 .. sessions.opened, SessionEnds(id)
       PROVE  ClientInv' /\ Outer /\ UNCHANGED held
  <2>1. /\ sessions \in [opened : Nat, ended : SUBSET Nat] /\ net \subseteq Sending
    BY DEF ClientInv, TokenInv
  <2>2. id \in Nat
    BY <2>1
  <2>3. sessions' \in [opened : Nat, ended : SUBSET Nat]
    BY <1>15, <2>1, <2>2 DEF SessionEnds
  <2>4. ClientInv'
    BY <1>15, <2>1, <2>3, QuietClient DEF SessionEnds, client
  <2>5. QED
    BY <1>15, <2>4 DEF SessionEnds, Outer, records, limits, store, client
<1>16. ASSUME NEW user \in User, SwitchAccount(user)
       PROVE  ClientInv' /\ Outer /\ UNCHANGED held
  <2>1. sessions \in [opened : Nat, ended : SUBSET Nat] /\ net \subseteq Sending /\ tokens \in Minted
    BY DEF ClientInv, TokenInv
  <2>2. tokens' \in Minted /\ tokens'.minted = tokens.minted
    BY <1>16, <2>1 DEF SwitchAccount, Minted
  <2>3. ClientInv'
    BY <1>16, <2>1, <2>2, QuietClient DEF SwitchAccount, client
  <2>4. QED
    BY <1>16, <2>3 DEF SwitchAccount, Outer, records, limits, store, client
<1>17. ASSUME TokenEnds
       PROVE  ClientInv' /\ Outer /\ UNCHANGED held
  <2>1. sessions \in [opened : Nat, ended : SUBSET Nat] /\ net \subseteq Sending /\ tokens \in Minted
        /\ tokens.minted \in Nat
    BY DEF ClientInv, TokenInv, Minted
  <2>2. tokens' \in Minted /\ tokens'.minted = tokens.minted
    BY <1>17, <2>1 DEF TokenEnds, Minted
  <2>3. ClientInv'
    BY <1>17, <2>1, <2>2, QuietClient DEF TokenEnds, client
  <2>4. QED
    BY <1>17, <2>3 DEF TokenEnds, Outer, records, limits, store, client
<1>18. QED
  BY <1>2, <1>3, <1>4, <1>5, <1>6, <1>7, <1>8, <1>9, <1>10, <1>11, <1>12, <1>13, <1>14,
     <1>15, <1>16, <1>17

\* A step that only sends leaves what is done under the keys as it was.
LEMMA OuterInv ==
  ASSUME StoreInv, RecordInv, LimitInv, Outer, UNCHANGED held
  PROVE  StoreInv' /\ RecordInv' /\ LimitInv'
<1>1. StoreInv'
  BY DEF Outer, StoreInv, RowsOK, store
<1>2. LimitInv'
  BY DEF Outer, LimitInv, LimitOK, SweptInv, Level, limits
<1>3. UNCHANGED <<kept, ran, torn>>
  BY DEF Outer, records
<1>4. ASSUME NEW k \in Key \ torn PROVE KeyInv(k)'
  <2>1. KeyInv(k)
    BY DEF RecordInv
  <2>2. \A r : AtWork(r, k)' = AtWork(r, k)
    BY DEF AtWork, WithKey, TheKey
  <2>3. \A r \in net' : AtWork(r, k) => r \in net
    BY DEF Outer, AtWork
  <2>4. QED
    BY <1>3, <2>1, <2>3 DEF KeyInv, Recorded, Outer, AtWork, WithKey, TheKey
<1>5. RecordInv'
  BY <1>3, <1>4 DEF RecordInv
<1>6. QED
  BY <1>1, <1>2, <1>5

-----------------------------------------------------------------------------
(* The service's steps *)

\* A request at the service is of a call there is, and its work of documents.
LEMMA RequestType ==
  ASSUME ClientInv, NEW r \in net
  PROVE  /\ r \in Sending /\ r.tok = r.asked /\ r.call \in Call /\ r.op \in Operation
         /\ r.tok.user \in User /\ TheKey(r) \in Key /\ r.op.route.class \in Class
         /\ Of(r) \subseteq Doc /\ Cardinality(Of(r)) \in Nat
<1>1. r \in Sending /\ r.tok = r.asked
  BY DEF ClientInv, TokenInv, OwnToken
<1>2. /\ r.call \in Call /\ r.op \in Operation /\ r.tok \in Token /\ r.part \in 1 .. Len(Batches)
  BY <1>1 DEF Sending
<1>3. r.tok.user \in User /\ TheKey(r) \in Key
  BY <1>2 DEF Token, TheKey, Key
<1>4. r.op.route.class \in Class
  BY <1>2, Classes
<1>5. Of(r) \in SUBSET Doc
  BY <1>2, PagesType DEF Of
<1>6. Cardinality(Of(r)) \in Nat
  <2>1. IsFiniteSet(Doc)
    BY RequestsAssumption
  <2>2. IsFiniteSet(Of(r))
    BY <1>5, <2>1, FS_Subset
  <2>3. QED
    BY <2>2, FS_CardinalityType
<1>7. QED
  BY <1>1, <1>2, <1>3, <1>4, <1>5, <1>6

\* A request comes further.
LEMMA AtStage ==
  ASSUME ClientInv, NEW r \in net, NEW stage \in {"look", "run", "work", "keep"}, At(r, stage)
  PROVE  LET s == [r EXCEPT !.stage = stage] IN
         /\ s \in Sending /\ s.stage = stage /\ WithKey(s) = WithKey(r) /\ TheKey(s) = TheKey(r)
         /\ net' = (net \ {r}) \cup {s}
         /\ net' \subseteq Sending /\ \A q \in net' : q \in net \/ q.tok = q.asked
<1> DEFINE s == [r EXCEPT !.stage = stage]
<1>1. r \in Sending /\ r.tok = r.asked /\ net \subseteq Sending
  BY RequestType DEF ClientInv, TokenInv
<1>2. s \in Sending /\ s.stage = stage /\ s.tok = s.asked /\ s.op = r.op /\ s.call = r.call
      /\ s.part = r.part
  BY <1>1 DEF Sending
<1>3. net' = (net \ {r}) \cup {s}
  BY DEF At
<1> HIDE DEF s
<1>4. WithKey(s) = WithKey(r) /\ TheKey(s) = TheKey(r)
  BY <1>2 DEF WithKey, TheKey
<1>5. QED
  BY <1>1, <1>2, <1>3, <1>4 DEF s

LEMMA AtClient ==
  ASSUME ClientInv, NEW r \in net, NEW stage \in {"look", "run", "work", "keep"}, At(r, stage),
         UNCHANGED <<client, tokens, opens, sessions>>
  PROVE  ClientInv'
<1>1. net' \subseteq Sending /\ \A q \in net' : q \in net \/ q.tok = q.asked
  BY AtStage
<1>2. sessions' \in [opened : Nat, ended : SUBSET Nat]
  BY DEF ClientInv, TokenInv
<1>3. QED
  BY <1>1, <1>2, QuietClient DEF client

\* An answer leaves well-formed copies behind.
LEMMA AnswerHeld ==
  ASSUME ClientInv, held \subseteq Doc, NEW r \in net, NEW status, NEW page \in PageType,
         Answer(r, status, page)
  PROVE  held' \subseteq Doc /\ net' = net \ {r}
<1>1. page.docs \subseteq Doc
  BY DEF PageType
<1>2. \A pl : Applied(pl, page) \subseteq Doc
  BY <1>1 DEF Applied
<1>3. QED
  BY <1>2 DEF Answer

\* A request that leaves: of those at work there are no others.
LEMMA KeyLeft ==
  ASSUME NEW k, KeyInv(k), NEW r \in net, net' = net \ {r}, UNCHANGED ran,
         kept \subseteq kept', AtWork(r, k) /\ Begun(r) => Recorded(k)'
  PROVE  KeyInv(k)'
<1>1. ran[k] <= 1 /\ \A q, x \in net' : AtWork(q, k) /\ AtWork(x, k) => q = x
  BY DEF KeyInv
<1>2. \A q \in net' : AtWork(q, k) /\ ~Begun(q) => ran[k] = 0
  BY DEF KeyInv
<1>3. ASSUME ran[k] > 0
      PROVE  Recorded(k)' \/ \E q \in net' : AtWork(q, k) /\ Begun(q)
  <2>1. CASE Recorded(k)
    BY <2>1 DEF Recorded
  <2>2. CASE \E q \in net : AtWork(q, k) /\ Begun(q)
    BY <2>2
  <2>3. QED
    BY <1>3, <2>1, <2>2 DEF KeyInv
<1>4. QED
  BY <1>1, <1>2, <1>3 DEF KeyInv, AtWork, WithKey, TheKey, Begun, Of

LEMMA KeyMoved ==
  ASSUME NEW k, KeyInv(k), NEW r, NEW s, net' = (net \ {r}) \cup {s},
         ~AtWork(r, k), ~AtWork(s, k), UNCHANGED <<ran, kept>>
  PROVE  KeyInv(k)'
<1>1. \A q : AtWork(q, k)' = AtWork(q, k)
  BY DEF AtWork, WithKey, TheKey
<1>2. ran[k] <= 1 /\ \A q, x \in net' : AtWork(q, k) /\ AtWork(x, k) => q = x
  BY DEF KeyInv
<1>3. \A q \in net' : AtWork(q, k) /\ ~Begun(q) => ran[k] = 0
  BY DEF KeyInv
<1>4. ran[k] > 0 => Recorded(k) \/ \E q \in net' : AtWork(q, k) /\ Begun(q)
  BY DEF KeyInv
<1>5. QED
  BY <1>2, <1>3, <1>4 DEF KeyInv, Recorded, AtWork, WithKey, TheKey, Begun, Of

\* An answer, with a record of it when work was done under a key.
LEMMA AnswerInv ==
  ASSUME Inv, NEW r \in net, NEW status, NEW page \in PageType, Answer(r, status, page),
         UNCHANGED <<tokens, opens, sessions, ran>>,
         kept \subseteq kept', kept' \subseteq User \X Key,
         torn \subseteq torn', torn' \subseteq Key,
         \A k \in Key \ torn' : AtWork(r, k) /\ Begun(r) => Recorded(k)'
  PROVE  ClientInv' /\ held' \subseteq Doc /\ RecordInv'
<1>1. ClientInv'
  BY AnswerClient DEF Inv
<1>2. held' \subseteq Doc /\ net' = net \ {r}
  BY AnswerHeld DEF Inv, StoreInv
<1>3. \A k \in Key \ torn' : KeyInv(k)'
  BY <1>2, KeyLeft DEF Inv, RecordInv
<1>4. RecordInv'
  BY <1>3 DEF Inv, RecordInv
<1>5. QED
  BY <1>1, <1>2, <1>4

LEMMA TurnAwayInv ==
  ASSUME Inv, NEW r \in net, TurnAway(r)
  PROVE  Inv'
<1>1. UNCHANGED <<kept, torn, ran, tokens, opens, sessions, row, deleted, now, bucket, ideal>>
  BY DEF TurnAway, records, limits, store
<1>2. NoPage \in PageType
  BY PagesType
<1>3. Answer(r, Turn(r), NoPage) /\ r.stage = "sent"
  BY DEF TurnAway
<1>4. ClientInv' /\ held' \subseteq Doc /\ RecordInv'
  BY <1>1, <1>2, <1>3, AnswerInv DEF Inv, RecordInv, Begun
<1>5. LimitInv'
  BY <1>1 DEF Inv, LimitInv, LimitOK, SweptInv, Level
<1>6. QED
  BY <1>1, <1>4, <1>5 DEF Inv, StoreInv, RowsOK

LEMMA AdmitInv ==
  ASSUME Inv, NEW r \in net, Admit(r)
  PROVE  Inv'
<1>1. UNCHANGED <<kept, torn, ran, tokens, opens, sessions, row, deleted, now>>
      /\ r.stage = "sent"
  BY DEF Admit, records, store
<1>2. NoPage \in PageType
  BY PagesType
<1>3. LimitInv'
  <2>1. r.tok.user \in User /\ r.op.route.class \in Class /\ 1 \in Nat
    BY RequestType DEF Inv
  <2>2. Take(r.tok.user, r.op.route.class, 1)
    BY DEF Admit
  <2>3. QED
    BY <1>1, <2>1, <2>2, TakeLimit DEF Inv, LimitInv
<1>4. CASE Answer(r, "rate limited", NoPage)
  <2>1. ClientInv' /\ held' \subseteq Doc /\ RecordInv'
    BY <1>1, <1>2, <1>4, AnswerInv DEF Inv, RecordInv, Begun
  <2>2. QED
    BY <1>1, <1>3, <2>1 DEF Inv, StoreInv, RowsOK
<1>5. CASE At(r, IF WithKey(r) THEN "look" ELSE "run") /\ UNCHANGED client
  <2>1. PICK stage \in {"look", "run", "work", "keep"} : stage = IF WithKey(r) THEN "look" ELSE "run"
    OBVIOUS
  <2>2. At(r, stage)
    BY <1>5, <2>1
  <2>3. ClientInv'
    BY <1>1, <1>5, <2>2, AtClient DEF Inv
  <2>4. PICK s : s = [r EXCEPT !.stage = stage]
    OBVIOUS
  <2>5. s.stage = stage /\ WithKey(s) = WithKey(r) /\ net' = (net \ {r}) \cup {s}
    BY <2>2, <2>4, AtStage DEF Inv
  <2>6. \A k : ~AtWork(r, k) /\ ~AtWork(s, k)
    BY <1>1, <2>1, <2>5 DEF AtWork
  <2>7. RecordInv'
    BY <1>1, <2>5, <2>6, KeyMoved DEF Inv, RecordInv
  <2>8. UNCHANGED held
    BY <1>5 DEF client
  <2>9. QED
    BY <1>1, <1>3, <2>3, <2>7, <2>8 DEF Inv, StoreInv, RowsOK
<1>6. QED
  BY <1>4, <1>5 DEF Admit

LEMMA LookUpInv ==
  ASSUME Inv, NEW r \in net, LookUp(r)
  PROVE  Inv'
<1>1. UNCHANGED <<kept, ran, tokens, opens, sessions, row, deleted, now, bucket, ideal>>
      /\ r.stage = "look"
  BY DEF LookUp, limits, store
<1>2. NoPage \in PageType
  BY PagesType
<1>3. LimitInv'
  BY <1>1 DEF Inv, LimitInv, LimitOK, SweptInv, Level
<1>4. CASE Answer(r, "ok", NoPage) /\ UNCHANGED torn
  <2>1. ClientInv' /\ held' \subseteq Doc /\ RecordInv'
    BY <1>1, <1>2, <1>4, AnswerInv DEF Inv, RecordInv, Begun
  <2>2. QED
    BY <1>1, <1>3, <2>1 DEF Inv, StoreInv, RowsOK
<1>5. CASE /\ ~Found(r) /\ At(r, "run") /\ UNCHANGED client
           /\ torn' = IF Overlaps(r) \/ OfAnother(r) THEN torn \cup {TheKey(r)} ELSE torn
  <2>1. ClientInv'
    BY <1>1, <1>5, AtClient DEF Inv
  <2>2. PICK s : s = [r EXCEPT !.stage = "run"]
    OBVIOUS
  <2>3. s.stage = "run" /\ WithKey(s) = WithKey(r) /\ TheKey(s) = TheKey(r)
        /\ net' = (net \ {r}) \cup {s}
    BY <1>5, <2>2, AtStage DEF Inv
  <2>4. TheKey(r) \in Key /\ r.tok.user \in User
    BY RequestType DEF Inv
  <2>5. torn \subseteq torn' /\ torn' \subseteq Key
    BY <1>5, <2>4 DEF Inv, RecordInv
  <2>6. ASSUME NEW k \in Key \ torn' PROVE KeyInv(k)'
    <3>1. KeyInv(k) /\ ran[k] \in Nat
      BY <2>5 DEF Inv, RecordInv
    <3>2. ~AtWork(r, k)
      BY <1>1 DEF AtWork
    <3>3. CASE AtWork(s, k)
      <4>1. k = TheKey(r) /\ WithKey(r)
        BY <2>3, <3>3 DEF AtWork
      <4>2. ~Overlaps(r) /\ ~OfAnother(r) /\ ~Found(r)
        BY <1>5, <2>6, <4>1
      <4>3. \A q \in net : ~AtWork(q, k)
        BY <3>2, <4>1, <4>2 DEF Overlaps, AtWork
      <4>4. ~Recorded(k)
        BY <2>4, <4>1, <4>2 DEF OfAnother, Found, Recorded
      <4>5. ran[k] = 0
        BY <3>1, <4>3, <4>4 DEF KeyInv
      <4>6. \A q \in net' : AtWork(q, k) => q = s
        BY <2>3, <4>3
      <4>7. \A q : AtWork(q, k)' = AtWork(q, k)
        BY DEF AtWork, WithKey, TheKey
      <4>8. QED
        BY <1>1, <4>5, <4>6 DEF KeyInv, AtWork, WithKey, TheKey, Begun, Of
    <3>4. CASE ~AtWork(s, k)
      BY <1>1, <2>3, <3>1, <3>2, <3>4, KeyMoved
    <3>5. QED
      BY <3>3, <3>4
  <2>7. RecordInv'
    BY <1>1, <2>5, <2>6 DEF Inv, RecordInv
  <2>8. UNCHANGED held
    BY <1>5 DEF client
  <2>9. QED
    BY <1>1, <1>3, <2>1, <2>7, <2>8 DEF Inv, StoreInv, RowsOK
<1>6. QED
  BY <1>4, <1>5 DEF LookUp

\* The work of a request leaves rows as they must be.
LEMMA WorkedOK ==
  ASSUME Inv, NEW r \in net,
         row' = [d \in Doc |-> Worked(r, d)], deleted' = [d \in Doc |-> WorkedDeletion(r, d)]
  PROVE  RowsOK'
<1>1. row \in [Doc -> [at : Nat, own : BOOLEAN]] /\ deleted \in [Doc -> Nat] /\ now \in Nat
  BY DEF Inv, StoreInv, RowsOK, LimitInv, LimitOK
<1>2. [at |-> now, own |-> TRUE] \in [at : Nat, own : BOOLEAN]
      /\ [at |-> now, own |-> FALSE] \in [at : Nat, own : BOOLEAN]
      /\ NoRow \in [at : Nat, own : BOOLEAN]
  BY <1>1 DEF NoRow
<1>3. \A d \in Doc : [row[d] EXCEPT !.at = now] \in [at : Nat, own : BOOLEAN]
  BY <1>1
<1>4. \A d \in Doc : Worked(r, d) \in [at : Nat, own : BOOLEAN]
  BY <1>1, <1>2, <1>3 DEF Worked
<1>5. \A d \in Doc : WorkedDeletion(r, d) \in Nat
  BY <1>1 DEF WorkedDeletion
<1>6. QED
  BY <1>4, <1>5 DEF RowsOK

LEMMA RunPage ==
  ASSUME Inv, NEW r \in net
  PROVE  (IF r.op.route.does = "page" THEN Page(call[r.call].pull) ELSE NoPage) \in PageType
<1>1. r.call \in Call
  BY RequestType DEF Inv
<1>2. call[r.call].pull \in Pull
  BY <1>1 DEF Inv, ClientInv, TokenInv, Client1
<1>3. QED
  BY <1>2, PageOK, PagesType DEF Inv, StoreInv

LEMMA RunInv ==
  ASSUME Inv, NEW r \in net, Run(r)
  PROVE  Inv'
<1>1. UNCHANGED <<kept, torn, tokens, opens, sessions, now>> /\ r.stage = "run"
  BY DEF Run
<1>2. PICK page \in PageType :
        page = IF r.op.route.does = "page" THEN Page(call[r.call].pull) ELSE NoPage
  BY RunPage
<1>3. LimitInv'
  <2>1. CASE r.op.route.docs
    <3>1. Take(r.tok.user, "docs", Cardinality(Of(r)))
      BY <2>1 DEF Run
    <3>2. "docs" \in Class /\ r.tok.user \in User /\ Cardinality(Of(r)) \in Nat
      BY RequestType DEF Class, Inv
    <3>3. QED
      BY <1>1, <3>1, <3>2, TakeLimit DEF Inv, LimitInv
  <2>2. CASE ~r.op.route.docs
    <3>1. UNCHANGED <<bucket, ideal>>
      BY <2>2 DEF Run, limits
    <3>2. QED
      BY <1>1, <3>1 DEF Inv, LimitInv, LimitOK, SweptInv, Level
  <2>3. QED
    BY <2>1, <2>2
<1>4. CASE Answer(r, "rate limited", NoPage) /\ UNCHANGED <<row, deleted, ran>>
  <2>1. NoPage \in PageType
    BY PagesType
  <2>2. ClientInv' /\ held' \subseteq Doc /\ RecordInv'
    <3>1. kept' \subseteq User \X Key /\ torn' \subseteq Key /\ ~Begun(r)
      BY <1>1 DEF Inv, RecordInv, Begun
    <3>2. QED
      BY <1>1, <1>4, <2>1, <3>1, AnswerInv
  <2>3. QED
    BY <1>3, <1>4, <2>2 DEF Inv, StoreInv, RowsOK
<1>5. CASE Answer(r, "ok", page) /\ UNCHANGED ran /\ RowsOK'
  <2>1. ClientInv' /\ held' \subseteq Doc /\ RecordInv'
    <3>1. kept' \subseteq User \X Key /\ torn' \subseteq Key /\ ~Begun(r)
      BY <1>1 DEF Inv, RecordInv, Begun
    <3>2. QED
      BY <1>1, <1>5, <3>1, AnswerInv
  <2>2. QED
    BY <1>3, <1>5, <2>1 DEF Inv, StoreInv
<1>6. CASE /\ WithKey(r) /\ At(r, "keep") /\ UNCHANGED client /\ RowsOK'
           /\ ran' = [ran EXCEPT ![TheKey(r)] = @ + 1]
  <2>1. ClientInv'
    BY <1>1, <1>6, AtClient DEF Inv
  <2>2. PICK s : s = [r EXCEPT !.stage = "keep"]
    OBVIOUS
  <2>3. s.stage = "keep" /\ WithKey(s) = WithKey(r) /\ TheKey(s) = TheKey(r)
        /\ net' = (net \ {r}) \cup {s}
    BY <1>6, <2>2, AtStage DEF Inv
  <2>4. TheKey(r) \in Key /\ ran \in [Key -> Nat] /\ ran' \in [Key -> Nat]
    <3>1. TheKey(r) \in Key /\ ran \in [Key -> Nat]
      BY RequestType DEF Inv, RecordInv
    <3>2. QED
      BY <1>6, <3>1
  <2>5. ASSUME NEW k \in Key \ torn PROVE KeyInv(k)'
    <3>1. KeyInv(k) /\ ~Begun(r) /\ Begun(s)
      BY <1>1, <2>3 DEF Inv, RecordInv, Begun
    <3>2. CASE k = TheKey(r)
      <4>1. AtWork(r, k) /\ AtWork(s, k)
        BY <1>1, <1>6, <2>3, <3>2 DEF AtWork
      <4>2. \A q \in net' : AtWork(q, k) => q = s
        BY <2>3, <3>1, <4>1 DEF KeyInv
      <4>3. ran[k] = 0
        BY <1>1, <3>1, <4>1 DEF KeyInv
      <4>4. ran'[k] = 1
        BY <1>6, <2>4, <3>2, <4>3
      <4>5. s \in net' /\ Begun(s)
        BY <2>3, <3>1
      <4>6. QED
        BY <4>1, <4>2, <4>4, <4>5 DEF KeyInv, AtWork, WithKey, TheKey, Begun, Of
    <3>3. CASE k # TheKey(r)
      <4>1. ~AtWork(r, k) /\ ~AtWork(s, k)
        BY <2>3, <3>3 DEF AtWork
      <4>2. ran'[k] = ran[k]
        BY <1>6, <2>4, <3>3
      <4>3. /\ ran'[k] <= 1
            /\ \A q, x \in net' : AtWork(q, k) /\ AtWork(x, k) => q = x
            /\ \A q \in net' : AtWork(q, k) /\ ~Begun(q) => ran'[k] = 0
        BY <2>3, <3>1, <4>1, <4>2 DEF KeyInv
      <4>4. ran'[k] > 0 => Recorded(k) \/ \E q \in net' : AtWork(q, k) /\ Begun(q)
        BY <2>3, <3>1, <4>1, <4>2 DEF KeyInv
      <4>5. QED
        BY <1>1, <4>3, <4>4 DEF KeyInv, Recorded, AtWork, WithKey, TheKey, Begun, Of
    <3>4. QED
      BY <3>2, <3>3
  <2>6. RecordInv'
    BY <1>1, <2>4, <2>5 DEF Inv, RecordInv
  <2>7. UNCHANGED held
    BY <1>6 DEF client
  <2>8. QED
    BY <1>3, <1>6, <2>1, <2>6, <2>7 DEF Inv, StoreInv
<1>7. CASE At(r, "work") /\ UNCHANGED client /\ UNCHANGED <<row, deleted, ran>>
  <2>1. ClientInv'
    BY <1>1, <1>7, AtClient DEF Inv
  <2>2. PICK s : s = [r EXCEPT !.stage = "work"]
    OBVIOUS
  <2>3. s.stage = "work" /\ WithKey(s) = WithKey(r) /\ TheKey(s) = TheKey(r)
        /\ net' = (net \ {r}) \cup {s}
    BY <1>7, <2>2, AtStage DEF Inv
  <2>4. ASSUME NEW k \in Key \ torn PROVE KeyInv(k)'
    <3>1. KeyInv(k) /\ ~Begun(r) /\ (AtWork(r, k) <=> AtWork(s, k))
      BY <1>1, <2>3 DEF Inv, RecordInv, Begun, AtWork
    <3>2. CASE AtWork(r, k)
      <4>1. ran[k] = 0 /\ \A q \in net' : AtWork(q, k) => q = s
        BY <2>3, <3>1, <3>2 DEF KeyInv
      <4>2. QED
        BY <1>7, <4>1 DEF KeyInv, AtWork, WithKey, TheKey, Begun, Of
    <3>3. CASE ~AtWork(r, k)
      BY <1>1, <1>7, <2>3, <3>1, <3>3, KeyMoved
    <3>4. QED
      BY <3>2, <3>3
  <2>5. RecordInv'
    BY <1>1, <1>7, <2>4 DEF Inv, RecordInv
  <2>6. UNCHANGED held
    BY <1>7 DEF client
  <2>7. QED
    BY <1>3, <1>7, <2>1, <2>5, <2>6 DEF Inv, StoreInv, RowsOK
<1>8. QED
  <2>1. row' = [d \in Doc |-> Worked(r, d)] /\ deleted' = [d \in Doc |-> WorkedDeletion(r, d)]
          => RowsOK'
    BY WorkedOK
  <2>2. \/ Answer(r, "rate limited", NoPage) /\ UNCHANGED <<row, deleted, ran>>
        \/ At(r, "work") /\ UNCHANGED client /\ UNCHANGED <<row, deleted, ran>>
        \/ /\ row' = [d \in Doc |-> Worked(r, d)] /\ deleted' = [d \in Doc |-> WorkedDeletion(r, d)]
           /\ \/ /\ WithKey(r) /\ At(r, "keep") /\ UNCHANGED client
                 /\ ran' = [ran EXCEPT ![TheKey(r)] = @ + 1]
              \/ Answer(r, "ok", page) /\ UNCHANGED ran
    BY <1>2 DEF Run, store
  <2>3. QED
    BY <1>4, <1>5, <1>6, <1>7, <2>1, <2>2

\* One document more: the first is work done under the key, and the batch is
\* begun from then on.
LEMMA UpsertKey ==
  ASSUME NEW k, KeyInv(k), NEW r \in net, NEW s, net' = (net \ {r}) \cup {s},
         r.stage = "work", AtWork(s, k) <=> AtWork(r, k), Begun(s), UNCHANGED kept,
         ran[k] \in Nat,
         ran'[k] = IF AtWork(r, k) /\ ~Begun(r) THEN ran[k] + 1 ELSE ran[k]
  PROVE  KeyInv(k)'
<1>1. s \in net'
  OBVIOUS
<1>2. CASE AtWork(r, k)
  <2>1. \A q \in net' : AtWork(q, k) => q = s
    BY <1>2 DEF KeyInv
  <2>2. ran'[k] <= 1
    BY <1>2 DEF KeyInv
  <2>3. AtWork(s, k)
    BY <1>2
  <2>4. QED
    BY <1>1, <2>1, <2>2, <2>3 DEF KeyInv, AtWork, WithKey, TheKey, Begun, Of
<1>3. CASE ~AtWork(r, k)
  <2>1. ran'[k] = ran[k] /\ ~AtWork(s, k)
    BY <1>3
  <2>2. ran'[k] <= 1 /\ \A q, x \in net' : AtWork(q, k) /\ AtWork(x, k) => q = x
    BY <1>3, <2>1 DEF KeyInv
  <2>3. \A q \in net' : AtWork(q, k) /\ ~Begun(q) => ran'[k] = 0
    BY <1>3, <2>1 DEF KeyInv
  <2>4. ran'[k] > 0 => Recorded(k) \/ \E q \in net' : AtWork(q, k) /\ Begun(q)
    BY <1>3, <2>1 DEF KeyInv
  <2>5. QED
    BY <2>2, <2>3, <2>4 DEF KeyInv, Recorded, AtWork, WithKey, TheKey, Begun, Of
<1>4. QED
  BY <1>2, <1>3

LEMMA UpsertedOK ==
  ASSUME ClientInv, NEW r \in net, NEW d \in Doc, UpsertOne(r, d)
  PROVE  \E s \in Sending :
           /\ s.stage = (IF Of(r) \ r.done = {d} THEN "keep" ELSE "work")
           /\ s.tok = s.asked /\ WithKey(s) = WithKey(r) /\ TheKey(s) = TheKey(r)
           /\ net' = (net \ {r}) \cup {s} /\ s.done = r.done \cup {d}
<1>1. r \in Sending /\ r.tok = r.asked
  BY RequestType
<1>2. PICK stage \in {"work", "keep"} : stage = IF Of(r) \ r.done = {d} THEN "keep" ELSE "work"
  OBVIOUS
<1>3. PICK done \in SUBSET Doc : done = r.done \cup {d}
  BY <1>1 DEF Sending
<1>4. PICK s : s = [r EXCEPT !.stage = stage, !.done = done]
  OBVIOUS
<1>5. /\ s \in Sending /\ s.stage = stage /\ s.done = done /\ s.tok = s.asked
      /\ s.op = r.op /\ s.call = r.call /\ s.part = r.part
  BY <1>1, <1>4 DEF Sending
<1>6. WithKey(s) = WithKey(r) /\ TheKey(s) = TheKey(r)
  BY <1>5 DEF WithKey, TheKey
<1>7. net' = (net \ {r}) \cup {s}
  BY <1>2, <1>3, <1>4 DEF UpsertOne
<1>8. QED
  BY <1>2, <1>3, <1>5, <1>6, <1>7

LEMMA UpsertInv ==
  ASSUME Inv, NEW r \in net, NEW d \in Doc, UpsertOne(r, d)
  PROVE  Inv'
<1>1. /\ UNCHANGED <<kept, torn, tokens, opens, sessions, now, bucket, ideal, deleted>>
      /\ UNCHANGED client /\ UNCHANGED held /\ r.stage = "work"
      /\ row' = [row EXCEPT ![d] = Worked(r, d)]
      /\ ran' = IF WithKey(r) /\ r.done = {} THEN [ran EXCEPT ![TheKey(r)] = @ + 1] ELSE ran
  BY DEF UpsertOne, limits, client
<1>2. PICK s \in Sending :
        /\ s.stage \in {"work", "keep"}
        /\ s.tok = s.asked /\ WithKey(s) = WithKey(r) /\ TheKey(s) = TheKey(r)
        /\ net' = (net \ {r}) \cup {s} /\ s.done = r.done \cup {d}
  BY UpsertedOK DEF Inv
<1>3. ClientInv'
  <2>1. net' \subseteq Sending /\ \A q \in net' : q \in net \/ q.tok = q.asked
    BY <1>2 DEF Inv, ClientInv, TokenInv
  <2>2. sessions' \in [opened : Nat, ended : SUBSET Nat]
    BY <1>1 DEF Inv, ClientInv, TokenInv
  <2>3. QED
    BY <1>1, <2>1, <2>2, QuietClient DEF Inv, client
<1>4. LimitInv'
  BY <1>1 DEF Inv, LimitInv, LimitOK, SweptInv, Level
<1>5. RowsOK'
  <2>1. row \in [Doc -> [at : Nat, own : BOOLEAN]] /\ deleted \in [Doc -> Nat] /\ now \in Nat
    BY DEF Inv, StoreInv, RowsOK, LimitInv, LimitOK
  <2>2. Worked(r, d) \in [at : Nat, own : BOOLEAN]
    <3>1. [at |-> now, own |-> TRUE] \in [at : Nat, own : BOOLEAN]
          /\ [at |-> now, own |-> FALSE] \in [at : Nat, own : BOOLEAN]
          /\ NoRow \in [at : Nat, own : BOOLEAN]
      BY <2>1 DEF NoRow
    <3>2. row[d] \in [at : Nat, own : BOOLEAN]
          /\ [row[d] EXCEPT !.at = now] \in [at : Nat, own : BOOLEAN]
      BY <2>1
    <3>3. QED
      BY <3>1, <3>2 DEF Worked
  <2>3. QED
    BY <1>1, <2>1, <2>2 DEF RowsOK
<1>6. RecordInv'
  <2>1. TheKey(r) \in Key /\ ran \in [Key -> Nat] /\ ran' \in [Key -> Nat]
    <3>1. TheKey(r) \in Key /\ ran \in [Key -> Nat]
      BY RequestType DEF Inv, RecordInv
    <3>2. QED
      BY <1>1, <3>1
  <2>2. Begun(s) /\ (~Begun(r) <=> r.done = {})
    <3>1. s.done # {}
      BY <1>2
    <3>2. QED
      BY <1>1, <1>2, <3>1 DEF Begun
  <2>3. ASSUME NEW k \in Key \ torn PROVE KeyInv(k)'
    <3>1. KeyInv(k) /\ ran[k] \in Nat
      BY <2>1 DEF Inv, RecordInv
    <3>2. (AtWork(s, k) <=> AtWork(r, k)) /\ (AtWork(r, k) <=> WithKey(r) /\ k = TheKey(r))
      BY <1>1, <1>2 DEF AtWork
    <3>3. ran'[k] = IF AtWork(r, k) /\ ~Begun(r) THEN ran[k] + 1 ELSE ran[k]
      BY <1>1, <2>1, <2>2, <3>2
    <3>4. QED
      BY <1>1, <1>2, <2>2, <3>1, <3>2, <3>3, UpsertKey
  <2>4. QED
    BY <1>1, <2>1, <2>3 DEF Inv, RecordInv
<1>7. QED
  BY <1>1, <1>3, <1>4, <1>5, <1>6 DEF Inv, StoreInv

LEMMA KeepInv ==
  ASSUME Inv, NEW r \in net, Keep(r)
  PROVE  Inv'
<1>1. UNCHANGED <<torn, ran, tokens, opens, sessions, row, deleted, now, bucket, ideal>>
      /\ kept' = kept \cup {<<r.tok.user, TheKey(r)>>} /\ Answer(r, "ok", NoPage)
  BY DEF Keep, limits, store
<1>2. NoPage \in PageType
  BY PagesType
<1>3. TheKey(r) \in Key /\ r.tok.user \in User
  BY RequestType DEF Inv
<1>4. kept \subseteq kept' /\ kept' \subseteq User \X Key /\ torn' \subseteq Key
  BY <1>1, <1>3 DEF Inv, RecordInv
<1>5. \A k \in Key \ torn' : AtWork(r, k) /\ Begun(r) => Recorded(k)'
  BY <1>1, <1>3 DEF AtWork, Recorded
<1>6. ClientInv' /\ held' \subseteq Doc /\ RecordInv'
  BY <1>1, <1>2, <1>4, <1>5, AnswerInv
<1>7. LimitInv'
  BY <1>1 DEF Inv, LimitInv, LimitOK, SweptInv, Level
<1>8. QED
  BY <1>1, <1>6, <1>7 DEF Inv, StoreInv, RowsOK

LEMMA UnavailableInv ==
  ASSUME Inv, NEW r \in net, Unavailable(r)
  PROVE  Inv'
<1>1. UNCHANGED <<kept, ran, tokens, opens, sessions, row, deleted, now, bucket, ideal>>
      /\ torn' = (IF Begun(r) THEN torn \cup {TheKey(r)} ELSE torn)
      /\ Answer(r, "unavailable", NoPage)
  BY DEF Unavailable, limits, store
<1>2. NoPage \in PageType
  BY PagesType
<1>3. TheKey(r) \in Key
  BY RequestType DEF Inv
<1>4. kept \subseteq kept' /\ kept' \subseteq User \X Key /\ torn \subseteq torn' /\ torn' \subseteq Key
  BY <1>1, <1>3 DEF Inv, RecordInv
<1>5. \A k \in Key \ torn' : AtWork(r, k) /\ Begun(r) => Recorded(k)'
  BY <1>1 DEF AtWork
<1>6. ClientInv' /\ held' \subseteq Doc /\ RecordInv'
  BY <1>1, <1>2, <1>4, <1>5, AnswerInv
<1>7. LimitInv'
  BY <1>1 DEF Inv, LimitInv, LimitOK, SweptInv, Level
<1>8. QED
  BY <1>1, <1>6, <1>7 DEF Inv, StoreInv, RowsOK

\* A step away from the clients and their requests.
LEMMA ApartInv ==
  ASSUME Inv, UNCHANGED <<client, tokens, opens, sessions, net, records>>
  PROVE  ClientInv' /\ RecordInv' /\ UNCHANGED held
<1>1. ClientInv'
  <2>1. net' \subseteq Sending /\ (\A r \in net' : r \in net)
        /\ sessions' \in [opened : Nat, ended : SUBSET Nat]
    BY DEF Inv, ClientInv, TokenInv
  <2>2. QED
    BY <2>1, QuietClient DEF Inv, client
<1>2. UNCHANGED <<kept, ran, torn, net>>
  BY DEF records
<1>3. \A k \in Key \ torn : KeyInv(k)'
  BY <1>2 DEF Inv, RecordInv, KeyInv, Recorded, AtWork, WithKey, TheKey, Begun, Of
<1>4. RecordInv'
  BY <1>2, <1>3 DEF Inv, RecordInv
<1>5. QED
  BY <1>1, <1>4 DEF client

LEMMA OtherWritesInv ==
  ASSUME Inv, NEW d \in Doc, OtherWrites(d)
  PROVE  Inv'
<1>1. UNCHANGED <<client, tokens, opens, sessions, net, records, now, bucket, ideal>>
  BY DEF OtherWrites, limits
<1>2. LimitInv'
  BY <1>1 DEF Inv, LimitInv, LimitOK, SweptInv, Level
<1>3. RowsOK'
  <2>1. row \in [Doc -> [at : Nat, own : BOOLEAN]] /\ deleted \in [Doc -> Nat] /\ now \in Nat
    BY DEF Inv, StoreInv, RowsOK, LimitInv, LimitOK
  <2>2. NoRow \in [at : Nat, own : BOOLEAN] /\ [at |-> now, own |-> FALSE] \in [at : Nat, own : BOOLEAN]
    BY <2>1 DEF NoRow
  <2>3. \/ row' = [row EXCEPT ![d] = [at |-> now, own |-> FALSE]] /\ UNCHANGED deleted
        \/ row' = [row EXCEPT ![d] = NoRow] /\ deleted' = [deleted EXCEPT ![d] = now]
    BY DEF OtherWrites
  <2>4. QED
    BY <2>1, <2>2, <2>3 DEF RowsOK
<1>4. QED
  BY <1>1, <1>2, <1>3, ApartInv DEF Inv, StoreInv

LEMMA TickInv ==
  ASSUME Inv, NEW elapsed \in Elapsed, Tick(elapsed)
  PROVE  Inv'
<1>1. UNCHANGED <<client, tokens, opens, sessions, net, records, row, deleted, bucket, ideal>>
      /\ now' = now + elapsed
  BY DEF Tick, limits, store
<1>2. now' \in Nat /\ now <= now'
  <2>1. now \in Nat /\ elapsed \in Nat
    BY RequestsAssumption DEF Inv, LimitInv, LimitOK
  <2>2. QED
    BY <1>1, <2>1
<1>3. LimitInv'
  BY <1>1, <1>2, TimeLimit DEF Inv, LimitInv
<1>4. QED
  BY <1>1, <1>3, ApartInv DEF Inv, StoreInv, RowsOK

LEMMA SweepInv ==
  ASSUME Inv, Sweep
  PROVE  Inv'
<1>1. UNCHANGED <<client, tokens, opens, sessions, net, records, row, deleted>>
  BY DEF Sweep, store
<1>2. LimitInv'
  BY SweepLimit DEF Inv, LimitInv
<1>3. QED
  BY <1>1, <1>2, ApartInv DEF Inv, StoreInv, RowsOK

LEMMA InitInv == Init => Inv
<1> SUFFICES ASSUME Init PROVE Inv
  OBVIOUS
<1>1. ClientInv
  <2>1. tokens \in Minted
    BY RequestsAssumption DEF Init, Minted
  <2>2. proc \in [Process -> Process1] /\ \A p \in Process : ProcOK(proc[p], tokens.minted)
    <3> DEFINE P == [mem |-> None, gen |-> 0, who |-> None, minting |-> FALSE, me |-> None,
                     session |-> None, opening |-> None]
    <3>1. P \in Process1
      BY DEF Process1
    <3>2. ProcOK(P, tokens.minted)
      <4>1. P.mem = None /\ P.me = None
        OBVIOUS
      <4> HIDE DEF P
      <4>2. QED
        BY <3>1, <4>1 DEF ProcOK
    <3>3. proc = [p \in Process |-> P]
      BY DEF Init
    <3> HIDE DEF P
    <3>4. QED
      BY <3>1, <3>2, <3>3
  <2>3. call = [c \in Call |-> NoCall]
    BY DEF Init
  <2>4. call \in [Call -> Client1] /\ \A c \in Call : CallOK(c, call[c]) /\ call[c].pc = "idle"
    BY <2>3, NoCallOK
  <2>5. file = None /\ net = {} /\ sessions \in [opened : Nat, ended : SUBSET Nat]
    BY DEF Init
  <2>6. TokenInv
    BY <2>1, <2>2, <2>4, <2>5 DEF TokenInv, OwnToken
  <2>7. OpenInv
    <3>1. opens = {} /\ \A p \in Process : proc[p].opening = None
      BY DEF Init
    <3>2. QED
      BY <2>4, <3>1 DEF OpenInv
  <2>8. QED
    BY <2>6, <2>7 DEF ClientInv
<1>2. StoreInv
  <2>1. \A d \in Doc : Seeded[d].row \in [at : Nat, own : BOOLEAN] /\ Seeded[d].deleted \in Nat
    <3>1. \A d \in Doc : Seeded[d] \in [row : [at : Nat, own : BOOLEAN], deleted : Nat]
      BY RequestsAssumption
    <3>2. QED
      BY <3>1
  <2>2. held \subseteq Doc
    BY RequestsAssumption DEF Init
  <2>3. row \in [Doc -> [at : Nat, own : BOOLEAN]] /\ deleted \in [Doc -> Nat]
    BY <2>1 DEF Init
  <2>4. QED
    BY <2>2, <2>3 DEF StoreInv, RowsOK
<1>3. RecordInv
  <2>1. kept = {} /\ torn = {} /\ net = {} /\ ran = [k \in Key |-> 0]
    BY DEF Init
  <2>2. QED
    BY <2>1 DEF RecordInv, KeyInv
<1>4. LimitInv
  <2>1. \A class \in Class : Burst[class] \in Nat /\ Rate[class] \in Nat
    BY RequestsAssumption
  <2>2. /\ now = 2 /\ bucket = [k \in User \X Class |-> None]
        /\ ideal = [k \in User \X Class |-> Full(k[2])]
    BY DEF Init
  <2>3. ASSUME NEW k \in User \X Class
        PROVE  /\ ideal[k] \in Bucket /\ ideal[k].tokens = Burst[k[2]] /\ ideal[k].at = 0
               /\ bucket[k] = None
    BY <2>1, <2>2 DEF Full, Bucket
  <2>4. ideal \in [User \X Class -> Bucket] /\ bucket \in [User \X Class -> Bucket \cup {None}]
    BY <2>2, <2>3
  <2>5. LimitOK
    BY <2>1, <2>2, <2>3, <2>4 DEF LimitOK
  <2>6. ASSUME NEW k \in User \X Class
        PROVE  Level(ideal[k], k[2]) = Burst[k[2]]
    <3>1. PICK b \in Bucket : b = ideal[k]
      BY <2>3
    <3>2. /\ b.tokens = Burst[k[2]] /\ b.at = 0 /\ b # None
          /\ Burst[k[2]] \in Nat /\ (now - b.at) * Rate[k[2]] \in Nat
      <4>1. b.tokens = Burst[k[2]] /\ b.at = 0 /\ b # None
        BY <2>3, <3>1, Nones
      <4>2. Burst[k[2]] \in Nat /\ Rate[k[2]] \in Nat
        BY <2>1
      <4>3. QED
        BY <2>2, <4>1, <4>2
    <3>3. Level(b, k[2]) = Burst[k[2]]
      BY <3>2 DEF Level, Lesser
    <3>4. QED
      BY <3>1, <3>3
  <2>7. SweptInv
    BY <2>3, <2>6 DEF SweptInv
  <2>8. QED
    BY <2>5, <2>7 DEF LimitInv
<1>5. QED
  BY <1>1, <1>2, <1>3, <1>4 DEF Inv

LEMMA NextInv ==
  ASSUME Inv, [Next]_vars
  PROVE  Inv'
<1>1. ASSUME Client \/ (Faults /\ ~\E r \in net : Unavailable(r))
      PROVE  Inv'
  <2>1. ClientInv' /\ Outer /\ UNCHANGED held
    BY <1>1, OuterSteps DEF Client, Faults, Inv
  <2>2. StoreInv' /\ RecordInv' /\ LimitInv'
    BY <2>1, OuterInv DEF Inv
  <2>3. QED
    BY <2>1, <2>2 DEF Inv
<1>2. ASSUME \E r \in net : Unavailable(r)
      PROVE  Inv'
  BY <1>2, UnavailableInv
<1>3. ASSUME Service
      PROVE  Inv'
  BY <1>3, TurnAwayInv, AdmitInv, LookUpInv, RunInv, UpsertInv, KeepInv, SweepInv DEF Service
<1>4. ASSUME \E d \in Doc : OtherWrites(d)
      PROVE  Inv'
  BY <1>4, OtherWritesInv
<1>5. ASSUME \E elapsed \in Elapsed : Tick(elapsed)
      PROVE  Inv'
  BY <1>5, TickInv
<1>6. ASSUME UNCHANGED vars
      PROVE  Inv'
  <2>1. UNCHANGED <<client, tokens, opens, sessions, net, records, row, deleted, now, bucket, ideal>>
    BY <1>6 DEF vars, client, records
  <2>2. LimitInv'
    BY <2>1 DEF Inv, LimitInv, LimitOK, SweptInv, Level
  <2>3. QED
    BY <2>1, <2>2, ApartInv DEF Inv, StoreInv, RowsOK
<1>7. QED
  BY <1>1, <1>2, <1>3, <1>4, <1>5, <1>6 DEF Next

LEMMA InvGood == Inv => Consistent /\ RanOnce /\ MeIsSignedIn /\ SweepUnseen
<1> SUFFICES ASSUME Inv PROVE Consistent /\ RanOnce /\ MeIsSignedIn /\ SweepUnseen
  OBVIOUS
<1>1. TypeOK
  <2>1. proc \in [Process -> Process1] /\ file \in Token \cup {None}
    BY DEF Inv, ClientInv, TokenInv
  <2>2. ASSUME NEW c \in Call
        PROVE  /\ call[c].pc \in Pc
               /\ call[c].part \in 1 .. Len(Batches) /\ call[c].try \in 0 .. 1
               /\ call[c].pull.d \in Position /\ call[c].pull.x \in Position
               /\ call[c].pull.seen \subseteq Doc /\ call[c].pull.page <= MaxPages
               /\ call[c].pc = "sent" => call[c].sent # None
    <3>1. call[c] \in Client1 /\ CallOK(c, call[c])
      BY DEF Inv, ClientInv, TokenInv
    <3>2. QED
      BY <3>1 DEF CallOK, Client1, Pull
  <2>3. /\ kept \subseteq User \X Key /\ torn \subseteq Key /\ ran \in [Key -> Nat]
        /\ row \in [Doc -> [at : Nat, own : BOOLEAN]] /\ deleted \in [Doc -> Nat]
        /\ held \subseteq Doc
        /\ \A k \in User \X Class : bucket[k] # None =>
             bucket[k].tokens \in 0 .. Burst[k[2]] /\ bucket[k].at <= now
    BY DEF Inv, RecordInv, StoreInv, RowsOK, LimitInv, LimitOK
  <2>4. QED
    BY <2>1, <2>2, <2>3 DEF TypeOK, Process1, Pc
<1>2. RetriedWithAnother
  <2> SUFFICES ASSUME NEW c \in Call, call[c].pc \in Bearing, call[c].refused # None
               PROVE  call[c].tok # call[c].refused
    BY DEF RetriedWithAnother, Bearing
  <2>1. call[c].pc # "idle"
    BY DEF Bearing
  <2>2. CallWith(call[c], proc[call[c].at], file, tokens.minted)
    BY <2>1 DEF Inv, ClientInv, TokenInv
  <2>3. QED
    BY <2>2 DEF CallWith
<1>3. OwnToken
  BY DEF Inv, ClientInv, TokenInv
<1>4. RanOnce
  BY DEF RanOnce, Inv, RecordInv, KeyInv
<1>5. MeIsSignedIn
  <2>1. \A p \in Process : ProcOK(proc[p], tokens.minted)
    BY DEF Inv, ClientInv, TokenInv
  <2>2. QED
    BY <2>1 DEF MeIsSignedIn, Cached, ProcOK
<1>6. SweepUnseen
  BY SweptLevel DEF Inv, LimitInv
<1>7. QED
  BY <1>1, <1>2, <1>3, <1>4, <1>5, <1>6 DEF Consistent

\* The invariant holds in every reachable state; the theorems below follow from it.
THEOREM Always == Spec => []Inv
<1>1. Init => Inv
  BY InitInv
<1>2. Inv /\ [Next]_vars => Inv'
  BY NextInv
<1>3. QED
  BY <1>1, <1>2, PTL DEF Spec

\* Every state is well formed; a request bears the token its call was given,
\* and never the one that was just refused: http-backend.ts:141, after the
\* token file was cleared, rewritten by another process or left to the memory.
THEOREM ConsistentAlways == Spec => []Consistent
  BY Always, InvGood, PTL

\* The work of a keyed request is done once, however often it is sent, delayed
\* or delivered (app.ts:472), but for the keys in torn.
THEOREM RanOnceAlways == Spec => []RanOnce
  BY Always, InvGood, PTL

\* The name me() answers from its cache is the signed-in account's
\* (http-backend.ts:417).
THEOREM MeIsSignedInAlways == Spec => []MeIsSignedIn
  BY Always, InvGood, PTL

\* Dropping idle buckets never gives anyone a token, however long the clock
\* runs and whatever is drawn (ratelimit.ts:37).
THEOREM SweepUnseenAlways == Spec => []SweepUnseen
  BY Always, InvGood, PTL

-----------------------------------------------------------------------------
(* What a pull brings *)

Moving == {"token", "mint", "go", "open", "sent"}
Pulling(k) == k.pc \in Moving /\ k.op.how = "pages"

\* Only a pull asks for pages; it has no keys and does not take a 404.
PagesOp(op) ==
  op.how = "pages" => op.route.does = "page" /\ ~op.idempotent /\ ~op.allow404 /\ ~op.route.docs

LEMMA Pages == \A op \in Operation : PagesOp(op)
<1>1. /\ \A how, route : Ask(how, route).how = how
      /\ \A how, route : Idempotent(Ask(how, route)).how = how
  BY DEF Idempotent, Ask
<1>2. PagesOp(pull)
  <2>1. GetDocuments.does = "page" /\ ~GetDocuments.docs
    <3>1. Get("page").does = "page"
      BY DEF Get, Route
    <3>2. ~Get("page").docs
      BY Zenon DEF Get, Route
    <3>3. QED
      BY <3>1, <3>2 DEF GetDocuments
  <2>2. pull.route = GetDocuments
    BY DEF pull, Ask
  <2>3. ~pull.idempotent
    BY Zenon DEF pull, Ask
  <2>4. ~pull.allow404
    BY Zenon DEF pull, Ask
  <2>5. QED
    BY <2>1, <2>2, <2>3, <2>4 DEF PagesOp
<1>3. me.how # "pages" /\ dataRules.how # "pages" /\ prepare.how # "pages" /\ describe.how # "pages"
  <2>1. me.how = "me"
    BY <1>1 DEF me
  <2>2. prepare.how = "sign in" /\ describe.how = "sign in"
    BY <1>1 DEF prepare, describe
  <2>3. QED
    BY <2>1, <2>2 DEF dataRules
<1>4. upsertMany.how # "pages" /\ delete.how # "pages" /\ restore.how # "pages" /\ purge.how # "pages"
  BY <1>1 DEF upsertMany, delete, restore, purge
<1>5. listDeleted.how # "pages" /\ collections.how # "pages" /\ collectionsForUser.how # "pages"
      /\ collectionsByIds.how # "pages" /\ ownersByIds.how # "pages" /\ maxTaskNumber.how # "pages"
  BY <1>1 DEF listDeleted, collections, collectionsForUser, collectionsByIds, ownersByIds,
              maxTaskNumber
<1>6. createdAt.how # "pages"
  <2>1. \A route : [Ask("once", route) EXCEPT !.allow404 = TRUE].how = "once"
    BY DEF Ask
  <2>2. QED
    BY <2>1 DEF createdAt
<1>7. leaseAcquire.how # "pages" /\ leaseHeartbeat.how # "pages" /\ leaseRelease.how # "pages"
      /\ leaseList.how # "pages" /\ similar.how # "pages" /\ addRelatedIds.how # "pages"
      /\ health.how # "pages"
  BY <1>1 DEF leaseAcquire, leaseHeartbeat, leaseRelease, leaseList, similar, addRelatedIds, health
<1>8. counterNext.how # "pages" /\ nextTaskId.how # "pages"
  BY <1>1 DEF counterNext, nextTaskId
<1>9. QED
  BY <1>2, <1>3, <1>4, <1>5, <1>6, <1>7, <1>8 DEF Operation, PagesOp

\* Documents are stored under a key.
Stores(op) == op.route.does = "store" => op.idempotent /\ op.route.keyed

LEMMA StoreKeyed == \A op \in Operation : Stores(op)
<1>1. /\ \A does : Get(does).does = does
      /\ \A does : OfDocs(does).does = does
      /\ \A class, does : Route(class, does).does = does
      /\ \A class, does : Keyed(Route(class, does)).does = does
  BY DEF Get, OfDocs, Keyed, Route
<1>2. /\ \A how, route : Ask(how, route).route = route
      /\ \A how, route : Idempotent(Ask(how, route)).route = route
      /\ \A route : [Ask("once", route) EXCEPT !.allow404 = TRUE].route = route
  BY DEF Idempotent, Ask
<1>3. Stores(upsertMany)
  <2>1. \A how, route : Idempotent(Ask(how, route)).idempotent
    BY Zenon DEF Idempotent, Ask
  <2>2. \A does : OfDocs(does).keyed
    <3>1. \A does : Keyed(Route("write", does)).keyed
      BY Zenon DEF Keyed, Route
    <3>2. \A does : OfDocs(does) = [Keyed(Route("write", does)) EXCEPT !.docs = TRUE]
      BY DEF OfDocs
    <3>3. \A route : "keyed" \in DOMAIN route =>
            [route EXCEPT !.docs = TRUE].keyed = route.keyed
      OBVIOUS
    <3>4. \A does : "keyed" \in DOMAIN Keyed(Route("write", does))
      BY DEF Keyed, Route
    <3>5. QED
      BY <3>1, <3>2, <3>3, <3>4
  <2>3. QED
    BY <1>2, <2>1, <2>2 DEF Stores, upsertMany, BatchUpsert
<1>4. \A op \in {me, prepare, describe} : op.route.does = "none"
  <2>1. GetMe.does = "none"
    BY <1>1 DEF GetMe
  <2>2. me.route = GetMe /\ prepare.route = GetMe /\ describe.route = GetMe
    BY <1>2 DEF me, prepare, describe
  <2>3. QED
    BY <2>1, <2>2
<1>5. \A op \in {listDeleted, collections, collectionsForUser, maxTaskNumber, leaseList, health} :
        op.route.does = "none"
  BY <1>1, <1>2 DEF listDeleted, collections, collectionsForUser, maxTaskNumber, leaseList,
       health, GetHealth, GetMyCollections, GetMaxTaskNumber, GetCollections, GetDeleted, GetLeases
<1>6. createdAt.route.does = "none" /\ pull.route.does = "page"
  BY <1>1, <1>2 DEF createdAt, GetCreatedAt, pull, GetDocuments
<1>7. \A op \in {collectionsByIds, ownersByIds, similar, leaseAcquire, leaseHeartbeat, leaseRelease} :
        op.route.does = "none"
  BY <1>1, <1>2 DEF collectionsByIds, ownersByIds, similar, PostCollections, PostOwners,
       PostSimilar, leaseAcquire, leaseHeartbeat, leaseRelease, LeasesAcquire, LeasesHeartbeat,
       LeasesRelease
<1>8. addRelatedIds.route.does = "link" /\ delete.route.does = "remove"
      /\ restore.route.does = "restore" /\ purge.route.does = "purge"
  BY <1>1, <1>2 DEF addRelatedIds, PostRelatedIds, delete, BatchDelete, restore, PostRestore,
       purge, PostPurge
<1>9. counterNext.route.does = "count" /\ nextTaskId.route.does = "count"
  BY <1>1, <1>2 DEF counterNext, nextTaskId, CountersNext, TaskIdsNext
<1>10. dataRules = me
  BY DEF dataRules
<1>11. \A op : op.route.does \in {"none", "page", "link", "remove", "restore", "purge", "count"}
          => Stores(op)
  BY DEF Stores
<1>12. QED
  BY <1>3, <1>4, <1>5, <1>6, <1>7, <1>8, <1>9, <1>10, <1>11 DEF Operation

\* A request that is looked up, at work or kept bears a key.
StageInv == \A r \in net : r.stage \in {"look", "work", "keep"} => WithKey(r)

\* Of a document nothing touched, a pull has the row, or has it ahead; its
\* deletion is applied, or ahead; and what it saw is there.
Followed(pl, d) ==
  /\ Live(d) /\ ~row[d].own => (d \in held /\ d \in pl.seen) \/ After(row[d].at, d, pl.d)
  /\ ~Live(d) /\ deleted[d] # 0 => d \notin held \/ After(deleted[d], d, pl.x)
  /\ d \in pl.seen => Live(d) /\ ~row[d].own

PullInv ==
  \A c \in Call : Pulling(call[c]) => \A d \in Doc \ stirred[c] : Followed(call[c].pull, d)

\* What a step may do to a pull, but for a page of its own: nothing, start it,
\* or end it badly.
Keeps(k, d) ==
  /\ Pulling(d) => d.pull = NoPull \/ (Pulling(k) /\ d.pull = k.pull)
  /\ k.pc = "sent" /\ k.op.how = "pages" => d.pc # "done"

\* A step that keeps a pull, and leaves alone what it does not stir.
LEMMA PullKept ==
  ASSUME Inv', PullInv, NEW c \in Call, Keeps(call[c], call'[c]),
         Pulling(call[c]) => stirred[c] \subseteq stirred'[c],
         Pulling(call[c]) => \A d \in Doc \ stirred'[c] :
           row'[d] = row[d] /\ deleted'[d] = deleted[d] /\ (d \in held' <=> d \in held),
         Pulling(call'[c]), NEW d \in Doc \ stirred'[c]
  PROVE  Followed(call[c].pull, d)'
<1>1. CASE call'[c].pull = NoPull
  <2>1. row' \in [Doc -> [at : Nat, own : BOOLEAN]] /\ deleted' \in [Doc -> Nat]
    BY DEF Inv, StoreInv, RowsOK
  <2>2. row'[d].at \in Nat /\ row'[d].own \in BOOLEAN /\ deleted'[d] \in Nat
        /\ row'[d] = [at |-> row'[d].at, own |-> row'[d].own]
    BY <2>1
  <2>3. ASSUME Live(d)', ~row'[d].own PROVE row'[d].at # 0
    BY <2>2, <2>3 DEF Live, NoRow
  <2>4. NoPull.d.t = 0 /\ NoPull.x.t = 0 /\ NoPull.seen = {}
    BY DEF NoPull
  <2>5. QED
    BY <1>1, <2>2, <2>3, <2>4 DEF Followed, After
<1>2. CASE Pulling(call[c]) /\ call'[c].pull = call[c].pull
  <2>1. d \in Doc \ stirred[c] /\ row'[d] = row[d] /\ deleted'[d] = deleted[d]
        /\ (d \in held' <=> d \in held)
    BY <1>2
  <2>2. Followed(call[c].pull, d)
    BY <1>2, <2>1 DEF PullInv
  <2>3. QED
    BY <1>2, <2>1, <2>2 DEF Followed, Live, After
<1>3. QED
  BY <1>1, <1>2 DEF Keeps

\* The end of a pull, in a step.
PullEnds ==
  \A c \in Call :
    call[c].pc = "sent" /\ call'[c].pc = "done" /\ call[c].op.how = "pages"
    /\ ~call'[c].pull.cut => Whole(c)'

\* A step that keeps every pull.
LEMMA PullsKept ==
  ASSUME Inv', PullInv, \A c \in Call : Keeps(call[c], call'[c]),
         \A c \in Call : Pulling(call[c]) => stirred[c] \subseteq stirred'[c],
         \A c \in Call : Pulling(call[c]) => \A d \in Doc \ stirred'[c] :
           row'[d] = row[d] /\ deleted'[d] = deleted[d] /\ (d \in held' <=> d \in held)
  PROVE  PullInv' /\ PullEnds
<1>1. PullEnds
  BY DEF PullEnds, Keeps
<1>2. \A c \in Call : Pulling(call'[c]) => \A d \in Doc \ stirred'[c] : Followed(call[c].pull, d)'
  BY PullKept
<1>3. PullInv'
  BY <1>2 DEF PullInv, Pulling
<1>4. QED
  BY <1>1, <1>3

LEMMA PullsQuiet ==
  ASSUME Inv', PullInv, \A c \in Call : Keeps(call[c], call'[c]),
         UNCHANGED <<row, deleted, held, stirred>>
  PROVE  PullInv' /\ PullEnds
  BY PullsKept

\* What a page makes of a pull.
LEMMA TurnedPull ==
  ASSUME NEW k \in Client1, NEW page \in PageType, PageTurn(k.pull, page)
  PROVE  LET d == Turned(k, page) IN
         \/ d.pc = "done" /\ (~d.pull.cut => ~page.more)
         \/ /\ d.pc = "token" /\ d.op = k.op /\ d.pull.d = page.d /\ d.pull.x = page.x
            /\ d.pull.seen = k.pull.seen \cup page.docs
<1>1. PICK d : d = Turned(k, page)
  OBVIOUS
<1>2. PICK pl \in Pull : pl = k.pull
  BY DEF Client1
<1>3. PICK turned :
        turned = [pl EXCEPT !.d = page.d, !.x = page.x, !.page = pl.page + 1,
                            !.seen = pl.seen \cup page.docs]
  OBVIOUS
<1>4. PICK on \in BOOLEAN :
        on <=> page.more /\ (page.d # pl.d \/ page.x # pl.x \/ pl.page = 0)
  OBVIOUS
<1>5. on <=> page.more
  BY <1>2, <1>4 DEF PageTurn
<1>6. \/ d = NextPart([k EXCEPT !.pull = turned])
      \/ \E b \in BOOLEAN : (b <=> on) /\ d = Over([k EXCEPT !.pull.cut = b], "done")
  <2>1. PICK b \in BOOLEAN : b = (page.more /\ (page.d # pl.d \/ page.x # pl.x \/ pl.page = 0))
    OBVIOUS
  <2>2. b <=> on
    BY <1>4, <2>1
  <2>3. d = IF b /\ turned.page < MaxPages THEN NextPart([k EXCEPT !.pull = turned])
            ELSE Over([k EXCEPT !.pull.cut = b], "done")
    BY <1>1, <1>2, <1>3, <2>1 DEF Turned
  <2>4. QED
    BY <2>2, <2>3
<1>7. ASSUME d = NextPart([k EXCEPT !.pull = turned])
      PROVE  /\ d.pc = "token" /\ d.op = k.op /\ d.pull.d = page.d /\ d.pull.x = page.x
             /\ d.pull.seen = k.pull.seen \cup page.docs
  <2>1. turned.d = page.d /\ turned.x = page.x /\ turned.seen = k.pull.seen \cup page.docs
    BY <1>2, <1>3 DEF Pull
  <2>2. d.pull = turned /\ d.pc = "token" /\ d.op = k.op
    BY <1>7 DEF NextPart, Client1
  <2>3. QED
    BY <2>1, <2>2
<1>8. ASSUME NEW b \in BOOLEAN, b <=> on, d = Over([k EXCEPT !.pull.cut = b], "done")
      PROVE  d.pc = "done" /\ (~d.pull.cut => ~page.more)
  <2>1. PICK j \in Client1 : j = [k EXCEPT !.pull.cut = b] /\ (j.pull.cut <=> b)
    <3>1. [k EXCEPT !.pull.cut = b] \in Client1
      BY <1>2 DEF Client1, Pull
    <3>2. [k EXCEPT !.pull.cut = b].pull = [pl EXCEPT !.cut = b]
      BY <1>2 DEF Client1
    <3>3. [pl EXCEPT !.cut = b].cut <=> b
      BY <1>2, Zenon DEF Pull
    <3>4. QED
      BY <3>1, <3>2, <3>3
  <2>2. d = Over(j, "done")
    BY <1>8, <2>1
  <2>3. d.pc = "done"
    BY <2>1, <2>2, OverCall
  <2>4. d.pull.cut <=> j.pull.cut
    <3>1. d.pull = [NoPull EXCEPT !.cut = j.pull.cut]
      BY <2>2 DEF Over, NoCall
    <3>2. [NoPull EXCEPT !.cut = j.pull.cut].cut <=> j.pull.cut
      BY Zenon DEF NoPull
    <3>3. QED
      BY <3>1, <3>2
  <2>5. QED
    BY <1>5, <1>8, <2>1, <2>3, <2>4
<1>9. QED
  BY <1>1, <1>6, <1>7, <1>8

\* What is applied of a page, and what is then ahead.
LEMMA PageFollowed ==
  ASSUME RowsOK, NEW pl \in Pull, NEW page \in PageType, PageTurn(pl, page),
         NEW d \in Doc, Followed(pl, d)
  PROVE  LET h == Applied(pl, page) IN
         /\ Live(d) /\ ~row[d].own =>
              (d \in h /\ d \in pl.seen \cup page.docs) \/ After(row[d].at, d, page.d)
         /\ ~Live(d) /\ deleted[d] # 0 => d \notin h \/ After(deleted[d], d, page.x)
         /\ d \in pl.seen \cup page.docs => Live(d) /\ ~row[d].own
         /\ ~page.more => /\ Live(d) /\ ~row[d].own => d \in h
                          /\ ~Live(d) /\ deleted[d] # 0 => d \notin h
<1>1. d \in page.docs => Live(d) /\ ~row[d].own
  BY DEF PageTurn, Rows
<1>2. ASSUME Live(d), ~row[d].own
      PROVE  /\ (d \in Applied(pl, page) /\ d \in pl.seen \cup page.docs) \/ After(row[d].at, d, page.d)
             /\ ~page.more => d \in Applied(pl, page)
  BY <1>2 DEF Followed, PageTurn, Rows, Applied
<1>3. ASSUME ~Live(d), deleted[d] # 0
      PROVE  /\ d \notin Applied(pl, page) \/ After(deleted[d], d, page.x)
             /\ ~page.more => d \notin Applied(pl, page)
  BY <1>1, <1>3 DEF Followed, PageTurn, Removed, Applied
<1>4. d \in pl.seen \cup page.docs => Live(d) /\ ~row[d].own
  BY <1>1 DEF Followed
<1>5. QED
  BY <1>2, <1>3, <1>4

\* A pull takes a page.
LEMMA PageStep ==
  ASSUME Inv, Inv', PullInv, NEW c \in Call, NEW k, k = call[c],
         k.pc = "sent", k.op.how = "pages", NEW page, page = Page(k.pull),
         call' = [call EXCEPT ![c] = Turned(k, page)], held' = Applied(k.pull, page),
         UNCHANGED <<row, deleted>>,
         \A x \in Call : Pulling(call[x]) =>
           stirred'[x] = stirred[x] \cup (IF x = c THEN {} ELSE page.docs \cup page.gone)
  PROVE  PullInv' /\ PullEnds
<1>1. k \in Client1 /\ k.pull \in Pull /\ Pulling(k) /\ RowsOK
  <2>1. k \in Client1
    BY DEF Inv, ClientInv, TokenInv
  <2>2. QED
    BY <2>1 DEF Inv, StoreInv, Client1, Pulling, Moving
<1>2. page \in PageType /\ PageTurn(k.pull, page)
  BY <1>1, PageOK, PageTurns
<1>3. PICK t : t = Turned(k, page)
  OBVIOUS
<1>4. call'[c] = t /\ \A x \in Call : x # c => call'[x] = call[x]
  BY <1>3, CallAt DEF Inv, ClientInv, TokenInv
<1>5. \/ t.pc = "done" /\ (~t.pull.cut => ~page.more)
      \/ /\ t.pc = "token" /\ t.op = k.op /\ t.pull.d = page.d /\ t.pull.x = page.x
         /\ t.pull.seen = k.pull.seen \cup page.docs
  BY <1>1, <1>2, <1>3, TurnedPull
<1>6. stirred'[c] = stirred[c]
  BY <1>1
<1>7. ASSUME NEW d \in Doc \ stirred[c]
      PROVE  /\ Live(d) /\ ~row[d].own =>
                  (d \in held' /\ d \in k.pull.seen \cup page.docs) \/ After(row[d].at, d, page.d)
             /\ ~Live(d) /\ deleted[d] # 0 => d \notin held' \/ After(deleted[d], d, page.x)
             /\ d \in k.pull.seen \cup page.docs => Live(d) /\ ~row[d].own
             /\ ~page.more => /\ Live(d) /\ ~row[d].own => d \in held'
                              /\ ~Live(d) /\ deleted[d] # 0 => d \notin held'
  <2>1. Followed(k.pull, d)
    BY <1>1 DEF PullInv
  <2>2. QED
    BY <1>1, <1>2, <2>1, PageFollowed
<1>8. \A x \in Call \ {c} : Keeps(call[x], call'[x])
  BY <1>4 DEF Keeps
<1>9. PullEnds
  <2>1. ASSUME t.pc = "done", ~t.pull.cut PROVE Whole(c)'
    <3>1. ~page.more
      BY <1>5, <2>1
    <3>2. QED
      BY <1>6, <1>7, <3>1 DEF Whole, Live
  <2>2. QED
    BY <1>4, <1>8, <2>1 DEF PullEnds, Keeps
<1>10. ASSUME NEW x \in Call, Pulling(call'[x]), NEW d \in Doc \ stirred'[x]
       PROVE  Followed(call[x].pull, d)'
  <2>1. CASE x = c
    <3>1. t.pull.d = page.d /\ t.pull.x = page.x /\ t.pull.seen = k.pull.seen \cup page.docs
      BY <1>4, <1>5, <1>10, <2>1 DEF Pulling, Moving
    <3>2. QED
      BY <1>4, <1>6, <1>7, <2>1, <3>1 DEF Followed, Live, After
  <2>2. CASE x # c
    <3>1. Pulling(call[x]) => stirred[x] \subseteq stirred'[x]
      BY <2>2
    <3>2. ASSUME Pulling(call[x]), NEW e \in Doc \ stirred'[x] PROVE e \in held' <=> e \in held
      <4>1. e \notin page.docs /\ e \notin page.gone
        BY <2>2, <3>2
      <4>2. QED
        BY <4>1 DEF Applied
    <3>3. Keeps(call[x], call'[x])
      BY <1>8, <2>2
    <3>4. QED
      BY <1>10, <3>1, <3>2, <3>3, PullKept
  <2>3. QED
    BY <2>1, <2>2
<1>11. PullInv'
  BY <1>10 DEF PullInv, Pulling
<1>12. QED
  BY <1>9, <1>11

LEMMA SamePull ==
  ASSUME NEW k, NEW d, k.pc \in Moving, d.pc # "done", d.op = k.op, d.pull = k.pull
  PROVE  Keeps(k, d)
  BY DEF Keeps, Pulling

LEMMA NoPullLeft ==
  ASSUME NEW k, NEW d, d.pc \notin Moving, k.pc = "sent" /\ k.op.how = "pages" => d.pc # "done"
  PROVE  Keeps(k, d)
  BY DEF Keeps, Pulling

\* One call goes on.
LEMMA OneKeeps ==
  ASSUME ClientInv, NEW c \in Call, NEW d, call' = [call EXCEPT ![c] = d], Keeps(call[c], d)
  PROVE  \A x \in Call : Keeps(call[x], call'[x])
<1>1. \A x \in Call : Keeps(call[x], call[x])
  BY DEF Keeps
<1>2. call'[c] = d /\ \A x \in Call : x # c => call'[x] = call[x]
  BY CallAt DEF ClientInv, TokenInv
<1>3. QED
  BY <1>1, <1>2

\* An answer that brings no page.
LEMMA HeardKeeps ==
  ASSUME NEW c \in Call, NEW k, CallOK(c, k), k.pc = "sent", NEW status, NEW page \in PageType,
         status # "ok" \/ k.op.how # "pages"
  PROVE  Keeps(k, Heard(k, status, page))
<1>0. PICK d : d = Heard(k, status, page)
  OBVIOUS
<1> SUFFICES Keeps(k, d)
  BY <1>0
<1>1. k \in Client1 /\ k.op \in Operation /\ k.pc \in Moving
  BY DEF CallOK, Moving
<1>2. Keeps(k, Over(k, "failed"))
  <2>1. Over(k, "failed").pc = "failed"
    BY <1>1, OverCall
  <2>2. QED
    BY <2>1, NoPullLeft DEF Moving
<1>3. CASE k.op.how # "pages"
  <2>1. d.op = k.op
    BY <1>0, HeardCall DEF Ended, Again, Resent
  <2>2. QED
    BY <1>3, <2>1 DEF Keeps, Pulling
<1>4. CASE k.op.how = "pages" /\ status = "unauthenticated"
  <2>1. d = Rejected(k)
    BY <1>0, <1>4 DEF Heard
  <2>2. d = Over(k, "failed") \/ (Again(k, d) /\ d.pull = k.pull)
    BY <2>1, RejectedCall
  <2>3. CASE Again(k, d) /\ d.pull = k.pull
    BY <1>1, <2>3, SamePull DEF Again
  <2>4. QED
    BY <1>2, <2>2, <2>3
<1>5. CASE k.op.how = "pages" /\ status = "expired"
  <2>1. d = Expired(k)
    BY <1>0, <1>5 DEF Heard
  <2>2. ~k.op.allow404
    BY <1>1, <1>5, Pages DEF PagesOp
  <2>3. CASE ~(k.reused /\ ~k.resent)
    BY <1>2, <2>1, <2>2, <2>3 DEF Expired
  <2>4. CASE k.reused /\ ~k.resent
    <3> DEFINE e == [k EXCEPT !.pc = "go", !.resent = TRUE]
    <3>1. d = e
      BY <2>1, <2>4 DEF Expired
    <3>2. e.pc = "go" /\ e.op = k.op /\ e.pull = k.pull
      BY <1>1 DEF Client1
    <3> HIDE DEF e
    <3>3. QED
      BY <1>1, <3>1, <3>2, SamePull
  <2>5. QED
    BY <2>3, <2>4
<1>6. CASE k.op.how = "pages" /\ status \notin {"ok", "unauthenticated", "expired"}
  <2>1. d = Over(k, "failed")
    BY <1>0, <1>6 DEF Heard
  <2>2. QED
    BY <1>2, <2>1
<1>7. QED
  BY <1>3, <1>4, <1>5, <1>6

LEMMA AnswerKeeps ==
  ASSUME ClientInv, NEW r \in net, NEW status, NEW page \in PageType, Answer(r, status, page),
         status # "ok" \/ r.op.how # "pages"
  PROVE  (\A x \in Call : Keeps(call[x], call'[x])) /\ UNCHANGED held
<1>1. PICK c \in Call : c = r.call
  BY RequestType
<1>2. PICK k : k = call[c]
  OBVIOUS
<1>3. CallOK(c, k) /\ r \in Sending
  BY <1>2, RequestType DEF ClientInv, TokenInv
<1>4. CASE k.pc = "sent" /\ k.sent = [r EXCEPT !.stage = "sent", !.done = {}]
  <2>1. r.op = k.op
    BY <1>3, <1>4 DEF CallOK, Sending
  <2>2. status # "ok" \/ k.op.how # "pages"
    BY <2>1
  <2>3. call' = [call EXCEPT ![c] = Heard(k, status, page)] /\ held' = held
    BY <1>1, <1>2, <1>4, <2>2 DEF Answer
  <2>4. Keeps(k, Heard(k, status, page))
    BY <1>3, <1>4, <2>2, HeardKeeps
  <2>5. QED
    BY <1>2, <2>3, <2>4, OneKeeps
<1>5. CASE ~(k.pc = "sent" /\ k.sent = [r EXCEPT !.stage = "sent", !.done = {}])
  <2>1. call' = call /\ held' = held
    BY <1>1, <1>2, <1>5 DEF Answer
  <2>2. QED
    BY <2>1 DEF Keeps
<1>6. QED
  BY <1>4, <1>5

\* The steps of the clients.
LEMMA OuterKeeps ==
  ASSUME ClientInv,
         \/ \E c \in Call, p \in Process : \E op \in Asked[c] : Begin(c, p, op)
         \/ \E c \in Call : GetToken(c) \/ SendHttp(c) \/ SendOverSession(c) \/ Connect(c)
         \/ \E p \in Process : \E t \in Printable : MintDone(p, t)
         \/ \E o \in opens : OpenDone(o) \/ OpenRejected(o)
         \/ \E p \in Process : MintFails(p) \/ Close(p)
         \/ \E o \in opens : OpenFails(o)
         \/ \E c \in Call : TimeOut(c) \/ Duplicate(c)
         \/ \E id \in 1 .. sessions.opened : SessionEnds(id)
         \/ \E user \in User : SwitchAccount(user)
         \/ TokenEnds
  PROVE  (\A x \in Call : Keeps(call[x], call'[x])) /\ UNCHANGED stirred
<1>1. \A c \in Call : call[c] \in Client1 /\ CallOK(c, call[c])
  BY DEF ClientInv, TokenInv
<1>2. \A c \in Call : Keeps(call[c], call[c])
  BY DEF Keeps
<1>3. ASSUME NEW k \in Client1
      PROVE  /\ Over(k, "failed").pc = "failed" /\ Keeps(k, Over(k, "failed"))
  <2>1. Over(k, "failed").pc = "failed"
    BY OverCall
  <2>2. QED
    BY <2>1, NoPullLeft DEF Moving
<1>4. ASSUME NEW c \in Call, NEW p \in Process, NEW op \in Asked[c], Begin(c, p, op)
      PROVE  (\A x \in Call : Keeps(call[x], call'[x])) /\ UNCHANGED stirred
  <2>1. PICK pc : pc = IF op.how = "me" /\ Cached(p) THEN "done" ELSE "token"
    OBVIOUS
  <2>2. PICK d : d = [NoCall EXCEPT !.at = p, !.op = op, !.pc = pc]
    OBVIOUS
  <2>3. d.pull = NoPull
    BY <2>2 DEF NoCall
  <2>4. call[c].pc = "idle" /\ call' = [call EXCEPT ![c] = d] /\ UNCHANGED stirred
    BY <1>4, <2>1, <2>2 DEF Begin
  <2>5. Keeps(call[c], d)
    BY <2>3, <2>4 DEF Keeps
  <2>6. QED
    BY <2>4, <2>5, OneKeeps
<1>5. ASSUME NEW k \in Client1, NEW t, NEW g, k.pc \in {"token", "mint"}
      PROVE  Keeps(k, Granted(k, t, g))
  <2> DEFINE d == [k EXCEPT !.pc = "go", !.tok = t, !.gen = g]
  <2>1. d.pc = "go" /\ d.op = k.op /\ d.pull = k.pull
    BY DEF Client1
  <2> HIDE DEF d
  <2>2. Keeps(k, d)
    BY <1>5, <2>1, SamePull DEF Moving
  <2>3. QED
    BY <2>2 DEF Granted, d
<1>6. ASSUME NEW c \in Call, GetToken(c)
      PROVE  (\A x \in Call : Keeps(call[x], call'[x])) /\ UNCHANGED stirred
  <2>1. PICK k \in Client1 : k = call[c]
    BY <1>1
  <2>2. k.pc = "token" /\ UNCHANGED stirred
    BY <1>6, <2>1 DEF GetToken
  <2>3. CASE \E t, g : call' = [call EXCEPT ![c] = Granted(k, t, g)]
    <3>1. PICK t, g : call' = [call EXCEPT ![c] = Granted(k, t, g)]
      BY <2>3
    <3>2. Keeps(k, Granted(k, t, g))
      BY <1>5, <2>2
    <3>3. QED
      BY <2>1, <2>2, <3>1, <3>2, OneKeeps
  <2>4. CASE call' = [call EXCEPT ![c] = [k EXCEPT !.pc = "mint"]]
    <3> DEFINE d == [k EXCEPT !.pc = "mint"]
    <3>1. d.pc = "mint" /\ d.op = k.op /\ d.pull = k.pull
      BY DEF Client1
    <3>2. call' = [call EXCEPT ![c] = d]
      BY <2>4
    <3> HIDE DEF d
    <3>3. Keeps(k, d)
      BY <2>2, <3>1, SamePull DEF Moving
    <3>4. QED
      BY <2>1, <2>2, <3>2, <3>3, OneKeeps
  <2>5. (\E t, g : call' = [call EXCEPT ![c] = Granted(k, t, g)])
        \/ call' = [call EXCEPT ![c] = [k EXCEPT !.pc = "mint"]]
    BY <1>6, <2>1 DEF GetToken
  <2>6. QED
    BY <2>3, <2>4, <2>5
<1>7. ASSUME NEW k \in Client1, NEW r, NEW reused, k.pc \in Moving
      PROVE  Keeps(k, Sent(k, r, reused))
  <2> DEFINE d == [k EXCEPT !.pc = "sent", !.sent = r, !.reused = reused, !.via = None]
  <2>1. d.pc = "sent" /\ d.op = k.op /\ d.pull = k.pull
    BY DEF Client1
  <2> HIDE DEF d
  <2>2. Keeps(k, d)
    BY <1>7, <2>1, SamePull
  <2>3. QED
    BY <2>2 DEF Sent, d
<1>8. ASSUME NEW c \in Call, SendHttp(c) \/ SendOverSession(c)
      PROVE  (\A x \in Call : Keeps(call[x], call'[x])) /\ UNCHANGED stirred
  <2>1. PICK k \in Client1 : k = call[c]
    BY <1>1
  <2>2. k.pc \in Moving /\ UNCHANGED stirred
        /\ \E r, reused : call' = [call EXCEPT ![c] = Sent(k, r, reused)]
    BY <1>8, <2>1 DEF SendHttp, SendOverSession, Moving
  <2>3. PICK r, reused : call' = [call EXCEPT ![c] = Sent(k, r, reused)]
    BY <2>2
  <2>4. Keeps(k, Sent(k, r, reused))
    BY <1>7, <2>2
  <2>5. QED
    BY <2>1, <2>2, <2>3, <2>4, OneKeeps
<1>9. ASSUME NEW c \in Call, Connect(c)
      PROVE  (\A x \in Call : Keeps(call[x], call'[x])) /\ UNCHANGED stirred
  <2>1. PICK k \in Client1 : k = call[c]
    BY <1>1
  <2>2. k.pc = "go" /\ UNCHANGED stirred
        /\ \E via : call' = [call EXCEPT ![c] = [k EXCEPT !.pc = "open", !.via = via]]
    BY <1>1, <1>9, <2>1 DEF Connect, ClientInv, TokenInv
  <2>3. PICK via : call' = [call EXCEPT ![c] = [k EXCEPT !.pc = "open", !.via = via]]
    BY <2>2
  <2> DEFINE d == [k EXCEPT !.pc = "open", !.via = via]
  <2>4. d.pc = "open" /\ d.op = k.op /\ d.pull = k.pull
    BY DEF Client1
  <2>5. call' = [call EXCEPT ![c] = d]
    BY <2>3
  <2> HIDE DEF d
  <2>6. Keeps(k, d)
    BY <2>2, <2>4, SamePull DEF Moving
  <2>7. QED
    BY <2>1, <2>2, <2>5, <2>6, OneKeeps
<1>10. ASSUME NEW p \in Process, MintFails(p) \/ \E t \in Printable : MintDone(p, t)
       PROVE  (\A x \in Call : Keeps(call[x], call'[x])) /\ UNCHANGED stirred
  <2>1. UNCHANGED stirred
    BY <1>10 DEF MintDone, MintFails
  <2>2. ASSUME NEW x \in Call PROVE Keeps(call[x], call'[x])
    <3>1. PICK k \in Client1 : k = call[x]
      BY <1>1
    <3>2. CASE MintFails(p)
      <4>1. call'[x] = k \/ (k.pc = "mint" /\ call'[x] = Over(k, "failed"))
        BY <3>1, <3>2 DEF MintFails, Waiting
      <4>2. QED
        BY <1>2, <1>3, <3>1, <4>1
    <3>3. CASE \E t \in Printable : MintDone(p, t)
      <4>1. PICK t : MintDone(p, t)
        BY <3>3
      <4>2. PICK d : d = Forgiven(k, t)
        OBVIOUS
      <4>3. \E y : d = [k EXCEPT !.refused = y]
        BY <4>2 DEF Forgiven
      <4>4. d.pc = k.pc /\ d.op = k.op /\ d.pull = k.pull
        BY <3>1, <4>3 DEF Client1
      <4>5. call'[x] = d \/ (k.pc = "mint" /\ \E g : call'[x] = Granted(d, t, g))
        BY <3>1, <4>1, <4>2 DEF MintDone, Waiting
      <4>6. \A g : \E y : Granted(d, t, g) = [k EXCEPT !.refused = y, !.pc = "go", !.tok = t, !.gen = g]
        BY <4>3 DEF Granted
      <4>7. \A y, g : LET e == [k EXCEPT !.refused = y, !.pc = "go", !.tok = t, !.gen = g] IN
              e.pc = "go" /\ e.op = k.op /\ e.pull = k.pull
        BY <3>1 DEF Client1
      <4>8. call'[x].op = k.op /\ call'[x].pull = k.pull
            /\ (call'[x].pc = k.pc \/ (k.pc = "mint" /\ call'[x].pc = "go"))
        <5>1. CASE call'[x] = d
          BY <4>4, <5>1
        <5>2. CASE k.pc = "mint" /\ \E g : call'[x] = Granted(d, t, g)
          <6>1. PICK g : call'[x] = Granted(d, t, g)
            BY <5>2
          <6>2. PICK y : call'[x] = [k EXCEPT !.refused = y, !.pc = "go", !.tok = t, !.gen = g]
            BY <4>6, <6>1
          <6>3. QED
            BY <4>7, <5>2, <6>2
        <5>3. QED
          BY <4>5, <5>1, <5>2
      <4>9. PICK e : e = call'[x]
        OBVIOUS
      <4>10. Pulling(e) => Pulling(k)
        BY <4>8, <4>9 DEF Pulling, Moving
      <4>11. Keeps(k, e)
        BY <4>8, <4>9, <4>10 DEF Keeps
      <4>12. Keeps(call[x], call'[x])
        BY Zenon, <3>1, <4>9, <4>11
      <4>13. QED
        BY <4>12
    <3>4. QED
      BY <1>10, <3>2, <3>3
  <2>3. QED
    BY <2>1, <2>2
<1>11. ASSUME NEW o \in opens, OpenDone(o) \/ OpenRejected(o) \/ OpenFails(o)
       PROVE  (\A x \in Call : Keeps(call[x], call'[x])) /\ UNCHANGED stirred
  <2>1. UNCHANGED stirred
    BY <1>11 DEF OpenDone, OpenRejected, OpenFails
  <2>2. ASSUME NEW x \in Call PROVE Keeps(call[x], call'[x])
    <3>1. PICK k \in Client1 : k = call[x] /\ CallOK(x, k)
      BY <1>1
    <3>2. \/ call'[x] = k
          \/ /\ k.pc = "open"
             /\ \/ call'[x] \in {Over(k, "failed"), Rejected(k)}
                \/ \E r : call'[x] = Sent(k, r, FALSE)
      BY <1>11, <3>1 DEF OpenDone, OpenRejected, OpenFails, OpenedFor
    <3>3. CASE k.pc = "open" /\ call'[x] = Rejected(k)
      <4>1. PICK d : d = Rejected(k)
        OBVIOUS
      <4>2. d = Over(k, "failed") \/ (Again(k, d) /\ d.pull = k.pull)
        BY <3>1, <3>3, <4>1, RejectedCall
      <4>3. ASSUME Again(k, d), d.pull = k.pull PROVE Keeps(k, d)
        <5>1. k.pc \in Moving
          BY <3>3 DEF Moving
        <5>2. QED
          BY <4>3, <5>1, SamePull DEF Again
      <4>4. QED
        BY <1>3, <3>1, <3>3, <4>1, <4>2, <4>3
    <3>4. CASE k.pc = "open" /\ call'[x] = Over(k, "failed")
      BY <1>3, <3>1, <3>4
    <3>5. CASE k.pc = "open" /\ \E r : call'[x] = Sent(k, r, FALSE)
      <4>1. PICK r : call'[x] = Sent(k, r, FALSE)
        BY <3>5
      <4>2. k.pc \in Moving
        BY <3>5 DEF Moving
      <4>3. Keeps(k, Sent(k, r, FALSE))
        BY <1>7, <4>2
      <4>4. QED
        BY <3>1, <4>1, <4>3
    <3>6. CASE call'[x] = k
      BY <1>2, <3>1, <3>6
    <3>7. QED
      BY <3>2, <3>3, <3>4, <3>5, <3>6
  <2>3. QED
    BY <2>1, <2>2
<1>12. ASSUME NEW c \in Call, TimeOut(c)
       PROVE  (\A x \in Call : Keeps(call[x], call'[x])) /\ UNCHANGED stirred
  <2>1. call' = [call EXCEPT ![c] = Over(call[c], "failed")] /\ UNCHANGED stirred
    BY <1>1, <1>12 DEF TimeOut, ClientInv, TokenInv
  <2>2. QED
    BY <1>1, <1>3, <2>1, OneKeeps
<1>13. ASSUME UNCHANGED <<call, stirred>>
       PROVE  (\A x \in Call : Keeps(call[x], call'[x])) /\ UNCHANGED stirred
  BY <1>2, <1>13
<1>14. QED
  <2>1. (\E p \in Process : Close(p)) \/ (\E c \in Call : Duplicate(c))
        \/ (\E id \in 1 .. sessions.opened : SessionEnds(id))
        \/ (\E user \in User : SwitchAccount(user)) \/ TokenEnds
          => UNCHANGED <<call, stirred>>
    BY DEF Close, Duplicate, SessionEnds, SwitchAccount, TokenEnds, client
  <2>2. QED
    BY <1>4, <1>6, <1>8, <1>9, <1>10, <1>11, <1>12, <1>13, <2>1

\* An answer leaves the others where they are.
LEMMA AnswerStage ==
  ASSUME StageInv, NEW r \in net, net' = net \ {r}
  PROVE  StageInv'
  BY DEF StageInv, WithKey

LEMMA AtStageInv ==
  ASSUME ClientInv, StageInv, NEW r \in net, NEW stage \in {"look", "run", "work", "keep"}, At(r, stage),
         stage # "run" => WithKey(r)
  PROVE  StageInv'
<1>1. PICK s : s = [r EXCEPT !.stage = stage]
  OBVIOUS
<1>2. s.stage = stage /\ WithKey(s) = WithKey(r) /\ net' = (net \ {r}) \cup {s}
  BY <1>1, AtStage
<1>3. \A q \in net' : q.stage \in {"look", "work", "keep"} => WithKey(q)
  BY <1>2 DEF StageInv
<1>4. QED
  BY <1>3 DEF StageInv, WithKey

\* A keyed request asks for no page.
LEMMA KeyedNoPage ==
  ASSUME ClientInv, NEW r \in net, WithKey(r)
  PROVE  r.op.how # "pages"
  BY RequestType, Pages DEF WithKey, PagesOp

\* The steps that answer without a page.
LEMMA AnswerPulls ==
  ASSUME Inv, Inv', StageInv, PullInv, NEW r \in net, NEW status, Answer(r, status, NoPage),
         status # "ok" \/ r.op.how # "pages", UNCHANGED <<row, deleted, stirred>>
  PROVE  StageInv' /\ PullInv' /\ PullEnds
<1>1. NoPage \in PageType
  BY PagesType
<1>2. (\A x \in Call : Keeps(call[x], call'[x])) /\ UNCHANGED held
  BY <1>1, AnswerKeeps DEF Inv
<1>3. PullInv' /\ PullEnds
  BY <1>2, PullsQuiet
<1>4. net' = net \ {r}
  BY DEF Answer
<1>5. QED
  BY <1>3, <1>4, AnswerStage

LEMMA AtPulls ==
  ASSUME Inv, Inv', StageInv, PullInv, NEW r \in net, NEW stage \in {"look", "run", "work", "keep"},
         At(r, stage), stage # "run" => WithKey(r), UNCHANGED <<call, held, row, deleted, stirred>>
  PROVE  StageInv' /\ PullInv' /\ PullEnds
<1>1. \A x \in Call : Keeps(call[x], call'[x])
  BY DEF Keeps
<1>2. PullInv' /\ PullEnds
  BY <1>1, PullsQuiet
<1>3. QED
  BY <1>2, AtStageInv DEF Inv

\* What a step stirs.
LEMMA Stirred ==
  ASSUME NEW written, NEW paged, NEW by, Stir(written, paged, by), NEW c \in Call,
         Pulling(call[c])
  PROVE  stirred'[c] = stirred[c] \cup written \cup (IF c = by THEN {} ELSE paged)
  BY DEF Stir, Pulling, Moving, UnderWay

LEMMA RunPulls ==
  ASSUME Inv, Inv', StageInv, PullInv, NEW r \in net, Run(r)
  PROVE  StageInv' /\ PullInv' /\ PullEnds
<1>1. PICK page \in PageType :
        page = IF r.op.route.does = "page" THEN Page(call[r.call].pull) ELSE NoPage
  BY RunPage
<1>2. PICK written :
        written = {d \in Doc : row'[d] # row[d] \/ deleted'[d] # deleted[d]}
  OBVIOUS
<1>3. r \in Sending /\ r.op \in Operation
  BY RequestType DEF Inv
<1>4. CASE Answer(r, "rate limited", NoPage) /\ UNCHANGED <<row, deleted, stirred>>
  BY <1>4, AnswerPulls
<1>9. CASE OneByOne(r) /\ At(r, "work") /\ UNCHANGED <<call, held, row, deleted, stirred>>
  <2>1. WithKey(r)
    BY <1>3, <1>9, StoreKeyed DEF Stores, OneByOne, WithKey
  <2>2. QED
    BY <1>9, <2>1, AtPulls
<1>5. CASE WithKey(r) /\ At(r, "keep") /\ UNCHANGED <<call, held>>
           /\ Stir(written, page.docs \cup page.gone, r.call)
  <2>1. \A x \in Call : Keeps(call[x], call'[x])
    BY <1>5 DEF Keeps
  <2>2. \A c \in Call : Pulling(call[c]) =>
          written \subseteq stirred'[c] /\ stirred[c] \subseteq stirred'[c]
    BY <1>5, Stirred
  <2>3. \A c \in Call : Pulling(call[c]) => \A d \in Doc \ stirred'[c] :
          row'[d] = row[d] /\ deleted'[d] = deleted[d] /\ (d \in held' <=> d \in held)
    BY <1>2, <1>5, <2>2
  <2>4. PullInv' /\ PullEnds
    BY <2>1, <2>2, <2>3, PullsKept
  <2>5. StageInv'
    BY <1>5, AtStageInv DEF Inv
  <2>6. QED
    BY <2>4, <2>5
<1>6. CASE Answer(r, "ok", page) /\ Stir(written, page.docs \cup page.gone, r.call)
           /\ (r.op.route.does = "page" => UNCHANGED <<row, deleted>>)
  <2>1. net' = net \ {r}
    BY <1>6 DEF Answer
  <2>2. StageInv'
    BY <2>1, AnswerStage
  <2>3. CASE r.op.how # "pages"
    <3>1. (\A x \in Call : Keeps(call[x], call'[x])) /\ UNCHANGED held
      BY <1>6, <2>3, AnswerKeeps DEF Inv
    <3>2. \A c \in Call : Pulling(call[c]) =>
            written \subseteq stirred'[c] /\ stirred[c] \subseteq stirred'[c]
      BY <1>6, Stirred
    <3>3. \A c \in Call : Pulling(call[c]) => \A d \in Doc \ stirred'[c] :
            row'[d] = row[d] /\ deleted'[d] = deleted[d] /\ (d \in held' <=> d \in held)
      BY <1>2, <3>1, <3>2
    <3>4. PullInv' /\ PullEnds
      BY <3>1, <3>2, <3>3, PullsKept
    <3>5. QED
      BY <2>2, <3>4
  <2>4. CASE r.op.how = "pages"
    <3>1. PICK c \in Call : c = r.call
      BY RequestType DEF Inv
    <3>2. PICK k : k = call[c]
      OBVIOUS
    <3>3. r.op.route.does = "page" /\ UNCHANGED <<row, deleted>>
      BY <1>3, <1>6, <2>4, Pages DEF PagesOp
    <3>4. page = Page(k.pull) /\ written = {}
      BY <1>1, <1>2, <3>1, <3>2, <3>3
    <3>5. \A x \in Call : Pulling(call[x]) =>
            stirred'[x] = stirred[x] \cup (IF x = c THEN {} ELSE page.docs \cup page.gone)
      BY <1>6, <3>1, <3>4, Stirred
    <3>6. CASE k.pc = "sent" /\ k.sent = [r EXCEPT !.stage = "sent", !.done = {}]
      <4>1. k.op.how = "pages"
        <5>1. CallOK(c, k)
          BY <3>2 DEF Inv, ClientInv, TokenInv
        <5>2. k.sent.op = r.op /\ k.sent # None
          BY <1>3, <3>6, <5>1 DEF CallOK, Sending
        <5>3. QED
          BY <2>4, <5>1, <5>2 DEF CallOK
      <4>2. call' = [call EXCEPT ![c] = Heard(k, "ok", page)] /\ held' = Applied(k.pull, page)
        BY <1>6, <3>1, <3>2, <3>6, <4>1 DEF Answer
      <4>3. Heard(k, "ok", page) = Turned(k, page)
        BY <4>1 DEF Heard, Answered
      <4>4. call' = [call EXCEPT ![c] = Turned(k, page)]
        BY <4>2, <4>3
      <4>5. k.pc = "sent" /\ page = Page(k.pull) /\ held' = Applied(k.pull, page)
            /\ UNCHANGED <<row, deleted>>
        BY <3>3, <3>4, <3>6, <4>2
      <4>6. PullInv' /\ PullEnds
        BY <3>2, <3>5, <4>1, <4>4, <4>5, PageStep
      <4>7. QED
        BY <2>2, <4>6
    <3>7. CASE ~(k.pc = "sent" /\ k.sent = [r EXCEPT !.stage = "sent", !.done = {}])
      <4>1. call' = call /\ held' = held
        BY <1>6, <3>1, <3>2, <3>7 DEF Answer
      <4>2. \A x \in Call : Keeps(call[x], call'[x])
        BY <4>1 DEF Keeps
      <4>3. \A x \in Call : Pulling(call[x]) => stirred[x] \subseteq stirred'[x]
        BY <3>5
      <4>4. PullInv' /\ PullEnds
        BY <3>3, <4>1, <4>2, <4>3, PullsKept
      <4>5. QED
        BY <2>2, <4>4
    <3>8. QED
      BY <3>6, <3>7
  <2>5. QED
    BY <2>3, <2>4
<1>7. row' = [d \in Doc |-> Worked(r, d)] /\ deleted' = [d \in Doc |-> WorkedDeletion(r, d)]
        => (r.op.route.does = "page" => UNCHANGED <<row, deleted>>)
  <2>1. row \in [Doc -> [at : Nat, own : BOOLEAN]] /\ deleted \in [Doc -> Nat]
    BY DEF Inv, StoreInv, RowsOK
  <2>2. r.op.route.does = "page" =>
          \A d \in Doc : Worked(r, d) = row[d] /\ WorkedDeletion(r, d) = deleted[d]
    BY DEF Worked, WorkedDeletion
  <2>3. QED
    BY <2>1, <2>2
<1>8. QED
  <2>1. \/ Answer(r, "rate limited", NoPage) /\ UNCHANGED <<row, deleted, stirred>>
        \/ /\ OneByOne(r) /\ At(r, "work") /\ UNCHANGED client
           /\ UNCHANGED <<row, deleted, stirred>>
        \/ /\ row' = [d \in Doc |-> Worked(r, d)] /\ deleted' = [d \in Doc |-> WorkedDeletion(r, d)]
           /\ Stir(written, page.docs \cup page.gone, r.call)
           /\ \/ WithKey(r) /\ At(r, "keep") /\ UNCHANGED client
              \/ Answer(r, "ok", page)
    BY <1>1, <1>2 DEF Run, store
  <2>2. UNCHANGED client => UNCHANGED <<call, held>>
    BY DEF client
  <2>3. QED
    BY <1>4, <1>5, <1>6, <1>7, <1>9, <2>1, <2>2

LEMMA UpsertPulls ==
  ASSUME Inv, Inv', StageInv, PullInv, NEW r \in net, NEW e \in Doc, UpsertOne(r, e)
  PROVE  StageInv' /\ PullInv' /\ PullEnds
<1>1. UNCHANGED <<call, held, deleted>> /\ Stir({e}, {}, None) /\ r.stage = "work"
      /\ \A d \in Doc : d # e => row'[d] = row[d]
  BY DEF UpsertOne, client, Inv, StoreInv, RowsOK
<1>2. \A x \in Call : Keeps(call[x], call'[x])
  BY <1>1 DEF Keeps
<1>3. \A c \in Call : Pulling(call[c]) => e \in stirred'[c] /\ stirred[c] \subseteq stirred'[c]
  BY <1>1, Stirred
<1>4. \A c \in Call : Pulling(call[c]) => \A d \in Doc \ stirred'[c] :
        row'[d] = row[d] /\ deleted'[d] = deleted[d] /\ (d \in held' <=> d \in held)
  BY <1>1, <1>3
<1>5. PullInv' /\ PullEnds
  BY <1>2, <1>3, <1>4, PullsKept
<1>6. PICK s : WithKey(s) = WithKey(r) /\ net' = (net \ {r}) \cup {s}
  BY UpsertedOK DEF Inv
<1>7. \A q \in net' : q.stage \in {"look", "work", "keep"} => WithKey(q)
  BY <1>1, <1>6 DEF StageInv
<1>8. QED
  BY <1>5, <1>7 DEF StageInv, WithKey

LEMMA NextPulls ==
  ASSUME Inv, Inv', StageInv, PullInv, [Next]_vars
  PROVE  StageInv' /\ PullInv' /\ PullEnds
<1>1. ASSUME UNCHANGED <<net, call, held, row, deleted, stirred>>
      PROVE  StageInv' /\ PullInv' /\ PullEnds
  <2>1. \A x \in Call : Keeps(call[x], call'[x])
    BY <1>1 DEF Keeps
  <2>2. PullInv' /\ PullEnds
    BY <1>1, <2>1, PullsQuiet
  <2>3. QED
    BY <1>1, <2>2 DEF StageInv, WithKey
<1>2. ASSUME Client \/ (Faults /\ ~\E r \in net : Unavailable(r))
      PROVE  StageInv' /\ PullInv' /\ PullEnds
  <2>1. Outer /\ UNCHANGED held
    BY <1>2, OuterSteps DEF Client, Faults, Inv
  <2>2. (\A x \in Call : Keeps(call[x], call'[x])) /\ UNCHANGED stirred
    BY <1>2, OuterKeeps DEF Client, Faults, Inv
  <2>3. PullInv' /\ PullEnds
    BY <2>1, <2>2, PullsQuiet DEF Outer, store
  <2>4. StageInv'
    BY <2>1 DEF Outer, StageInv, WithKey
  <2>5. QED
    BY <2>3, <2>4
<1>3. ASSUME NEW r \in net, Unavailable(r) \/ TurnAway(r)
      PROVE  StageInv' /\ PullInv' /\ PullEnds
  <2>1. UNCHANGED <<row, deleted, stirred>>
        /\ (Answer(r, "unavailable", NoPage) \/ (Turn(r) # "ok" /\ Answer(r, Turn(r), NoPage)))
    BY <1>3 DEF Unavailable, TurnAway, Turn, store
  <2>2. QED
    BY <2>1, AnswerPulls
<1>4. ASSUME NEW r \in net, Admit(r)
      PROVE  StageInv' /\ PullInv' /\ PullEnds
  <2>1. UNCHANGED <<row, deleted, stirred>>
        /\ \/ At(r, IF WithKey(r) THEN "look" ELSE "run") /\ UNCHANGED <<call, held>>
           \/ Answer(r, "rate limited", NoPage)
    BY <1>4 DEF Admit, client, store
  <2>2. CASE At(r, IF WithKey(r) THEN "look" ELSE "run") /\ UNCHANGED <<call, held>>
    <3>1. CASE WithKey(r)
      BY <2>1, <2>2, <3>1, AtPulls
    <3>2. CASE ~WithKey(r)
      BY <2>1, <2>2, <3>2, AtPulls
    <3>3. QED
      BY <3>1, <3>2
  <2>3. QED
    BY <2>1, <2>2, AnswerPulls
<1>5. ASSUME NEW r \in net, LookUp(r)
      PROVE  StageInv' /\ PullInv' /\ PullEnds
  <2>1. UNCHANGED <<row, deleted, stirred>> /\ r.stage = "look"
        /\ \/ At(r, "run") /\ UNCHANGED <<call, held>>
           \/ Answer(r, "ok", NoPage)
    BY <1>5 DEF LookUp, client, store
  <2>2. r.op.how # "pages"
    BY <2>1, KeyedNoPage DEF StageInv, Inv
  <2>3. QED
    BY <2>1, <2>2, AtPulls, AnswerPulls
<1>6. ASSUME NEW r \in net, Run(r)
      PROVE  StageInv' /\ PullInv' /\ PullEnds
  BY <1>6, RunPulls
<1>7. ASSUME NEW r \in net, Keep(r)
      PROVE  StageInv' /\ PullInv' /\ PullEnds
  <2>1. UNCHANGED <<row, deleted, stirred>> /\ r.stage = "keep" /\ Answer(r, "ok", NoPage)
    BY <1>7 DEF Keep, store
  <2>2. r.op.how # "pages"
    BY <2>1, KeyedNoPage DEF StageInv, Inv
  <2>3. QED
    BY <2>1, <2>2, AnswerPulls
<1>8. ASSUME Sweep \/ (\E elapsed \in Elapsed : Tick(elapsed)) \/ UNCHANGED vars
      PROVE  UNCHANGED <<net, call, held, row, deleted, stirred>>
  BY <1>8 DEF Sweep, Tick, vars, client, store
<1>9. ASSUME NEW e \in Doc, OtherWrites(e)
      PROVE  StageInv' /\ PullInv' /\ PullEnds
  <2>1. UNCHANGED <<net, call, held>> /\ Stir({e}, {}, None)
        /\ \A d \in Doc : d # e => row'[d] = row[d] /\ deleted'[d] = deleted[d]
    BY <1>9 DEF OtherWrites, client, Inv, StoreInv, RowsOK
  <2>2. \A x \in Call : Keeps(call[x], call'[x])
    BY <2>1 DEF Keeps
  <2>3. \A c \in Call : Pulling(call[c]) => e \in stirred'[c] /\ stirred[c] \subseteq stirred'[c]
    BY <2>1, Stirred
  <2>4. \A c \in Call : Pulling(call[c]) => \A d \in Doc \ stirred'[c] :
          row'[d] = row[d] /\ deleted'[d] = deleted[d] /\ (d \in held' <=> d \in held)
    BY <2>1, <2>3
  <2>5. PullInv' /\ PullEnds
    BY <2>2, <2>3, <2>4, PullsKept
  <2>6. StageInv'
    BY <2>1 DEF StageInv, WithKey
  <2>7. QED
    BY <2>5, <2>6
<1>10. ASSUME NEW r \in net, NEW e \in Doc, UpsertOne(r, e)
       PROVE  StageInv' /\ PullInv' /\ PullEnds
  BY <1>10, UpsertPulls
<1>11. QED
  BY <1>1, <1>2, <1>3, <1>4, <1>5, <1>6, <1>7, <1>8, <1>9, <1>10 DEF Next, Service

\* A pull that ends well and uncut has brought every live document it should
\* and removed every deleted one, of those nothing touched since it began:
\* store.ts:125 pages the two feeds apart, pull.ts:163 follows both positions.
THEOREM PullIsWholeAlways == Spec => PullIsWhole
<1>1. Init => StageInv /\ PullInv
  <2> SUFFICES ASSUME Init PROVE StageInv /\ PullInv
    OBVIOUS
  <2>1. StageInv
    BY DEF Init, StageInv
  <2>2. \A c \in Call : call[c].pc = "idle"
    BY DEF Init, NoCall
  <2>3. PullInv
    BY <2>2 DEF PullInv, Pulling, Moving
  <2>4. QED
    BY <2>1, <2>3
<1>2. Inv /\ Inv' /\ StageInv /\ PullInv /\ [Next]_vars => StageInv' /\ PullInv' /\ PullEnds
  BY NextPulls
<1>3. PullIsWhole <=> [][PullEnds]_vars
  BY PTL DEF PullIsWhole, PullEnds
<1>4. QED
  BY <1>1, <1>2, <1>3, Always, PTL DEF Spec
=============================================================================
