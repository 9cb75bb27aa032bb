------------------------------ MODULE Requests ------------------------------
(***************************************************************************)
(* A request's way to the service and back: core/src/sync/http-backend.ts  *)
(* and mcp-transport.ts in the processes of one machine, then the front    *)
(* end of packages/service (app.ts, auth.ts, ratelimit.ts, the keys and    *)
(* the feed pages of store.ts).                                            *)
(*                                                                         *)
(* A token carries the account it was minted for, and its number.  The     *)
(* processes share the token file.  A call is one client operation; each   *)
(* of its parts (a batch, a page) is a request with its own key, sent at   *)
(* most twice.  The gateway and the token command are external.  The       *)
(* answer is handled in the step that gives it: a later answer is a later  *)
(* step of the service.  Left out: what is recorded of a failure, keys     *)
(* past their 24 hours, the daily alert, the deleted-rows sweep.           *)
(***************************************************************************)
EXTENDS HttpRoutes, Integers, Sequences, FiniteSets

CONSTANTS Process, ViaMcp,      \* the client processes, and those behind a gateway
          Call, Asked,          \* the calls, and the operations they may be
          User, Account,        \* the signed-in account at the start
          Reader, Refused,      \* read-only principals; inactive or unmapped users
          Doc, Size, Batches,   \* documents, their bytes, the batches a call sends
          Seeded, Kept,         \* the rows and the local copies at the start
          PageLimit, PageBytes, MaxPages,
          Burst, Rate, MaxIdle,
          None,
          Elapsed,    \* how much time may pass at once
          MaxEvents   \* bound: faults, teammates' writes and clock ticks

Class == {"read", "write", "docs", "similar"}

\* ratelimit.ts: a bucket idle for MaxIdle is full again (10 minutes; the
\* slowest class fills in one).
ASSUME RequestsAssumption ==
  /\ Asked \in [Call -> SUBSET Operation] /\ ViaMcp \subseteq Process
  /\ Account \in User /\ Reader \cup Refused \subseteq User
  /\ Doc \subseteq Nat \ {0} /\ IsFiniteSet(Doc) /\ Kept \subseteq Doc
  /\ Seeded \in [Doc -> [row : [at : Nat, own : BOOLEAN], deleted : Nat]]
  /\ Batches \in Seq(SUBSET Doc) /\ Batches # <<>>
  /\ PageLimit \in Nat \ {0} /\ MaxPages \in Nat /\ Elapsed \subseteq Nat
  /\ Burst \in [Class -> Nat] /\ Rate \in [Class -> Nat] /\ MaxIdle \in Nat
  /\ \A class \in Class : Burst[class] <= Rate[class] * MaxIdle

VARIABLES
  proc,     \* each process's tokens, /v1/me cache and MCP session
  file,     \* the shared token file
  tokens,   \* what was minted, for whom, and what is no longer good
  call,     \* the client operations
  opens,    \* MCP sessions being opened
  sessions, \* how many were opened, and which the gateway has forgotten
  net,      \* requests on their way or at the service
  kept,     \* idempotency_keys
  bucket,   \* the rate buckets, None for one that is not there
  row, deleted, \* the documents and the deletions feed
  held,     \* the documents the machine's store holds live
  now, events,
  ran,      \* history: how often the work of a key was done
  torn,     \* history: keys with no record when they were sent again
  ideal,    \* history: the buckets, had none been swept
  stirred   \* history: the documents touched while a pull is under way

vars == <<proc, file, tokens, call, opens, sessions, net, kept, bucket, row,
          deleted, held, now, events, ran, torn, ideal, stirred>>
client == <<proc, file, call, held>>
limits == <<bucket, ideal>>
store == <<row, deleted>>
records == <<kept, ran, torn>>

Token == [n : Nat, user : User]
Key == Call \X (1 .. Len(Batches))
Position == [t : Nat, id : Nat]
Pull == [d : Position, x : Position, seen : SUBSET Doc, page : Nat, cut : BOOLEAN]
Bucket == [tokens : Nat, at : Nat]

\* What a process remembers of /v1/me, its MCP session, and one being opened.
Name == [user : User, gen : Nat, late : BOOLEAN]
Session == [tok : Token, id : Nat]
Opening == [at : Process, tok : Token, by : Call]

\* A request, as it was sent and as far as the service has come with it.
Sending == [call : Call, part : 1 .. Len(Batches), page : Nat, try : 0 .. 1,
            op : Operation, tok : Token, asked : Token \cup {None}, session : Nat,
            stage : {"sent", "look", "run", "work", "keep"}, done : SUBSET Doc,
            copy : BOOLEAN, resent : BOOLEAN]

ASSUME NoneAssumption ==
  None \notin Process \cup User \cup Call \cup Operation \cup Token \cup Bucket
              \cup Name \cup Session \cup Opening \cup Sending

NoRow == [at |-> 0, own |-> FALSE]
Live(d) == row[d] # NoRow

NoPull == [d |-> [t |-> 0, id |-> 0], x |-> [t |-> 0, id |-> 0],
           seen |-> {}, page |-> 0, cut |-> FALSE]
NoCall == [pc |-> "idle", at |-> None, op |-> None, part |-> 1, try |-> 0,
           tok |-> None, gen |-> 0, refused |-> None, reused |-> FALSE,
           resent |-> FALSE, via |-> None, sent |-> None, pull |-> NoPull]

TypeOK ==
  /\ proc \in [Process -> [mem : Token \cup {None}, gen : Nat, who : User \cup {None},
                           minting : BOOLEAN,
                           me : Name \cup {None}, session : Session \cup {None},
                           opening : Opening \cup {None}]]
  /\ file \in Token \cup {None}
  /\ \A c \in Call :
       /\ call[c].pc \in {"idle", "token", "mint", "go", "open", "sent", "done", "failed"}
       /\ call[c].part \in 1 .. Len(Batches) /\ call[c].try \in 0 .. 1
       /\ call[c].pull.d \in Position /\ call[c].pull.x \in Position
       /\ call[c].pull.seen \subseteq Doc /\ call[c].pull.page <= MaxPages
       /\ call[c].pc = "sent" => call[c].sent # None
  /\ kept \subseteq User \X Key /\ torn \subseteq Key /\ ran \in [Key -> Nat]
  /\ \A k \in User \X Class : bucket[k] # None =>
       bucket[k].tokens \in 0 .. Burst[k[2]] /\ bucket[k].at <= now
  /\ row \in [Doc -> [at : Nat, own : BOOLEAN]] /\ deleted \in [Doc -> Nat]
  /\ held \subseteq Doc

Full(class) == [tokens |-> Burst[class], at |-> 0]

Init ==
  /\ proc = [p \in Process |-> [mem |-> None, gen |-> 0, who |-> None,
                                minting |-> FALSE, me |-> None,
                                session |-> None, opening |-> None]]
  /\ file = None
  /\ tokens = [minted |-> 0, account |-> Account, printed |-> {}, lapsed |-> {},
               revoked |-> {}]
  /\ call = [c \in Call |-> NoCall]
  /\ opens = {} /\ net = {}
  /\ sessions = [opened |-> 0, ended |-> {}]
  /\ kept = {} /\ torn = {} /\ ran = [k \in Key |-> 0]
  /\ bucket = [k \in User \X Class |-> None]
  /\ ideal = [k \in User \X Class |-> Full(k[2])]
  /\ row = [d \in Doc |-> Seeded[d].row]
  /\ deleted = [d \in Doc |-> Seeded[d].deleted]
  /\ held = Kept
  /\ now = 2
  /\ events = 0
  /\ stirred = [c \in Call |-> {}]

Event == events < MaxEvents /\ events' = events + 1

-----------------------------------------------------------------------------
(* IdTokenProvider: one token in memory, one in the file, one command run. *)

Usable(t) == t # None /\ t.n \notin tokens.lapsed

Waiting(p) == {c \in Call : call[c].pc = "mint" /\ call[c].at = p}

\* A token read from the file, or minted, is a new generation.
Adopt(p, t) == [proc[p] EXCEPT !.mem = t, !.gen = @ + 1, !.who = t.user]

Granted(k, t, gen) == [k EXCEPT !.pc = "go", !.tok = t, !.gen = gen]

\* A call that is over; what it sent may still arrive once more.
Over(k, pc) ==
  [NoCall EXCEPT !.pc = pc, !.at = k.at, !.op = k.op, !.pull.cut = k.pull.cut,
                 !.sent = IF k.op.idempotent THEN k.sent ELSE None]

\* get(): the token in memory, the file's, or the command run under way.
GetToken(c) ==
  LET k == call[c]  p == k.at IN
  /\ k.pc = "token"
  /\ \/ /\ Usable(proc[p].mem)
        /\ call' = [call EXCEPT ![c] = Granted(k, proc[p].mem, proc[p].gen)]
        /\ UNCHANGED proc
     \/ /\ ~Usable(proc[p].mem) /\ Usable(file)
        /\ proc' = [proc EXCEPT ![p] = Adopt(p, file)]
        /\ call' = [call EXCEPT ![c] = Granted(k, file, proc[p].gen + 1)]
     \/ /\ ~Usable(proc[p].mem) /\ ~Usable(file)
        /\ proc' = [proc EXCEPT ![p].minting = TRUE]
        /\ call' = [call EXCEPT ![c].pc = "mint"]
  /\ UNCHANGED <<file, tokens, opens, sessions, net, records, limits, store, held,
                 now, events, stirred>>

\* What the command may print: a new token of the account signed in, or one of
\* this account it has printed before.
Printable ==
  {[n |-> tokens.minted + 1, user |-> tokens.account]}
    \cup {t \in tokens.printed : t.user = tokens.account}

\* A token that was refused is one to use when the command prints it again.
Forgiven(k, t) == [k EXCEPT !.refused = IF @ = t THEN None ELSE @]

\* fetch() and saveCached: the command prints token t.
MintDone(p, t) ==
  /\ proc[p].minting
  /\ tokens' = [tokens EXCEPT !.minted = IF t.n > @ THEN t.n ELSE @,
                              !.printed = @ \cup {t}]
  /\ proc' = [proc EXCEPT ![p] = [Adopt(p, t) EXCEPT !.minting = FALSE]]
  /\ file' = t
  /\ call' = [c \in Call |->
                LET k == Forgiven(call[c], t) IN
                IF c \in Waiting(p) THEN Granted(k, t, proc[p].gen + 1) ELSE k]
  /\ UNCHANGED <<opens, sessions, net, records, limits, store, held, now, events, stirred>>

\* The command fails, or prints nothing: everyone waiting fails.
MintFails(p) ==
  /\ proc[p].minting /\ Event
  /\ proc' = [proc EXCEPT ![p].minting = FALSE]
  /\ call' = [c \in Call |-> IF c \in Waiting(p)
                             THEN Over(call[c], "failed") ELSE call[c]]
  /\ UNCHANGED <<file, tokens, opens, sessions, net, records, limits, store, held,
                 now, stirred>>

\* Mutant: the shared file keeps the token that was refused.
KeepFile(f) == f

\* invalidate(): the memory's token goes, and the file, whoever wrote it.
ClearFile(f) == None

-----------------------------------------------------------------------------
(* HttpBackend *)

\* Mutant: the cached name outlives the token it was asked with.
CachedForGood(p) == proc[p].me # None

\* me() answers from its cache until a token is minted or adopted.
Cached(p) == proc[p].me # None /\ proc[p].me.gen = proc[p].gen

\* A call begins.
Begin(c, p, op) ==
  /\ call[c].pc = "idle"
  /\ call' = [call EXCEPT ![c] =
       [NoCall EXCEPT !.at = p, !.op = op,
                      !.pc = IF op.how = "me" /\ Cached(p) THEN "done" ELSE "token"]]
  /\ UNCHANGED <<proc, file, tokens, opens, sessions, net, records, limits, store,
                 held, now, events, stirred>>

\* The next request of a call: a key of its own, and its own two attempts.
NextPart(k) == [k EXCEPT !.pc = "token", !.try = 0, !.refused = None, !.resent = FALSE]

\* A 401: at the first attempt the token is dropped and the request sent again.
Rejected(k) ==
  IF k.try = 0
  THEN [k EXCEPT !.pc = "token", !.try = 1, !.refused = k.tok, !.resent = FALSE]
  ELSE Over(k, "failed")

\* pullCollection: on to the next page while there is more and the cursor moves.
Turned(k, page) ==
  LET pl == k.pull
      turned == [pl EXCEPT !.d = page.d, !.x = page.x, !.page = @ + 1,
                           !.seen = @ \cup page.docs]
      on == page.more /\ (page.d # pl.d \/ page.x # pl.x \/ pl.page = 0)
  IN  IF on /\ turned.page < MaxPages
      THEN NextPart([k EXCEPT !.pull = turned])
      ELSE Over([k EXCEPT !.pull.cut = on], "done")

\* An answer with a body.
Answered(k, page) ==
  CASE k.op.how = "pages" -> Turned(k, page)
    [] k.op.how = "chunks" /\ k.part < Len(Batches) ->
         NextPart([k EXCEPT !.part = @ + 1])
    [] OTHER -> Over(k, "done")

\* McpTransport.send: an expired session is opened anew, once, when it was a
\* reused one; else its 404 is the answer.
Expired(k) ==
  IF k.reused /\ ~k.resent THEN [k EXCEPT !.pc = "go", !.resent = TRUE]
  ELSE Over(k, IF k.op.allow404 THEN "done" ELSE "failed")

Heard(k, status, page) ==
  CASE status = "ok" -> Answered(k, page)
    [] status = "unauthenticated" -> Rejected(k)
    [] status = "expired" -> Expired(k)
    [] OTHER -> Over(k, "failed")

\* A gateway's error ends the session that carried the call, if it is still
\* the process's.
WithoutSession(P, k) ==
  IF P.session # None /\ k.sent # None /\ P.session.id = k.sent.session
  THEN [P EXCEPT !.session = None] ELSE P

\* What an answer changes in the process.
Settled(P, k, status) ==
  CASE status = "ok" /\ k.op.how \in {"me", "sign in"} ->
         [P EXCEPT !.me = [user |-> k.sent.tok.user, gen |-> P.gen,
                           late |-> k.gen # P.gen]]
    [] status = "unauthenticated" ->
         [WithoutSession(P, k) EXCEPT !.mem = IF k.try = 0 THEN None ELSE @]
    [] status = "expired" -> WithoutSession(P, k)
    [] OTHER -> P

-----------------------------------------------------------------------------
(* The transports *)

Request(c, tok, session) ==
  [call |-> c, part |-> call[c].part, page |-> call[c].pull.page, try |-> call[c].try,
   op |-> call[c].op, tok |-> tok, asked |-> call[c].tok, session |-> session,
   stage |-> "sent", done |-> {}, copy |-> FALSE, resent |-> call[c].resent]

Sent(k, request, reused) ==
  [k EXCEPT !.pc = "sent", !.sent = request, !.reused = reused, !.via = None]

\* FetchTransport.send.
SendHttp(c) ==
  LET request == Request(c, call[c].tok, 0) IN
  /\ call[c].pc = "go" /\ call[c].at \notin ViaMcp
  /\ net' = net \cup {request}
  /\ call' = [call EXCEPT ![c] = Sent(@, request, FALSE)]
  /\ UNCHANGED <<proc, file, tokens, opens, sessions, records, limits, store, held,
                 now, events, stirred>>

\* connect(): the opening to join is one for this token.
OwnOpening(p, tok) == proc[p].opening # None /\ proc[p].opening.tok = tok

\* McpTransport.send over the session it has.
SendOverSession(c) ==
  LET k == call[c]  session == proc[k.at].session
      request == Request(c, session.tok, session.id)
  IN
  /\ k.pc = "go" /\ k.at \in ViaMcp
  /\ session # None /\ session.tok = k.tok
  /\ net' = net \cup {request}
  /\ call' = [call EXCEPT ![c] = Sent(@, request, TRUE)]
  /\ UNCHANGED <<proc, file, tokens, opens, sessions, records, limits, store, held,
                 now, events, stirred>>

\* connect() without one: a session of another token is ended, and one for
\* this token opened, or waited for.
Connect(c) ==
  LET k == call[c]  p == k.at  session == proc[p].session
      opening == [at |-> p, tok |-> k.tok, by |-> c]
      joins == OwnOpening(p, k.tok)
  IN
  /\ k.pc = "go" /\ p \in ViaMcp
  /\ session # None => session.tok # k.tok
  /\ sessions' = [sessions EXCEPT !.ended =
                    IF session = None THEN @ ELSE @ \cup {session.id}]
  /\ proc' = [proc EXCEPT ![p].session = None,
                          ![p].opening = IF joins THEN @ ELSE opening]
  /\ opens' = IF joins THEN opens ELSE opens \cup {opening}
  /\ call' = [call EXCEPT ![c].pc = "open",
                          ![c].via = IF joins THEN proc[p].opening.by ELSE c]
  /\ UNCHANGED <<file, tokens, net, records, limits, store, held, now, events, stirred>>

\* The calls a session is opened for.
OpenedFor(o) == {c \in Call : call[c].pc = "open" /\ call[c].via = o.by}

NoLongerOpening(o) ==
  [proc[o.at] EXCEPT !.opening = IF @ = o THEN None ELSE @]

\* open(): the session is the process's now, also after a newer token's.
OpenDone(o) ==
  LET id == sessions.opened + 1
      request(c) == Request(c, o.tok, id)
  IN
  /\ o.tok.n \notin tokens.revoked
  /\ sessions' = [sessions EXCEPT !.opened = id]
  /\ opens' = opens \ {o}
  /\ proc' = [proc EXCEPT ![o.at] =
                [NoLongerOpening(o) EXCEPT !.session = [tok |-> o.tok, id |-> id]]]
  /\ net' = net \cup {request(c) : c \in OpenedFor(o)}
  /\ call' = [c \in Call |-> IF c \in OpenedFor(o)
                             THEN Sent(call[c], request(c), FALSE) ELSE call[c]]
  /\ UNCHANGED <<file, tokens, records, limits, store, held, now, events, stirred>>

\* The gateway rejects the token: a 401 to everyone who waits.
OpenRejected(o) ==
  /\ o.tok.n \in tokens.revoked
  /\ opens' = opens \ {o}
  /\ LET retrying == {c \in OpenedFor(o) : call[c].try = 0} IN
     /\ proc' = [proc EXCEPT ![o.at] =
                   [NoLongerOpening(o) EXCEPT !.mem =
                      IF retrying # {} THEN None ELSE proc[o.at].mem]]
     /\ file' = IF retrying # {} THEN ClearFile(file) ELSE file
  /\ call' = [c \in Call |-> IF c \in OpenedFor(o) THEN Rejected(call[c]) ELSE call[c]]
  /\ UNCHANGED <<tokens, sessions, net, records, limits, store, held, now, events, stirred>>

\* It cannot be reached, or has no sync tool.
OpenFails(o) ==
  /\ Event
  /\ opens' = opens \ {o}
  /\ proc' = [proc EXCEPT ![o.at] = NoLongerOpening(o)]
  /\ call' = [c \in Call |-> IF c \in OpenedFor(o)
                             THEN Over(call[c], "failed") ELSE call[c]]
  /\ UNCHANGED <<file, tokens, sessions, net, records, limits, store, held, now, stirred>>

-----------------------------------------------------------------------------
(* The service: ratelimit.ts *)

\* Mutant: every bucket not used this very instant is dropped.
SweptEarly(k) == bucket[k] # None /\ now - bucket[k].at > 0

\* sweep(): the buckets to drop.
Swept(k) == bucket[k] # None /\ now - bucket[k].at > MaxIdle

Lesser(a, b) == IF a <= b THEN a ELSE b

\* What bucket b of a class has refilled to.
Level(b, class) ==
  IF b = None THEN Burst[class]
  ELSE Lesser(Burst[class], b.tokens + (now - b.at) * Rate[class])

\* An oversized batch drains the bucket instead of never fitting.
Cost(class, n) == Lesser(n, Burst[class])

Allows(user, class, n) == Level(bucket[<<user, class>>], class) >= Cost(class, n)

Drawn(b, class, n) ==
  [tokens |-> Level(b, class) - (IF Level(b, class) >= Cost(class, n)
                                 THEN Cost(class, n) ELSE 0),
   at |-> now]

\* take(): refills, and draws when there is enough.
Take(user, class, n) ==
  /\ bucket' = [bucket EXCEPT ![<<user, class>>] = Drawn(@, class, n)]
  /\ ideal' = [ideal EXCEPT ![<<user, class>>] = Drawn(@, class, n)]

Sweep ==
  /\ \E k \in User \X Class : Swept(k)
  /\ bucket' = [k \in User \X Class |-> IF Swept(k) THEN None ELSE bucket[k]]
  /\ UNCHANGED <<client, tokens, opens, sessions, net, records, store, now, events,
                 ideal, stirred>>

-----------------------------------------------------------------------------
(* The service: a page of the two feeds of a collection *)

\* posClause: past a time, or past an entry of that very time.
After(at, d, pos) == at > pos.t \/ (at = pos.t /\ pos.id # 0 /\ d > pos.id)

\* The order of a feed: by time and then by id.
Before(d, e, at) == at[d] < at[e] \/ (at[d] = at[e] /\ d < e)

First(n, feed, at) ==
  {d \in feed : Cardinality({e \in feed : Before(e, d, at)}) < n}

Last(feed, at, pos) ==
  IF feed = {} THEN pos
  ELSE LET d == CHOOSE e \in feed : \A f \in feed \ {e} : Before(f, e, at)
       IN  [t |-> at[d], id |-> d]

Bytes(feed) ==
  LET sum[S \in SUBSET feed] ==
        IF S = {} THEN 0
        ELSE LET d == CHOOSE e \in S : TRUE IN Size[d] + sum[S \ {d}]
  IN  sum[feed]

\* rowsWithinBudget: the first row whatever its size, and the next ones up to
\* the first that is too much.
Fits(d, feed, at) ==
  LET upTo == {d} \cup {e \in feed : Before(e, d, at)}
  IN  upTo = {d} \/ Bytes(upTo) <= PageBytes

WithinBytes(feed, at) ==
  {d \in feed : Fits(d, feed, at) /\ \A e \in feed : Before(e, d, at) => Fits(e, feed, at)}

\* Mutant: a page cut short by its bytes is taken for the last one.
MoreByCount(docs, found, dels) ==
  Cardinality(found) > PageLimit \/ Cardinality(dels) > PageLimit

\* has_more: of what was fetched, at most one more than the limit.
More(docs, found, dels) ==
  Cardinality(docs) < Cardinality(found) \/ Cardinality(dels) > PageLimit

\* store.pull: the rows this device did not write last, and the deletions.
Page(pl) ==
  LET at == [d \in Doc |-> row[d].at]
      found == First(PageLimit + 1,
                     {d \in Doc : Live(d) /\ ~row[d].own /\ After(at[d], d, pl.d)}, at)
      docs == WithinBytes(First(PageLimit, found, at), at)
      dels == First(PageLimit + 1,
                    {d \in Doc : deleted[d] # 0 /\ After(deleted[d], d, pl.x)}, deleted)
      gone == First(PageLimit, dels, deleted)
  IN  [docs |-> docs, gone |-> gone, more |-> More(docs, found, dels),
       d |-> Last(docs, at, pl.d), x |-> Last(gone, deleted, pl.x)]

NoPage == [docs |-> {}, gone |-> {}, more |-> FALSE, d |-> NoPull.d, x |-> NoPull.x]

\* pullCollection with a page: deletions first, but of nothing this pull has
\* seen live; then the rows.
Applied(pl, page) == (held \ (page.gone \ (pl.seen \cup page.docs))) \cup page.docs

-----------------------------------------------------------------------------
(* The service: requests *)

\* The answer, if its call still waits for it.
Answer(r, status, page) ==
  LET c == r.call  k == call[c]  p == k.at
      waits == k.pc = "sent" /\ k.sent = [r EXCEPT !.stage = "sent", !.done = {}]
      takesPage == waits /\ status = "ok" /\ k.op.how = "pages"
  IN
  /\ net' = net \ {r}
  /\ call' = IF waits THEN [call EXCEPT ![c] = Heard(k, status, page)] ELSE call
  /\ proc' = IF waits THEN [proc EXCEPT ![p] = Settled(@, k, status)] ELSE proc
  /\ file' = IF waits /\ status = "unauthenticated" /\ k.try = 0
             THEN ClearFile(file) ELSE file
  /\ held' = IF takesPage THEN Applied(k.pull, page) ELSE held

\* The documents a request is about, and what its work costs.
Of(r) == IF r.op.how = "chunks" THEN Batches[r.part] ELSE {}

TheKey(r) == <<r.call, r.part>>
WithKey(r) == r.op.idempotent /\ r.op.route.keyed

\* What the gateway and the middleware answer before any route is entered.
Turn(r) ==
  CASE r.session \in sessions.ended -> "expired"
    [] r.tok.n \in tokens.revoked -> "unauthenticated"
    [] r.tok.user \in Refused -> "forbidden"
    [] r.tok.user \in Reader /\ ~r.op.route.get -> "read only"
    [] OTHER -> "admitted"

At(r, stage) == net' = (net \ {r}) \cup {[r EXCEPT !.stage = stage]}

TurnAway(r) ==
  /\ r.stage = "sent" /\ Turn(r) # "admitted"
  /\ Answer(r, Turn(r), NoPage)
  /\ UNCHANGED <<tokens, opens, sessions, records, limits, store, now, events, stirred>>

\* Authenticated: the rate limit, and then the route.
Admit(r) ==
  /\ r.stage = "sent" /\ Turn(r) = "admitted"
  /\ Take(r.tok.user, r.op.route.class, 1)
  /\ IF Allows(r.tok.user, r.op.route.class, 1)
     THEN /\ At(r, IF WithKey(r) THEN "look" ELSE "run")
          /\ UNCHANGED client
     ELSE Answer(r, "rate limited", NoPage)
  /\ UNCHANGED <<tokens, opens, sessions, records, store, now, events, stirred>>

\* Mutant: no record is ever found.
FoundNever(r) == FALSE

\* getIdempotent: the answer kept for this user's key.
Found(r) == <<r.tok.user, TheKey(r)>> \in kept

\* Another copy of this request is between its look-up and its record.
Overlaps(r) ==
  \E q \in net \ {r} :
    q.stage \in {"run", "work", "keep"} /\ WithKey(q) /\ TheKey(q) = TheKey(r)

\* An answer is kept for the account that asked: a copy of this request came
\* under another one, before the process signed in anew.
OfAnother(r) == \E user \in User \ {r.tok.user} : <<user, TheKey(r)>> \in kept

\* idempotent(): an answer that was kept is given again.
LookUp(r) ==
  /\ r.stage = "look"
  /\ IF Found(r) THEN /\ Answer(r, "ok", NoPage) /\ UNCHANGED torn
     ELSE /\ At(r, "run")
          /\ torn' = IF Overlaps(r) \/ OfAnother(r) THEN torn \cup {TheKey(r)} ELSE torn
          /\ UNCHANGED client
  /\ UNCHANGED <<tokens, opens, sessions, kept, ran, limits, store, now, events, stirred>>

\* The rows after the work of a request.
Worked(r, d) ==
  CASE d \notin Of(r) -> row[d]
    [] r.op.route.does = "store" -> [at |-> now, own |-> TRUE]
    [] r.op.route.does = "restore" /\ ~Live(d) /\ deleted[d] # 0 ->
         [at |-> now, own |-> FALSE]
    [] r.op.route.does = "link" /\ Live(d) -> [row[d] EXCEPT !.at = now]
    [] r.op.route.does \in {"remove", "purge"} -> NoRow
    [] OTHER -> row[d]

WorkedDeletion(r, d) ==
  IF d \in Of(r) /\ \/ r.op.route.does = "remove" /\ Live(d)
                    \/ r.op.route.does = "purge" /\ (Live(d) \/ deleted[d] # 0)
  THEN now ELSE deleted[d]

UnderWay(c) == call[c].pc \in {"token", "mint", "go", "open", "sent"}

\* What was written, and what the page of another pull brings.
Stir(written, paged, by) ==
  stirred' = [c \in Call |->
                IF ~(UnderWay(c) /\ call[c].op.how = "pages") THEN stirred[c]
                ELSE stirred[c] \cup written \cup (IF c = by THEN {} ELSE paged)]

\* upsertItems: each document of a batch in a transaction of its own.
OneByOne(r) == r.op.route.does = "store" /\ Of(r) # {}

\* The route's work, once the documents' limit allows it; a keyed one still
\* has its answer to keep.
Run(r) ==
  LET user == r.tok.user
      allowed == r.op.route.docs => Allows(user, "docs", Cardinality(Of(r)))
      page == IF r.op.route.does = "page" THEN Page(call[r.call].pull) ELSE NoPage
  IN
  /\ r.stage = "run"
  /\ IF r.op.route.docs THEN Take(user, "docs", Cardinality(Of(r)))
                        ELSE UNCHANGED limits
  /\ IF ~allowed
     THEN /\ Answer(r, "rate limited", NoPage)
          /\ UNCHANGED <<store, stirred, ran>>
     ELSE IF OneByOne(r)
     THEN At(r, "work") /\ UNCHANGED <<client, store, stirred, ran>>
     ELSE /\ row' = [d \in Doc |-> Worked(r, d)]
          /\ deleted' = [d \in Doc |-> WorkedDeletion(r, d)]
          /\ Stir({d \in Doc : row'[d] # row[d] \/ deleted'[d] # deleted[d]},
                  page.docs \cup page.gone, r.call)
          /\ IF WithKey(r) THEN /\ At(r, "keep") /\ UNCHANGED client
                                /\ ran' = [ran EXCEPT ![TheKey(r)] = @ + 1]
             ELSE Answer(r, "ok", page) /\ UNCHANGED ran
  /\ UNCHANGED <<tokens, opens, sessions, kept, torn, now, events>>

\* upsertOne: one more document of a batch; its first is work done under the
\* key, its last leaves the answer to keep.
UpsertOne(r, d) ==
  /\ r.stage = "work" /\ d \in Of(r) \ r.done
  /\ row' = [row EXCEPT ![d] = Worked(r, d)]
  /\ Stir({d}, {}, None)
  /\ ran' = IF WithKey(r) /\ r.done = {} THEN [ran EXCEPT ![TheKey(r)] = @ + 1] ELSE ran
  /\ net' = (net \ {r}) \cup
              {[r EXCEPT !.stage = IF Of(r) \ r.done = {d} THEN "keep" ELSE "work",
                         !.done = @ \cup {d}]}
  /\ UNCHANGED <<client, tokens, opens, sessions, kept, torn, limits, deleted, now, events>>

\* putIdempotent, and the answer.
Keep(r) ==
  /\ r.stage = "keep"
  /\ kept' = kept \cup {<<r.tok.user, TheKey(r)>>}
  /\ Answer(r, "ok", NoPage)
  /\ UNCHANGED <<tokens, opens, sessions, ran, torn, limits, store, now, events, stirred>>

\* Documents of the request have been written.
Begun(r) == r.stage = "keep" \/ (r.stage = "work" /\ r.done # {})

\* The database is unavailable: a 503, also after the work or a part of it.
Unavailable(r) ==
  /\ Event
  /\ torn' = IF Begun(r) THEN torn \cup {TheKey(r)} ELSE torn
  /\ Answer(r, "unavailable", NoPage)
  /\ UNCHANGED <<tokens, opens, sessions, kept, ran, limits, store, now, stirred>>

-----------------------------------------------------------------------------
(* Around them *)

\* The time-out; the request goes on.
TimeOut(c) ==
  /\ call[c].pc = "sent" /\ Event
  /\ call' = [call EXCEPT ![c] = Over(@, "failed")]
  /\ proc' = [proc EXCEPT ![call[c].at] = WithoutSession(@, call[c])]
  /\ UNCHANGED <<file, tokens, opens, sessions, net, records, limits, store, held,
                 now, stirred>>

\* Something on the way delivers a request again.
Duplicate(c) ==
  /\ call[c].sent # None /\ call[c].op.idempotent /\ Event
  /\ net' = net \cup {[call[c].sent EXCEPT !.copy = TRUE]}
  /\ UNCHANGED <<client, tokens, opens, sessions, records, limits, store, now, stirred>>

\* The gateway forgets a session.
SessionEnds(id) ==
  /\ id \in (1 .. sessions.opened) \ sessions.ended /\ Event
  /\ sessions' = [sessions EXCEPT !.ended = @ \cup {id}]
  /\ UNCHANGED <<client, tokens, opens, net, records, limits, store, now, stirred>>

\* A token is refused from now on, or only past the margin a client keeps.
TokenEnds ==
  /\ tokens.minted > 0 /\ Event
  /\ \/ tokens' = [tokens EXCEPT !.revoked = @ \cup {tokens.minted}]
     \/ tokens' = [tokens EXCEPT !.lapsed = @ \cup {tokens.minted}]
  /\ UNCHANGED <<client, opens, sessions, net, records, limits, store, now, stirred>>

\* Somebody signs in to another account.
SwitchAccount(user) ==
  /\ user # tokens.account /\ Event
  /\ tokens' = [tokens EXCEPT !.account = user]
  /\ UNCHANGED <<client, opens, sessions, net, records, limits, store, now, stirred>>

\* close(): the backend is dropped; the next call finds nothing cached.
Close(p) ==
  LET session == proc[p].session IN
  /\ Event
  /\ proc' = [proc EXCEPT ![p].mem = None, ![p].me = None,
                          ![p].session = None, ![p].opening = None]
  /\ file' = ClearFile(file)
  /\ sessions' = [sessions EXCEPT !.ended =
                    IF session = None THEN @ ELSE @ \cup {session.id}]
  /\ UNCHANGED <<tokens, call, opens, net, records, limits, store, held, now, stirred>>

\* A teammate's device stores or deletes a document.
OtherWrites(d) ==
  /\ Event
  /\ \/ /\ row' = [row EXCEPT ![d] = [at |-> now, own |-> FALSE]]
        /\ UNCHANGED deleted
     \/ /\ Live(d)
        /\ row' = [row EXCEPT ![d] = NoRow]
        /\ deleted' = [deleted EXCEPT ![d] = now]
  /\ Stir({d}, {}, None)
  /\ UNCHANGED <<client, tokens, opens, sessions, net, records, limits, now>>

Tick(elapsed) ==
  /\ Event
  /\ now' = now + elapsed
  /\ UNCHANGED <<client, tokens, opens, sessions, net, records, limits, store, stirred>>

Client ==
  \/ \E c \in Call, p \in Process : \E op \in Asked[c] : Begin(c, p, op)
  \/ \E c \in Call : GetToken(c) \/ SendHttp(c) \/ SendOverSession(c) \/ Connect(c)
  \/ \E p \in Process : \E t \in Printable : MintDone(p, t)
  \/ \E o \in opens : OpenDone(o) \/ OpenRejected(o)
Service ==
  \/ \E r \in net : TurnAway(r) \/ Admit(r) \/ LookUp(r) \/ Run(r) \/ Keep(r)
                  \/ \E d \in Doc : UpsertOne(r, d)
  \/ Sweep
Faults ==
  \/ \E p \in Process : MintFails(p) \/ Close(p)
  \/ \E o \in opens : OpenFails(o)
  \/ \E r \in net : Unavailable(r)
  \/ \E c \in Call : TimeOut(c) \/ Duplicate(c)
  \/ \E id \in 1 .. sessions.opened : SessionEnds(id)
  \/ \E user \in User : SwitchAccount(user)
  \/ TokenEnds
Next == Client \/ Service \/ Faults \/ (\E d \in Doc : OtherWrites(d))
        \/ (\E elapsed \in Elapsed : Tick(elapsed))

Spec == Init /\ [][Next]_vars

-----------------------------------------------------------------------------
(* Properties *)

\* The work of a request with a key is done once (app.ts:472, "makes a retried
\* request return the same value"), however often the request arrives, and no
\* document of a batch is written again; unless the copies overlapped, came
\* under two accounts, or the service failed between a first document and the
\* record of the answer.
RanOnce == \A k \in Key \ torn : ran[k] <= 1

\* A request is never sent again with the token that was just refused, whoever
\* else writes the token file (http-backend.ts:141), unless the command has
\* printed that very token again.
RetriedWithAnother ==
  \A c \in Call : call[c].pc \in {"go", "open", "sent"} /\ call[c].refused # None
                    => call[c].tok # call[c].refused

\* The name me() answers from its cache is that of the account whose token the
\* process uses (http-backend.ts:417); unless the token changed while /v1/me
\* was being asked.
MeIsSignedIn ==
  \A p \in Process :
    Cached(p) /\ ~proc[p].me.late => proc[p].me.user = proc[p].who

\* Whichever sessions are opened, ended and replaced meanwhile, a request is
\* carried under the token it was given (mcp-transport.ts:155).
OwnToken == \A r \in net : r.tok = r.asked

\* The state is well formed, and every request bears a token of its own that
\* may still be good.
Consistent == TypeOK /\ RetriedWithAnother /\ OwnToken

\* Dropping idle buckets never gives anyone a token (ratelimit.ts:37).
SweepUnseen ==
  \A k \in User \X Class : Level(bucket[k], k[2]) = Level(ideal[k], k[2])

\* A document nothing has touched since the pull began.
Whole(c) ==
  \A d \in Doc \ stirred[c] :
    /\ Live(d) /\ ~row[d].own => d \in held
    /\ ~Live(d) /\ deleted[d] # 0 => d \notin held

\* A pull that ends well has brought every document it should, and removed
\* every deleted one, over however many pages and in whatever order the two
\* feeds bring them; unless it gave up at MAX_PULL_PAGES (pull.ts:163).
PullIsWhole ==
  [][\A c \in Call :
       call[c].pc = "sent" /\ call'[c].pc = "done" /\ call[c].op.how = "pages"
       /\ ~call'[c].pull.cut => Whole(c)']_vars
=============================================================================
