------------------------------ MODULE Request ------------------------------
(***************************************************************************)
(* A request in gin's chain of handlers, as setupRouter and its users put  *)
(* it together from the middlewares of pkg/web. A handler runs its first   *)
(* part on the way down and, if it called c.Next, the rest on the way up;  *)
(* one that aborts sends the request back up; a panic climbs until a       *)
(* handler recovers. Requests share the counters of Metrics and the token  *)
(* buckets of the rate limiter.                                            *)
(***************************************************************************)
EXTENDS Integers, Sequences, FiniteSets

CONSTANTS
  Requests,
  Chain,       \* Chain[x]: the handlers of route x, in the order of Use
  Ignored,     \* <<h, x>>: an ignore function of h lets the requests of x pass
  Calls,       \* Calls[r]: the routes r may ask for, with what it brings
  Client,      \* Client[r]: who the limiter takes the sender for
  Burst,       \* b of the limiters; no token comes back in the time modelled
  Lifetime,    \* ttl of a client's limiter
  MaxTicks,    \* bound on the clock
  Secret, OtherSecret, NoToken,
  MaxLevel     \* the level AuthLevel asks for

Routes == DOMAIN Chain
Handlers == {"recovery", "recover", "metrics", "logger", "body", "length", "auth",
             "level", "etag", "limit", "rate", "custom", "wrap", "noroute", "stats"}
Last == {"wrap", "noroute", "stats"}
Clients == {Client[r] : r \in Requests}

\* What NewToken signs, here or with another secret; level 0: none is set.
Claims == [secret : {Secret, OtherSecret}, fresh : BOOLEAN, level : Nat]

(* A long form is longer than what LoggerWithBody logs, a large one than   *)
(* what it reads; a cut body broke off on the way; a chunked one has no    *)
(* length; a bad one is malformed or has no content type.                  *)
Brings == [token : Claims \cup {NoToken},
           body : {"none", "form", "longform", "cutform", "bad", "chunked", "large"},
           match : BOOLEAN, debug : BOOLEAN]

ASSUME RequestAssumption ==
  /\ IsFiniteSet(Requests)
  /\ \A r \in Requests : Calls[r] \subseteq Routes \X Brings
  /\ Burst \in Nat /\ MaxLevel \in Nat
  /\ Lifetime \in Nat \ {0} /\ MaxTicks \in Nat

(* A chain ends in the route's own handler, which calls no other. Metrics  *)
(* and EtagHandler are used once, and a recovery stands before the latter. *)
ASSUME ChainAssumption ==
  \A x \in Routes :
    /\ Chain[x] \in Seq(Handlers) /\ Chain[x] # <<>>
    /\ \A i \in 1..Len(Chain[x]) : Chain[x][i] \in Last <=> i = Len(Chain[x])
    /\ \A i, j \in 1..Len(Chain[x]) :
         /\ Chain[x][i] = Chain[x][j] /\ Chain[x][i] \in {"metrics", "etag"} => i = j
         /\ Chain[x][i] = "etag" /\ i < j => Chain[x][j] \notin {"recovery", "recover"}

VARIABLES
  ctx,       \* ctx[r]: r's gin.Context and writer
  stats,     \* the expvar counters
  limiter,   \* the limiter's TTLMap: limiter[k] is the bucket of k, or 0,
  deadline,  \*   and deadline[k] the deadline, or 0
  sweeping,  \* sweeping[k]: what the sweep is about to delete of k
  buckets,   \* tokens left in the buckets made so far
  time,
  found      \* history: how often the deadline of k was found to have passed

limitvars == <<limiter, deadline, sweeping, buckets, time, found>>
reqvars == <<ctx, stats, limitvars>>

Blank == [at |-> "idle", pos |-> 1, step |-> 0, route |-> "", in |-> <<>>, status |-> 200,
          flushed |-> FALSE, buffered |-> FALSE, held |-> <<>>, sent |-> <<>>,
          traced |-> FALSE, rest |-> "", got |-> "", ran |-> FALSE, level |-> 0,
          due |-> 0, bucket |-> 0, took |-> {}, panicked |-> FALSE, leaked |-> FALSE,
          seen |-> <<0, 0>>]

RequestInit ==
  /\ ctx = [r \in Requests |-> Blank]
  /\ stats = [requests |-> 0, gauge |-> 0, responses |-> 0]
  /\ limiter = [k \in Clients |-> 0] /\ deadline = [k \in Clients |-> 0]
  /\ sweeping = [k \in Clients |-> "none"]
  /\ buckets = <<Burst>>     \* the one RateLimiter was made with
  /\ time = 0 /\ found = [k \in Clients |-> 0]

Handler(r) == Chain[ctx[r].route][ctx[r].pos]
At(r, way, h) == ctx[r].at = way /\ ctx[r].pos > 0 /\ Handler(r) = h
Down(r, h) == At(r, "down", h)
Put(r, c) == ctx' = [ctx EXCEPT ![r] = c]
Only(r, c) == Put(r, c) /\ UNCHANGED <<stats, limitvars>>

\* c.Next(); the return of a handler after c.Abort(), or at its end.
Proceed(c) == [c EXCEPT !.pos = @ + 1, !.step = 0]
Back(c) == [c EXCEPT !.at = "up", !.pos = @ - 1, !.step = 0]

\* The writer: a status is lost once the header is out, a body goes to the
\* buffer of the EtagWriter if there is one.
Status(c, code) == [c EXCEPT !.status = IF c.flushed THEN @ ELSE code]
Write(c, body) ==
  IF c.buffered THEN [c EXCEPT !.held = Append(@, body)]
                ELSE [c EXCEPT !.sent = Append(@, body), !.flushed = TRUE]
Json(c, code, body) == Write(Status(c, code), body)

\* An error is the HTTP status its reason carries, 0 if it has no reason.
Fail(c, err) == Json(c, IF err = 0 THEN 400 ELSE err, "error")
AbortWithStatusJSON(c, err) == Back(Json(c, err, "error"))

Arrive(r) ==
  /\ ctx[r].at = "idle"
  /\ \E call \in Calls[r] :
       Only(r, [Blank EXCEPT !.at = "down", !.route = call[1], !.in = call[2],
                             !.rest = call[2].body])

-----------------------------------------------------------------------------
(* On the way down.                                                        *)

\* CustomRecovery and Recover only defer.
Defer(r) == (Down(r, "recovery") \/ Down(r, "recover")) /\ Only(r, Proceed(ctx[r]))

Count(counter, n) == stats' = [stats EXCEPT ![counter] = @ + n]

\* Mutant: the gauge goes up before the request is counted.
CountGaugeFirst(r) ==
  /\ Down(r, "metrics")
  /\ \/ ctx[r].step = 0 /\ Count("gauge", 1) /\ Put(r, [ctx[r] EXCEPT !.step = 1])
     \/ ctx[r].step = 1 /\ Count("requests", 1) /\ Put(r, Proceed(ctx[r]))
  /\ UNCHANGED limitvars

CountIn(r) ==
  /\ Down(r, "metrics")
  /\ \/ ctx[r].step = 0 /\ Count("requests", 1) /\ Put(r, [ctx[r] EXCEPT !.step = 1])
     \/ ctx[r].step = 1 /\ Count("gauge", 1) /\ Put(r, Proceed(ctx[r]))
  /\ UNCHANGED limitvars

Logger(r) == Down(r, "logger") /\ Only(r, Proceed([ctx[r] EXCEPT !.traced = TRUE]))

\* Mutant: the handlers get back what was logged instead of what was read.
RestLogged(body) == IF body \in {"longform", "cutform"} THEN "cut" ELSE body

\* What is left to read once the body has been read and put back: of a body
\* that broke off the part that came, without the error.
RestRead(body) == IF body = "cutform" THEN "cut" ELSE body

LoggerWithBody(r) ==
  /\ Down(r, "body")
  /\ Only(r, Proceed(IF ctx[r].in.debug /\ ctx[r].rest # "large"
                     THEN [ctx[r] EXCEPT !.rest = RestRead(@)] ELSE ctx[r]))

\* An ignore function, by prefix, path or method, lets the request pass.
Ignores(r) == <<Handler(r), ctx[r].route>> \in Ignored

LimitContentLength(r) ==
  /\ Down(r, "length")
  /\ Only(r, IF ctx[r].in.body = "large" /\ ~Ignores(r)
             THEN AbortWithStatusJSON(ctx[r], 400) ELSE Proceed(ctx[r]))

ParseToken(t) == t # NoToken /\ t.secret = Secret

AuthMiddleware(r) ==
  LET t == ctx[r].in.token IN
  /\ Down(r, "auth")
  /\ \/ Ignores(r) /\ Only(r, Proceed(ctx[r]))
     \/ /\ ~Ignores(r) /\ ParseToken(t) /\ t.fresh
        /\ Only(r, Proceed([ctx[r] EXCEPT !.level = t.level]))
     \/ /\ ~Ignores(r) /\ ~(ParseToken(t) /\ t.fresh)
        /\ Only(r, AbortWithStatusJSON(ctx[r], 401))

Allowed(r) == Ignores(r) \/ ctx[r].level \in 1..MaxLevel

\* Mutant: the answer is given and the chain goes on.
LevelGoesOn(r) ==
  /\ Down(r, "level")
  /\ Only(r, Proceed(IF Allowed(r) THEN ctx[r] ELSE Fail(ctx[r], 400)))

AuthLevel(r) ==
  /\ Down(r, "level")
  /\ Only(r, IF Allowed(r) THEN Proceed(ctx[r]) ELSE Back(Fail(ctx[r], 400)))

EtagIn(r) == Down(r, "etag") /\ Only(r, Proceed([ctx[r] EXCEPT !.buffered = TRUE]))

\* The limiter of a client: looked up, made if there is none, asked. Load
\* reads the deadline and, if it has passed, deletes value and deadline by key;
\* other requests and the sweep may come between any two of these.
Limiting(r, n) == Down(r, "limit") /\ ctx[r].step = n

LimitLoad(r) ==
  /\ Limiting(r, 0)
  /\ Only(r, [ctx[r] EXCEPT !.due = deadline[Client[r]],
                            !.step = IF deadline[Client[r]] = 0 THEN 5 ELSE 1])

Find(k) ==
  /\ found' = [found EXCEPT ![k] = @ + 1]
  /\ UNCHANGED <<stats, limiter, deadline, buckets, time>>

LimitJudge(r) ==
  /\ Limiting(r, 1)
  /\ \/ /\ time > ctx[r].due /\ Find(Client[r])
        /\ Put(r, [ctx[r] EXCEPT !.due = 0, !.step = 2]) /\ UNCHANGED sweeping
     \/ time <= ctx[r].due /\ Only(r, [ctx[r] EXCEPT !.due = 0, !.step = 4])

DelData(k) ==
  /\ limiter' = [limiter EXCEPT ![k] = 0]
  /\ UNCHANGED <<stats, deadline, buckets, time, found>>

DelExp(k) ==
  /\ deadline' = [deadline EXCEPT ![k] = 0]
  /\ UNCHANGED <<stats, limiter, buckets, time, found>>

LimitDelete(r) ==
  \/ /\ Limiting(r, 2) /\ DelData(Client[r])
     /\ Put(r, [ctx[r] EXCEPT !.step = 3]) /\ UNCHANGED sweeping
  \/ /\ Limiting(r, 3) /\ DelExp(Client[r])
     /\ Put(r, [ctx[r] EXCEPT !.step = 5]) /\ UNCHANGED sweeping

LimitRead(r) ==
  /\ Limiting(r, 4)
  /\ Only(r, [ctx[r] EXCEPT !.bucket = limiter[Client[r]],
                            !.step = IF limiter[Client[r]] = 0 THEN 5 ELSE 7])

\* LoadOrStore: the new deadline first, then the bucket, unless one is there.
LimitRenew(r) ==
  /\ Limiting(r, 5)
  /\ deadline' = [deadline EXCEPT ![Client[r]] = time + Lifetime]
  /\ Put(r, [ctx[r] EXCEPT !.step = 6])
  /\ UNCHANGED <<stats, limiter, sweeping, buckets, time, found>>

NewBucket(r) ==
  /\ buckets' = Append(buckets, Burst)
  /\ limiter' = [limiter EXCEPT ![Client[r]] = Len(buckets) + 1]
  /\ Put(r, [ctx[r] EXCEPT !.bucket = Len(buckets) + 1, !.step = 7])
  /\ UNCHANGED <<stats, deadline, sweeping, time, found>>

\* Mutant: Store instead of LoadOrStore.
LimitStores(r) == Limiting(r, 6) /\ NewBucket(r)

LimitStore(r) ==
  /\ Limiting(r, 6)
  /\ \/ limiter[Client[r]] = 0 /\ NewBucket(r)
     \/ /\ limiter[Client[r]] # 0
        /\ Only(r, [ctx[r] EXCEPT !.bucket = limiter[Client[r]], !.step = 7])

\* The tokens of a bucket are numbered; history: who took which, and where.
\* A request that is ignored although the bucket is empty passes as well.
Allow(r, b) ==
  \/ /\ buckets[b] > 0
     /\ buckets' = [buckets EXCEPT ![b] = @ - 1]
     /\ Put(r, Proceed([ctx[r] EXCEPT !.took = @ \cup {<<Handler(r), b, buckets[b]>>}]))
     /\ UNCHANGED <<stats, limiter, deadline, sweeping, time, found>>
  \/ /\ buckets[b] = 0
     /\ Only(r, IF Ignores(r) THEN Proceed(ctx[r]) ELSE AbortWithStatusJSON(ctx[r], 429))

LimitAllow(r) == Limiting(r, 7) /\ Allow(r, ctx[r].bucket)

RateLimiter(r) == Down(r, "rate") /\ Allow(r, 1)

\* The sweep of the TTLMap takes one key after the other.
SweepFinds(k) ==
  /\ \A j \in Clients : sweeping[j] = "none"
  /\ deadline[k] # 0 /\ time > deadline[k] /\ Find(k)
  /\ sweeping' = [sweeping EXCEPT ![k] = "data"] /\ UNCHANGED ctx

SweepDeletes(k) ==
  \/ /\ sweeping[k] = "data" /\ DelData(k)
     /\ sweeping' = [sweeping EXCEPT ![k] = "exp"] /\ UNCHANGED ctx
  \/ /\ sweeping[k] = "exp" /\ DelExp(k)
     /\ sweeping' = [sweeping EXCEPT ![k] = "none"] /\ UNCHANGED ctx

TimePasses ==
  /\ time < MaxTicks /\ time' = time + 1
  /\ UNCHANGED <<ctx, stats, limiter, deadline, sweeping, buckets, found>>

-----------------------------------------------------------------------------
(* The last handler: WrapH around a business function, or NoRoute.         *)

\* What ShouldBind makes of the body; no length, no binding.
Bound(body) == CASE body \in {"none", "chunked"} -> "zero"
                 [] body \in {"form", "longform", "large"} -> "whole"
                 [] body = "cut" -> "cut"
                 [] OTHER -> "error"

WrapH(r) ==
  /\ Down(r, "wrap") /\ ctx[r].step = 0
  /\ Only(r, IF Bound(ctx[r].rest) = "error" THEN Back(Fail(ctx[r], 400))
             ELSE [ctx[r] EXCEPT !.step = 1, !.got = Bound(ctx[r].rest), !.ran = TRUE])

\* The function returns, fails with or without a reason, or panics.
Returns(r) ==
  /\ Down(r, "wrap") /\ ctx[r].step = 1
  /\ \/ Only(r, Back(Json(ctx[r], 200, "ok")))
     \/ \E err \in {0, 401} : Only(r, Back(Fail(ctx[r], err)))

Panics(r) ==
  /\ Down(r, "wrap") /\ ctx[r].step = 1
  /\ Only(r, [ctx[r] EXCEPT !.at = "panic", !.pos = @ - 1, !.panicked = TRUE])

\* The handlers of CustomMethods: one is called, or there is none.
CustomMethods(r) ==
  /\ Down(r, "custom")
  /\ \/ Only(r, Proceed(ctx[r]))
     \/ Only(r, Back([Status(ctx[r], 404) EXCEPT !.flushed = TRUE]))

NoRoute(r) == Down(r, "noroute") /\ Only(r, Back(Json(ctx[r], 404, "error")))

\* getMetricsAPI reads the counters one after the other.
GetMetricsAPI(r) ==
  /\ Down(r, "stats")
  /\ \/ ctx[r].step = 0 /\ Only(r, [ctx[r] EXCEPT !.seen[1] = stats.gauge, !.step = 1])
     \/ ctx[r].step = 1 /\ Only(r, [ctx[r] EXCEPT !.seen[2] = stats.requests, !.step = 2])
     \/ ctx[r].step = 2 /\ Only(r, Back(Json(ctx[r], 200, "ok")))

-----------------------------------------------------------------------------
(* On the way up.                                                          *)

Leave(r) ==
  /\ ctx[r].at = "up" /\ ctx[r].pos > 0 /\ Handler(r) \notin {"etag", "metrics"}
  /\ Only(r, Back(ctx[r]))

EtagHandler(r) ==
  /\ At(r, "up", "etag")
  /\ Only(r, Back(IF ctx[r].in.match THEN Status(ctx[r], 304)
                  ELSE [ctx[r] EXCEPT !.sent = @ \o ctx[r].held, !.flushed = TRUE]))

CountDown(r) == Count("gauge", -1) /\ Put(r, [ctx[r] EXCEPT !.step = 1])
CountResponse(r) == Count("responses", 1) /\ Put(r, Back(ctx[r]))

\* Mutant: an early return for what is not counted by url skips the decrement.
CountOutFound(r) ==
  /\ At(r, "up", "metrics")
  /\ \/ ctx[r].step = 0 /\ ctx[r].status # 404 /\ CountDown(r)
     \/ (ctx[r].step = 1 \/ ctx[r].status = 404) /\ CountResponse(r)
  /\ UNCHANGED limitvars

CountOut(r) ==
  /\ At(r, "up", "metrics")
  /\ \/ ctx[r].step = 0 /\ CountDown(r)
     \/ ctx[r].step = 1 /\ CountResponse(r)
  /\ UNCHANGED limitvars

\* gin sends the header if no one did.
Finish(r) ==
  /\ ctx[r].at = "up" /\ ctx[r].pos = 0
  /\ Only(r, [ctx[r] EXCEPT !.at = "done", !.flushed = TRUE])

(* A panic: AbortWithStatus(500), with nothing but the header; Recover's   *)
(* answer, which needs the trace id and panics again without it; net/http  *)
(* drops the connection when no handler recovered.                         *)
Recovery(r) ==
  /\ At(r, "panic", "recovery")
  /\ Only(r, Back([Status(ctx[r], 500) EXCEPT !.flushed = TRUE]))

Recover(r) ==
  /\ At(r, "panic", "recover")
  /\ Only(r, IF ctx[r].traced THEN AbortWithStatusJSON(ctx[r], 500)
                              ELSE [ctx[r] EXCEPT !.pos = @ - 1])

Unwind(r) ==
  /\ ctx[r].at = "panic" /\ ctx[r].pos > 0
  /\ Handler(r) \notin {"recovery", "recover"}
  /\ Only(r, [ctx[r] EXCEPT !.pos = @ - 1, !.leaked = @ \/ Handler(r) = "metrics"])

Dropped(r) ==
  /\ ctx[r].at = "panic" /\ ctx[r].pos = 0
  /\ Only(r, [ctx[r] EXCEPT !.at = "done", !.status = 0])

Handle(r) ==
  \/ Defer(r) \/ CountIn(r) \/ Logger(r) \/ LoggerWithBody(r)
  \/ LimitContentLength(r) \/ AuthMiddleware(r) \/ AuthLevel(r) \/ EtagIn(r)
  \/ LimitLoad(r) \/ LimitJudge(r) \/ LimitDelete(r) \/ LimitRead(r)
  \/ LimitRenew(r) \/ LimitStore(r) \/ LimitAllow(r) \/ RateLimiter(r)
  \/ WrapH(r) \/ Returns(r) \/ Panics(r) \/ CustomMethods(r) \/ NoRoute(r)
  \/ GetMetricsAPI(r)
  \/ Leave(r) \/ EtagHandler(r) \/ CountOut(r) \/ Finish(r)
  \/ Recovery(r) \/ Recover(r) \/ Unwind(r) \/ Dropped(r)

RequestNext ==
  \/ \E r \in Requests : Arrive(r) \/ Handle(r)
  \/ \E k \in Clients : SweepFinds(k) \/ SweepDeletes(k)
  \/ TimePasses

-----------------------------------------------------------------------------
Passes(r, h) == \E i \in 1..Len(Chain[ctx[r].route]) : Chain[ctx[r].route][i] = h

(* One answer: whatever aborts, fails or panics on the way, the client     *)
(* gets one body and not two, and none only with a 304, for a custom       *)
(* method that does not exist, or after a panic, which below the recovery  *)
(* of setupRouter always ends in a 500.                                    *)
OneAnswer ==
  \A r \in Requests : ctx[r].at = "done" =>
    /\ Len(ctx[r].sent) <= 1
    /\ ctx[r].sent = <<>> =>
         \/ ctx[r].status = 304 \/ ctx[r].panicked
         \/ ctx[r].status = 404 /\ Passes(r, "custom")
    /\ ctx[r].panicked /\ Chain[ctx[r].route][1] = "recovery" => ctx[r].status = 500

(* The gauge of requests in flight: an abort is counted out like any other *)
(* end; what a panic passed by stays counted for ever, and nothing else.   *)
Inside(r) ==
  \E i \in 1..Len(Chain[ctx[r].route]) :
    /\ Chain[ctx[r].route][i] = "metrics"
    /\ \/ ctx[r].at = "panic" \/ ctx[r].leaked
       \/ ctx[r].at \in {"down", "up"} /\ ctx[r].pos > i
       \/ ctx[r].at = "up" /\ ctx[r].pos = i /\ ctx[r].step = 0

GaugeCounts ==
  stats.gauge = Cardinality({r \in Requests : ctx[r].at # "idle" /\ Inside(r)})

(* The figures of /app/metrics/api are read one by one while requests come *)
(* and go; still there are never more in flight than there were in all.    *)
SnapshotSane == \A r \in Requests : ctx[r].seen[2] > 0 => ctx[r].seen[1] <= ctx[r].seen[2]

(* The business function works on all of the body that was sent, although  *)
(* a middleware read it before. Two exceptions: a body without a length is *)
(* not bound at all, and a form that broke off passes for a short one when *)
(* LoggerWithBody, in debug mode, has read it.                             *)
InputWhole ==
  \A r \in Requests : ctx[r].ran =>
    \/ ctx[r].got = "whole"
    \/ ctx[r].got = "zero" /\ ctx[r].in.body \in {"none", "chunked"}
    \/ ctx[r].got = "cut" /\ ctx[r].in.body = "cutform" /\ ctx[r].in.debug

(* Racing requests of one client share a bucket: no more than a burst      *)
(* passes the limiter, and one more each time a request or the sweep finds *)
(* the client's deadline passed. That is not one per timeout: all who find *)
(* the same deadline passed delete by key, and the later ones delete the   *)
(* bucket made in the meantime. The limiter for all lets no more pass.     *)
Took(h) == {r \in Requests : \E t \in ctx[r].took : t[1] = h}

BurstKept ==
  /\ \A k \in Clients :
       Cardinality({r \in Took("limit") : Client[r] = k}) <= Burst * (1 + found[k])
  /\ Cardinality(Took("rate")) <= Burst
=============================================================================
