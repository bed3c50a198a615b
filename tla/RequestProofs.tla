---------------------------- MODULE RequestProofs ----------------------------
(***************************************************************************)
(* Theorems about requests in a chain of handlers, for any number of       *)
(* requests, any chains that satisfy ChainAssumption, and any panics.      *)
(***************************************************************************)
EXTENDS Request, FiniteSetTheorems, SequenceTheorems, TLAPS

RequestSpec == RequestInit /\ [][RequestNext]_reqvars

-----------------------------------------------------------------------------
(* What holds of one request by itself.                                    *)

Answers == {"error", "ok"}
Bodies == {"none", "form", "longform", "cutform", "bad", "chunked", "large", "cut"}

Context == [at : {"idle", "down", "up", "panic", "done"}, pos : Nat, step : Nat,
            route : Routes \cup {""}, in : Brings \cup {<<>>}, status : Nat,
            flushed : BOOLEAN, buffered : BOOLEAN, held : Seq(Answers), sent : Seq(Answers),
            traced : BOOLEAN, rest : Bodies \cup {""}, got : {"", "zero", "whole", "cut"},
            ran : BOOLEAN, level : Nat, due : Nat, bucket : Nat,
            took : SUBSET (Handlers \X Nat \X Nat), panicked : BOOLEAN, leaked : BOOLEAN,
            seen : Int \X Int]

\* Where a request that has arrived stands in its chain.
Placed(c) ==
  c.at # "idle" =>
    /\ c.route \in Routes /\ c.in \in Brings
    /\ c.at = "down" => c.pos \in 1..Len(Chain[c.route])
    /\ c.at # "down" => c.pos \in 0..Len(Chain[c.route]) - 1

\* Position i of c's chain holds handler h.
Has(c, i, h) == i \in 1..Len(Chain[c.route]) /\ Chain[c.route][i] = h

\* The EtagWriter has still to hand on what it holds.
EtagAhead(c) == \E i \in 1..c.pos : Has(c, i, "etag") /\ (c.at = "down" => i < c.pos)

NoMethod(c) == c.status = 404 /\ \E i \in 1..Len(Chain[c.route]) : Has(c, i, "custom")

Answered(c) ==
  /\ c.at \in {"idle", "down", "panic"} => c.sent = <<>> /\ c.held = <<>> /\ ~c.flushed
  /\ c.at \in {"idle", "down"} => ~c.panicked
  /\ c.at = "panic" => c.panicked
  /\ Len(c.sent) <= 1 /\ Len(c.held) <= 1
  /\ ~c.buffered => c.held = <<>>
  /\ c.at = "down" => (c.buffered <=> EtagAhead(c))
  /\ c.at = "up" /\ EtagAhead(c) =>
       /\ ~c.panicked /\ c.buffered /\ c.sent = <<>>
       /\ (c.held # <<>> /\ ~c.flushed) \/ (c.flushed /\ NoMethod(c))
  /\ (c.at = "up" /\ ~EtagAhead(c)) \/ c.at = "done" =>
       c.sent # <<>> \/ c.status = 304 \/ c.panicked \/ NoMethod(c)
  /\ c.at \in {"up", "done"} /\ c.panicked /\ Has(c, 1, "recovery") => c.status = 500
  /\ c.at = "panic" /\ c.pos = 0 => ~Has(c, 1, "recovery")

ReadWhole(c) ==
  /\ c.at # "idle" =>
       \/ c.rest = c.in.body
       \/ c.rest = "cut" /\ c.in.body = "cutform" /\ c.in.debug
  /\ c.ran => c.at # "idle" /\
       (\/ c.got = "whole"
        \/ c.got = "zero" /\ c.in.body \in {"none", "chunked"}
        \/ c.got = "cut" /\ c.in.body = "cutform" /\ c.in.debug)

\* What a panic passed by, and where Metrics stands in its steps.
Counted(c) ==
  /\ c.leaked => c.at \in {"panic", "up", "done"}
                 /\ \E i \in c.pos + 1..Len(Chain[c.route]) : Has(c, i, "metrics")
  /\ c.at = "panic" =>
       \A i \in c.pos + 1..Len(Chain[c.route]) : Has(c, i, "metrics") => c.leaked
  /\ c.at \in {"down", "up"} /\ Has(c, c.pos, "metrics") => c.step \in {0, 1}

RequestOK(c) == c \in Context /\ Placed(c) /\ Answered(c) /\ ReadWhole(c) /\ Counted(c)
RequestsOK == ctx \in [Requests -> Context] /\ \A r \in Requests : RequestOK(ctx[r])

-----------------------------------------------------------------------------
(* What holds of requests together.                                        *)

SharedOK ==
  /\ stats \in [requests : Nat, gauge : Int, responses : Nat]
  /\ limiter \in [Clients -> Nat] /\ deadline \in [Clients -> Nat]
  /\ found \in [Clients -> Nat] /\ time \in Nat
  /\ sweeping \in [Clients -> {"none", "data", "exp"}]
  /\ buckets \in Seq(0..Burst) /\ Len(buckets) > 0

\* In flight, as the gauge sees it; counted, but not yet in the gauge.
Counts(c) == c.at # "idle" /\ \E i \in 1..Len(Chain[c.route]) :
  /\ Has(c, i, "metrics")
  /\ \/ c.at = "panic" \/ c.leaked
     \/ c.at \in {"down", "up"} /\ c.pos > i
     \/ c.at = "up" /\ c.pos = i /\ c.step = 0

Half(c) == c.at = "down" /\ Has(c, c.pos, "metrics") /\ c.step = 1

Counting == {r \in Requests : Counts(ctx[r])}
Halves == {r \in Requests : Half(ctx[r])}

CountsOK ==
  /\ stats.gauge = Cardinality(Counting)
  /\ stats.gauge + Cardinality(Halves) <= stats.requests

\* The counters only grow: what was read of the gauge first is less than
\* what is read of the requests later.
SeenOK(c) ==
  /\ c.seen[1] <= stats.requests
  /\ c.seen[2] > 0 => c.seen[1] <= c.seen[2]
  /\ c.at = "down" /\ ~(Has(c, c.pos, "stats") /\ c.step = 2) => c.seen[2] = 0

\* A bucket a limiter handed out, and a token that was taken.
BucketOK(c) ==
  /\ c.bucket # 0 => c.bucket \in 2..Len(buckets)
  /\ c.at = "down" /\ Has(c, c.pos, "limit") /\ c.step = 7 => c.bucket # 0

TokenOK(t) ==
  /\ \/ t[1] = "limit" /\ t[2] \in 2..Len(buckets)
     \/ t[1] = "rate" /\ t[2] = 1
  /\ t[3] \in 1..Burst /\ t[3] > buckets[t[2]]

\* Bucket b is, or was, the limiter of client k.
Holds(k, b) ==
  \/ limiter[k] = b
  \/ \E r \in Requests : Client[r] = k /\
       (ctx[r].bucket = b \/ \E t \in ctx[r].took : t[1] = "limit" /\ t[2] = b)

Former(k) == {b \in 2..Len(buckets) : Holds(k, b) /\ b # limiter[k]}

\* Who found the deadline of k passed and has still to delete what is there.
Deletes(c) == c.at = "down" /\ Has(c, c.pos, "limit") /\ c.step = 2
Deleting(k) == {r \in Requests : Client[r] = k /\ Deletes(ctx[r])}
Sweeps(k) == IF sweeping[k] = "data" THEN 1 ELSE 0

\* Every bucket that was deleted, or may still be, was found to be out of date.
FoundOK(k) ==
  Cardinality(Former(k)) + Cardinality(Deleting(k)) + Sweeps(k) <= found[k]

BucketsOK ==
  /\ \A k \in Clients : limiter[k] # 0 => limiter[k] \in 2..Len(buckets)
  /\ \A r \in Requests : BucketOK(ctx[r]) /\ \A t \in ctx[r].took : TokenOK(t)
  /\ \A r1, r2 \in Requests : \A t1 \in ctx[r1].took, t2 \in ctx[r2].took :
       t1[2] = t2[2] /\ t1[3] = t2[3] => r1 = r2
  /\ \A k \in Clients : FoundOK(k)

RequestInv ==
  RequestsOK /\ SharedOK /\ CountsOK /\ BucketsOK /\ \A r \in Requests : SeenOK(ctx[r])

LEMMA Positions ==
  ASSUME NEW c \in Context, Placed(c), c.at # "idle", c.pos > 0
  PROVE  /\ c.pos \in 1..Len(Chain[c.route]) /\ Len(Chain[c.route]) \in Nat
         /\ Chain[c.route][c.pos] \in Handlers
         /\ Chain[c.route][c.pos] \in Last <=> c.pos = Len(Chain[c.route])
<1> DEFINE chain == Chain[c.route]
<1>1. c.pos \in Nat
  BY DEF Context
<1>2. c.route \in Routes
  BY DEF Placed
<1>3. chain \in Seq(Handlers) /\ \A i \in 1..Len(chain) : chain[i] \in Last <=> i = Len(chain)
  BY <1>2, ChainAssumption
<1>4. Len(chain) \in Nat
  BY <1>3, LenProperties
<1>5. c.pos \in 1..Len(chain)
  BY <1>1, <1>4 DEF Placed
<1>6. chain[c.pos] \in Handlers
  BY <1>3, <1>5, ElementOfSeq
<1> QED
  BY <1>3, <1>4, <1>5, <1>6

-----------------------------------------------------------------------------
(* A context that is updated is a context.                                 *)

LEMMA OnwardTyped ==
  ASSUME NEW c \in Context, NEW n \in Nat
  PROVE  [c EXCEPT !.pos = n, !.step = 0] \in Context
BY ZenonT(40) DEF Context

LEMMA UpwardTyped ==
  ASSUME NEW c \in Context, NEW n \in Nat
  PROVE  [c EXCEPT !.at = "up", !.pos = n, !.step = 0] \in Context
BY ZenonT(40) DEF Context

LEMMA CodedTyped ==
  ASSUME NEW c \in Context, NEW n \in Nat
  PROVE  [c EXCEPT !.status = n] \in Context
BY ZenonT(40) DEF Context

LEMMA HeldTyped ==
  ASSUME NEW c \in Context, NEW s \in Seq(Answers)
  PROVE  [c EXCEPT !.held = s] \in Context
BY ZenonT(40) DEF Context

LEMMA SentTyped ==
  ASSUME NEW c \in Context, NEW s \in Seq(Answers)
  PROVE  [c EXCEPT !.sent = s, !.flushed = TRUE] \in Context
BY ZenonT(40) DEF Context

LEMMA BufferedTyped ==
  ASSUME NEW c \in Context
  PROVE  [c EXCEPT !.buffered = TRUE] \in Context
BY ZenonT(40) DEF Context

LEMMA ReadTyped ==
  ASSUME NEW c \in Context, NEW b \in Bodies
  PROVE  [c EXCEPT !.rest = b] \in Context
BY ZenonT(40) DEF Context

LEMMA RanTyped ==
  ASSUME NEW c \in Context, NEW b \in {"zero", "whole", "cut"}
  PROVE  [c EXCEPT !.step = 1, !.got = b, !.ran = TRUE] \in Context
BY ZenonT(40) DEF Context

LEMMA PanickedTyped ==
  ASSUME NEW c \in Context, NEW n \in Nat
  PROVE  [c EXCEPT !.at = "panic", !.pos = n, !.panicked = TRUE] \in Context
BY ZenonT(40) DEF Context

LEMMA FlushedTyped ==
  ASSUME NEW c \in Context
  PROVE  [c EXCEPT !.flushed = TRUE] \in Context
BY ZenonT(40) DEF Context

LEMMA UnwoundTyped ==
  ASSUME NEW c \in Context, NEW n \in Nat, NEW b \in BOOLEAN
  PROVE  [c EXCEPT !.pos = n, !.leaked = b] \in Context
BY ZenonT(40) DEF Context

LEMMA DoneTyped ==
  ASSUME NEW c \in Context
  PROVE  [c EXCEPT !.at = "done", !.flushed = TRUE] \in Context
BY ZenonT(40) DEF Context

LEMMA GoneTyped ==
  ASSUME NEW c \in Context
  PROVE  [c EXCEPT !.at = "done", !.status = 0] \in Context
BY ZenonT(40) DEF Context

\* What the limiters and /app/metrics/api read and write.
Plain(c, d) == d.bucket = c.bucket /\ d.took = c.took /\ d.seen = c.seen

\* Where a step takes a request that has arrived: it stays with its handler,
\* goes on to the next, turns back, breaks off, climbs or ends.
Moves(c, d) ==
  /\ d.route = c.route
  /\ \/ c.at = "down" /\ d.at = "down" /\ d.pos = c.pos
     \/ c.at = "down" /\ d.at = "down" /\ d.pos = c.pos + 1 /\ d.step = 0
     \/ /\ c.at \in {"down", "up", "panic"} /\ d.at = "up" /\ d.pos = c.pos - 1 /\ d.step = 0
        /\ c.at = "panic" => Chain[c.route][c.pos] # "metrics"
     \/ c.at = "down" /\ d.at = "panic" /\ d.pos = c.pos - 1 /\ c.pos = Len(Chain[c.route])
     \/ c.at = "panic" /\ d.at = "panic" /\ d.pos = c.pos - 1
     \/ c.at \in {"up", "panic"} /\ d.at = "done" /\ d.pos = c.pos /\ c.pos = 0
  /\ d.leaked <=> c.leaked \/ (d.at = "panic" /\ c.at = "panic"
                               /\ Chain[c.route][c.pos] = "metrics")

Goes(c, d) == RequestOK(d) /\ Moves(c, d) /\ Plain(c, d)

LEMMA TracedTyped ==
  ASSUME NEW c \in Context
  PROVE  [c EXCEPT !.traced = TRUE] \in Context
BY ZenonT(40) DEF Context

LEMMA LevelTyped ==
  ASSUME NEW c \in Context, NEW n \in Nat
  PROVE  [c EXCEPT !.level = n] \in Context
BY ZenonT(40) DEF Context

LEMMA SteppedTyped ==
  ASSUME NEW c \in Context, NEW n \in Nat
  PROVE  [c EXCEPT !.step = n] \in Context
BY ZenonT(40) DEF Context

LEMMA DueTyped ==
  ASSUME NEW c \in Context, NEW x \in Nat, NEW n \in Nat
  PROVE  [c EXCEPT !.due = x, !.step = n] \in Context
BY ZenonT(40) DEF Context

LEMMA BucketTyped ==
  ASSUME NEW c \in Context, NEW b \in Nat, NEW n \in Nat
  PROVE  [c EXCEPT !.bucket = b, !.step = n] \in Context
BY ZenonT(40) DEF Context

LEMMA TookTyped ==
  ASSUME NEW c \in Context, NEW S \in SUBSET (Handlers \X Nat \X Nat)
  PROVE  [c EXCEPT !.took = S] \in Context
BY ZenonT(40) DEF Context

LEMMA SeenTyped ==
  ASSUME NEW c \in Context, NEW s \in Int \X Int, NEW n \in Nat
  PROVE  [c EXCEPT !.seen = s, !.step = n] \in Context
BY ZenonT(40) DEF Context

LEMMA ArrivedTyped ==
  ASSUME NEW c \in Context, NEW x \in Routes, NEW in \in Brings, NEW b \in Bodies
  PROVE  [c EXCEPT !.at = "down", !.route = x, !.in = in, !.rest = b] \in Context
BY ZenonT(40) DEF Context

\* d is c, at another place or with other values of what no invariant reads.
Carried(c, d) ==
  /\ d \in Context
  /\ d.route = c.route /\ d.in = c.in /\ d.status = c.status
  /\ d.flushed = c.flushed /\ d.buffered = c.buffered /\ d.held = c.held /\ d.sent = c.sent
  /\ d.rest = c.rest /\ d.got = c.got /\ d.ran = c.ran
  /\ d.panicked = c.panicked /\ d.leaked = c.leaked

LEMMA ProceedShape ==
  ASSUME NEW c \in Context, NEW d, d = Proceed(c)
  PROVE  Carried(c, d) /\ Plain(c, d) /\ d.at = c.at /\ d.pos = c.pos + 1 /\ d.step = 0
<1>1. c.pos \in Nat
  BY DEF Context, Plain
<1>2. PICK n \in Nat : n = c.pos + 1
  BY <1>1
<1>3. d = [c EXCEPT !.pos = n, !.step = 0]
  BY <1>2 DEF Proceed
<1>4. d \in Context
  BY <1>3, OnwardTyped
<1>5. /\ d.route = c.route /\ d.in = c.in /\ d.status = c.status
      /\ d.flushed = c.flushed /\ d.buffered = c.buffered /\ d.held = c.held /\ d.sent = c.sent
      /\ d.rest = c.rest /\ d.got = c.got /\ d.ran = c.ran
      /\ d.panicked = c.panicked /\ d.leaked = c.leaked
  BY <1>3, ZenonT(40) DEF Context
<1>6. Plain(c, d)
  BY <1>3, ZenonT(40) DEF Context, Plain
<1>7. d.at = c.at /\ d.pos = n /\ d.step = 0
  BY <1>3 DEF Context, Plain
<1> QED
  BY <1>2, <1>4, <1>5, <1>6, <1>7 DEF Carried

LEMMA BackShape ==
  ASSUME NEW c \in Context, c.pos > 0, NEW d, d = Back(c)
  PROVE  Carried(c, d) /\ Plain(c, d) /\ d.at = "up" /\ d.pos = c.pos - 1 /\ d.step = 0
<1>1. c.pos \in Nat
  BY DEF Context, Plain
<1>2. PICK n \in Nat : n = c.pos - 1
  BY <1>1
<1>3. d = [c EXCEPT !.at = "up", !.pos = n, !.step = 0]
  BY <1>2 DEF Back
<1>4. d \in Context
  BY <1>3, UpwardTyped
<1>5. /\ d.route = c.route /\ d.in = c.in /\ d.status = c.status
      /\ d.flushed = c.flushed /\ d.buffered = c.buffered /\ d.held = c.held /\ d.sent = c.sent
      /\ d.rest = c.rest /\ d.got = c.got /\ d.ran = c.ran
      /\ d.panicked = c.panicked /\ d.leaked = c.leaked /\ Plain(c, d)
  BY <1>3, ZenonT(40) DEF Context, Plain
<1>6. d.at = "up" /\ d.pos = n /\ d.step = 0
  BY <1>3 DEF Context, Plain
<1> QED
  BY <1>2, <1>4, <1>5, <1>6 DEF Carried

\* What Json does to a writer nobody has written to.
Unwritten(c) == ~c.flushed /\ c.sent = <<>> /\ c.held = <<>>

Written(c, d, code, body) ==
  /\ d \in Context /\ d.status = code
  /\ d.buffered = c.buffered /\ (d.flushed <=> ~c.buffered)
  /\ d.sent = IF c.buffered THEN <<>> ELSE <<body>>
  /\ d.held = IF c.buffered THEN <<body>> ELSE <<>>
  /\ d.route = c.route /\ d.in = c.in
  /\ d.rest = c.rest /\ d.got = c.got /\ d.ran = c.ran
  /\ d.panicked = c.panicked /\ d.leaked = c.leaked /\ Plain(c, d)

LEMMA JsonShape ==
  ASSUME NEW c \in Context, Unwritten(c), NEW code \in Nat, NEW body \in Answers,
         NEW d, d = Json(c, code, body)
  PROVE  Written(c, d, code, body) /\ d.at = c.at /\ d.pos = c.pos
<1> DEFINE e == [c EXCEPT !.status = code]
<1>1. <<body>> \in Seq(Answers)
  OBVIOUS
<1>2. e \in Context
  BY CodedTyped
<1>3. /\ e.status = code /\ e.at = c.at /\ e.pos = c.pos /\ e.route = c.route /\ e.in = c.in
      /\ e.flushed = c.flushed /\ e.buffered = c.buffered /\ e.held = c.held /\ e.sent = c.sent
      /\ e.rest = c.rest /\ e.got = c.got /\ e.ran = c.ran
      /\ e.panicked = c.panicked /\ e.leaked = c.leaked /\ Plain(c, e)
  BY DEF Context, Plain
<1>4. d = Write(e, body)
  BY DEF Json, Status, Unwritten
<1> HIDE DEF e
<1>5. Append(e.held, body) = <<body>> /\ Append(e.sent, body) = <<body>>
  BY <1>3 DEF Unwritten
<1>6. CASE c.buffered
  <2>1. d = [e EXCEPT !.held = <<body>>]
    BY <1>3, <1>4, <1>5, <1>6 DEF Write
  <2>2. d \in Context
    BY <1>1, <1>2, <2>1, HeldTyped
  <2>3. /\ d.status = e.status /\ d.at = e.at /\ d.pos = e.pos /\ d.route = e.route /\ d.in = e.in
        /\ d.flushed = e.flushed /\ d.buffered = e.buffered /\ d.held = <<body>> /\ d.sent = e.sent
        /\ d.rest = e.rest /\ d.got = e.got /\ d.ran = e.ran
        /\ d.panicked = e.panicked /\ d.leaked = e.leaked /\ Plain(e, d)
    BY <1>2, <2>1, ZenonT(40) DEF Context, Plain
  <2> QED
    BY <1>3, <1>6, <2>2, <2>3, ZenonT(40) DEF Written, Unwritten, Plain
<1>7. CASE ~c.buffered
  <2>1. d = [e EXCEPT !.sent = <<body>>, !.flushed = TRUE]
    BY <1>3, <1>4, <1>5, <1>7 DEF Write
  <2>2. d \in Context
    BY <1>1, <1>2, <2>1, SentTyped
  <2>3. /\ d.status = e.status /\ d.at = e.at /\ d.pos = e.pos /\ d.route = e.route /\ d.in = e.in
        /\ d.flushed = TRUE /\ d.buffered = e.buffered /\ d.held = e.held /\ d.sent = <<body>>
        /\ d.rest = e.rest /\ d.got = e.got /\ d.ran = e.ran
        /\ d.panicked = e.panicked /\ d.leaked = e.leaked /\ Plain(e, d)
    BY <1>2, <2>1, ZenonT(40) DEF Context, Plain
  <2> QED
    BY <1>3, <1>7, <2>2, <2>3 DEF Written, Unwritten, Plain
<1> QED
  BY <1>6, <1>7

-----------------------------------------------------------------------------
(* The steps of one request.                                               *)

Kept(c, d) == Carried(c, d) /\ d.at = c.at /\ d.pos = c.pos

LEMMA KeptOK ==
  ASSUME NEW c, NEW d, RequestOK(c), Kept(c, d),
         c.at \in {"down", "up"} /\ Has(c, c.pos, "metrics") => d.step \in {0, 1}
  PROVE  RequestOK(d)
<1> USE DEF Kept, Carried
<1>1. Placed(d)
  BY DEF RequestOK, Placed
<1>2. Answered(d)
  BY DEF RequestOK, Answered, EtagAhead, Has, NoMethod
<1>3. ReadWhole(d)
  BY DEF RequestOK, ReadWhole
<1>4. Counted(d)
  BY DEF RequestOK, Counted, Has
<1> QED
  BY <1>1, <1>2, <1>3, <1>4 DEF RequestOK

LEMMA ProceedOK ==
  ASSUME NEW c, RequestOK(c), c.at = "down", Chain[c.route][c.pos] \notin Last \cup {"etag"}
  PROVE  Goes(c, Proceed(c))
<1> DEFINE d == Proceed(c)
<1>1. c.pos \in 1..Len(Chain[c.route]) - 1 /\ Len(Chain[c.route]) \in Nat
  BY Positions DEF RequestOK, Placed
<1>2. Carried(c, d) /\ Plain(c, d) /\ d.at = "down" /\ d.pos = c.pos + 1 /\ d.step = 0
  BY ProceedShape DEF RequestOK
<1> HIDE DEF d
<1> USE <1>1, <1>2 DEF Carried
<1>3. Placed(d)
  BY DEF RequestOK, Placed
<1>4. Answered(d)
  BY DEF RequestOK, Answered, EtagAhead, Has, NoMethod
<1>5. ReadWhole(d)
  BY DEF RequestOK, ReadWhole
<1>6. Counted(d)
  BY DEF RequestOK, Counted, Has
<1>7. Moves(c, d)
  BY DEF Moves
<1>8. Plain(c, d)
  BY DEF Plain
<1> QED
  BY <1>3, <1>4, <1>5, <1>6, <1>7, <1>8 DEF Goes, RequestOK, d

\* A handler answers on the way down, and the way up begins.
LEMMA AnswerOK ==
  ASSUME NEW c, RequestOK(c), c.at = "down", NEW code \in Nat, NEW body \in Answers
  PROVE  Goes(c, Back(Json(c, code, body)))
<1> DEFINE d == Json(c, code, body)
           e == Back(d)
<1>1. c.pos \in 1..Len(Chain[c.route]) /\ Len(Chain[c.route]) \in Nat
  BY Positions DEF RequestOK, Placed
<1>2. Written(c, d, code, body) /\ d.pos = c.pos
  BY JsonShape DEF RequestOK, Answered, Unwritten
<1> HIDE DEF d
<1>3. Carried(d, e) /\ Plain(d, e) /\ e.at = "up" /\ e.pos = c.pos - 1 /\ e.step = 0
  BY <1>1, <1>2, BackShape DEF Written
<1>4. Written(c, e, code, body)
  BY <1>2, <1>3 DEF Written, Carried, Plain
<1> HIDE DEF e
<1> USE <1>1, <1>3, <1>4 DEF Written
<1>5. Placed(e)
  BY DEF RequestOK, Placed
<1>6. Answered(e)
  <2>1. EtagAhead(e) <=> EtagAhead(c)
    BY DEF EtagAhead, Has, RequestOK, Placed
  <2>2. c.buffered <=> EtagAhead(c)
    BY DEF RequestOK, Answered
  <2>3. ~e.panicked
    BY DEF RequestOK, Answered
  <2> QED
    BY <2>1, <2>2, <2>3 DEF Answered
<1>7. ReadWhole(e)
  BY DEF RequestOK, ReadWhole
<1>8. Counted(e)
  BY DEF RequestOK, Counted, Has
<1>9. Moves(c, e)
  BY DEF Moves
<1>10. Plain(c, e)
  BY DEF Plain
<1> QED
  BY <1>5, <1>6, <1>7, <1>8, <1>9, <1>10 DEF Goes, RequestOK, d, e

\* A handler returns on the way up.
LEMMA ReturnOK ==
  ASSUME NEW c, RequestOK(c), c.at = "up", c.pos > 0, Chain[c.route][c.pos] # "etag"
  PROVE  Goes(c, Back(c))
<1> DEFINE d == Back(c)
<1>1. c.pos \in 1..Len(Chain[c.route]) /\ Len(Chain[c.route]) \in Nat
  BY Positions DEF RequestOK, Placed
<1>2. Carried(c, d) /\ Plain(c, d) /\ d.at = "up" /\ d.pos = c.pos - 1 /\ d.step = 0
  BY BackShape DEF RequestOK
<1> HIDE DEF d
<1> USE <1>1, <1>2 DEF Carried
<1>3. Placed(d)
  BY DEF RequestOK, Placed
<1>4. Answered(d)
  BY DEF RequestOK, Answered, EtagAhead, Has, NoMethod
<1>5. ReadWhole(d)
  BY DEF RequestOK, ReadWhole
<1>6. Counted(d)
  BY DEF RequestOK, Counted, Has
<1>7. Moves(c, d)
  BY DEF Moves
<1>8. Plain(c, d)
  BY DEF Plain
<1> QED
  BY <1>3, <1>4, <1>5, <1>6, <1>7, <1>8 DEF Goes, RequestOK, d

\* EtagHandler puts its writer in.
LEMMA EtagInOK ==
  ASSUME NEW c, RequestOK(c), c.at = "down", Chain[c.route][c.pos] = "etag"
  PROVE  Goes(c, Proceed([c EXCEPT !.buffered = TRUE]))
<1> DEFINE d == [c EXCEPT !.buffered = TRUE]
           e == Proceed(d)
<1>1. /\ c.pos \in 1..Len(Chain[c.route]) - 1 /\ Len(Chain[c.route]) \in Nat
      /\ c.route \in Routes
  BY Positions DEF RequestOK, Placed, Last
<1>2. d \in Context
  BY BufferedTyped DEF RequestOK
<1>3. /\ d.at = c.at /\ d.pos = c.pos /\ d.route = c.route /\ d.in = c.in
      /\ d.status = c.status /\ d.flushed = c.flushed /\ d.buffered = TRUE
      /\ d.held = c.held /\ d.sent = c.sent /\ d.rest = c.rest /\ d.got = c.got
      /\ d.ran = c.ran /\ d.panicked = c.panicked /\ d.leaked = c.leaked /\ Plain(c, d)
  BY DEF RequestOK, Context, Plain
<1> HIDE DEF d
<1>4. Carried(d, e) /\ Plain(d, e) /\ e.at = "down" /\ e.pos = c.pos + 1 /\ e.step = 0
  BY <1>2, <1>3, ProceedShape
<1> HIDE DEF e
<1>5. e \in Context /\ e.route = c.route
  BY <1>3, <1>4 DEF Carried
<1>6. Has(e, c.pos, "etag")
  BY <1>1, <1>5 DEF Has
<1> USE <1>1, <1>3, <1>4, <1>5 DEF Carried
<1>7. Placed(e)
  BY DEF RequestOK, Placed
<1>8. Answered(e)
  BY <1>6 DEF RequestOK, Answered, EtagAhead
<1>9. ReadWhole(e)
  BY DEF RequestOK, ReadWhole
<1>10. Counted(e)
  BY ChainAssumption DEF RequestOK, Counted, Has
<1>11. Moves(c, e)
  BY DEF Moves
<1>12. Plain(c, e)
  BY DEF Plain
<1> QED
  BY <1>7, <1>8, <1>9, <1>10, <1>11, <1>12 DEF Goes, RequestOK, d, e

\* LoggerWithBody reads the body and puts it back.
LEMMA BodyOK ==
  ASSUME NEW c, RequestOK(c), c.at = "down", c.in.debug
  PROVE  Goes(c, [c EXCEPT !.rest = RestRead(@)])
<1> DEFINE d == [c EXCEPT !.rest = RestRead(@)]
<1>1. RestRead(c.rest) \in Bodies /\ c.in \in Brings
  BY DEF RequestOK, ReadWhole, Placed, RestRead, Brings, Bodies
<1>2. d \in Context
  BY <1>1, ReadTyped DEF RequestOK
<1>3. /\ d.step = c.step
      /\ d.at = c.at /\ d.pos = c.pos /\ d.route = c.route /\ d.in = c.in
      /\ d.status = c.status /\ d.flushed = c.flushed /\ d.buffered = c.buffered
      /\ d.held = c.held /\ d.sent = c.sent /\ d.rest = RestRead(c.rest)
      /\ d.got = c.got /\ d.ran = c.ran /\ d.panicked = c.panicked
      /\ d.leaked = c.leaked /\ Plain(c, d)
  BY DEF RequestOK, Context, Plain
<1> HIDE DEF d
<1> USE <1>2, <1>3
<1>4. Placed(d)
  BY DEF RequestOK, Placed
<1>5. Answered(d)
  BY DEF RequestOK, Answered, EtagAhead, Has, NoMethod
<1>6. ReadWhole(d)
  BY DEF RequestOK, ReadWhole, RestRead
<1>7. Counted(d)
  BY DEF RequestOK, Counted, Has
<1>8. Moves(c, d)
  BY DEF Moves
<1>9. Plain(c, d)
  BY DEF Plain
<1> QED
  BY <1>4, <1>5, <1>6, <1>7, <1>8, <1>9 DEF Goes, RequestOK, d

\* WrapH has bound the body and calls its function.
LEMMA RunOK ==
  ASSUME NEW c, RequestOK(c), c.at = "down", Bound(c.rest) # "error",
         Chain[c.route][c.pos] = "wrap"
  PROVE  Goes(c, [c EXCEPT !.step = 1, !.got = Bound(c.rest), !.ran = TRUE])
<1> DEFINE d == [c EXCEPT !.step = 1, !.got = Bound(c.rest), !.ran = TRUE]
<1>1. Bound(c.rest) \in {"zero", "whole", "cut"}
  BY DEF Bound
<1>2. d \in Context
  BY <1>1, RanTyped DEF RequestOK
<1>3. /\ d.at = c.at /\ d.pos = c.pos /\ d.route = c.route /\ d.in = c.in
      /\ d.status = c.status /\ d.flushed = c.flushed /\ d.buffered = c.buffered
      /\ d.held = c.held /\ d.sent = c.sent /\ d.rest = c.rest
      /\ d.got = Bound(c.rest) /\ d.ran = TRUE /\ d.panicked = c.panicked
      /\ d.leaked = c.leaked /\ Plain(c, d)
  BY DEF RequestOK, Context, Plain
<1> HIDE DEF d
<1> USE <1>2, <1>3
<1>4. Placed(d)
  BY DEF RequestOK, Placed
<1>5. Answered(d)
  BY DEF RequestOK, Answered, EtagAhead, Has, NoMethod
<1>6. ReadWhole(d)
  <2>1. c.rest = c.in.body \/ (c.rest = "cut" /\ c.in.body = "cutform" /\ c.in.debug)
    BY DEF RequestOK, ReadWhole
  <2>2. c.in.body \in Bodies \ {"cut"}
    BY DEF RequestOK, Placed, Brings, Bodies
  <2>3. CASE c.rest = "cut"
    BY <2>1, <2>2, <2>3 DEF ReadWhole, Bound
  <2>4. CASE c.rest = c.in.body /\ c.rest # "cut"
    BY <1>1, <2>2, <2>4 DEF ReadWhole, Bound
  <2> QED
    BY <2>1, <2>3, <2>4
<1>7. Counted(d)
  BY DEF RequestOK, Counted, Has
<1>8. Moves(c, d)
  BY DEF Moves
<1>9. Plain(c, d)
  BY DEF Plain
<1> QED
  BY <1>4, <1>5, <1>6, <1>7, <1>8, <1>9 DEF Goes, RequestOK, d

\* The business function panics.
LEMMA PanicOK ==
  ASSUME NEW c, RequestOK(c), c.at = "down", Chain[c.route][c.pos] = "wrap"
  PROVE  Goes(c, [c EXCEPT !.at = "panic", !.pos = @ - 1, !.panicked = TRUE])
<1> DEFINE d == [c EXCEPT !.at = "panic", !.pos = @ - 1, !.panicked = TRUE]
<1>0. c.pos \in Nat \ {0}
  BY DEF RequestOK, Placed
<1>1. c.pos = Len(Chain[c.route]) /\ Len(Chain[c.route]) \in Nat /\ c.pos \in Nat \ {0}
  BY <1>0, Positions DEF RequestOK, Last
<1>2. PICK n \in Nat : n = c.pos - 1
  BY <1>0
<1>3. d = [c EXCEPT !.at = "panic", !.pos = n, !.panicked = TRUE]
  BY <1>2
<1> HIDE DEF d
<1>4. d \in Context
  BY <1>3, PanickedTyped DEF RequestOK
<1>5. /\ d.at = "panic" /\ d.pos = n /\ d.route = c.route /\ d.in = c.in
      /\ d.status = c.status /\ d.flushed = c.flushed /\ d.buffered = c.buffered
      /\ d.held = c.held /\ d.sent = c.sent /\ d.rest = c.rest /\ d.got = c.got
      /\ d.ran = c.ran /\ d.panicked = TRUE /\ d.leaked = c.leaked /\ Plain(c, d)
  BY <1>3 DEF RequestOK, Context, Plain
<1> USE <1>1, <1>2, <1>4, <1>5
<1>6. Placed(d)
  BY DEF RequestOK, Placed
<1>7. Answered(d)
  BY DEF RequestOK, Answered, EtagAhead, Has, NoMethod
<1>8. ReadWhole(d)
  BY DEF RequestOK, ReadWhole
<1>9. Counted(d)
  BY DEF RequestOK, Counted, Has
<1>10. Moves(c, d)
  BY DEF Moves
<1>11. Plain(c, d)
  BY DEF Plain
<1> QED
  BY <1>6, <1>7, <1>8, <1>9, <1>10, <1>11 DEF Goes, RequestOK, d

\* A status and nothing else, to a writer nobody has written to.
Bare(c, code) == Back([Status(c, code) EXCEPT !.flushed = TRUE])

Bared(c, b, code) ==
  /\ b \in Context /\ b.at = "up" /\ b.pos = c.pos - 1 /\ b.step = 0
  /\ b.status = code /\ b.flushed = TRUE /\ b.sent = <<>> /\ b.held = <<>>
  /\ b.buffered = c.buffered /\ b.route = c.route /\ b.in = c.in
  /\ b.rest = c.rest /\ b.got = c.got /\ b.ran = c.ran
  /\ b.panicked = c.panicked /\ b.leaked = c.leaked /\ Plain(c, b)

LEMMA BareShape ==
  ASSUME NEW c \in Context, Unwritten(c), NEW code \in Nat, NEW b,
         c.pos > 0, b = Bare(c, code)
  PROVE  Bared(c, b, code)
<1> DEFINE d == [c EXCEPT !.status = code]
           e == [d EXCEPT !.flushed = TRUE]
<1>1. d \in Context
  BY CodedTyped
<1>2. Status(c, code) = d
  BY DEF Status, Unwritten
<1>3. /\ d.at = c.at /\ d.pos = c.pos /\ d.route = c.route /\ d.in = c.in
      /\ d.status = code /\ d.buffered = c.buffered
      /\ d.held = c.held /\ d.sent = c.sent /\ d.rest = c.rest /\ d.got = c.got
      /\ d.ran = c.ran /\ d.panicked = c.panicked /\ d.leaked = c.leaked /\ Plain(c, d)
  BY DEF Context, Plain
<1> HIDE DEF d
<1>4. e \in Context
  BY <1>1, FlushedTyped
<1>5. /\ e.at = d.at /\ e.pos = d.pos /\ e.route = d.route /\ e.in = d.in
      /\ e.status = d.status /\ e.flushed = TRUE /\ e.buffered = d.buffered
      /\ e.held = d.held /\ e.sent = d.sent /\ e.rest = d.rest /\ e.got = d.got
      /\ e.ran = d.ran /\ e.panicked = d.panicked /\ e.leaked = d.leaked /\ Plain(d, e)
  BY <1>1 DEF Context, Plain
<1>6. b = Back(e)
  BY <1>2 DEF Bare
<1> HIDE DEF e
<1>7. Carried(e, b) /\ Plain(e, b) /\ b.at = "up" /\ b.pos = e.pos - 1 /\ b.step = 0
  BY <1>3, <1>4, <1>5, <1>6, BackShape
<1> QED
  BY <1>3, <1>5, <1>7 DEF Carried, Plain, Unwritten, Bared

\* No method of that name.
LEMMA NoMethodOK ==
  ASSUME NEW c, RequestOK(c), c.at = "down", Chain[c.route][c.pos] = "custom",
         NEW b, b = Bare(c, 404)
  PROVE  Goes(c, b)
<1>1. /\ c.pos \in 1..Len(Chain[c.route]) /\ Len(Chain[c.route]) \in Nat
      /\ Unwritten(c) /\ ~c.panicked
  BY Positions DEF RequestOK, Placed, Answered, Unwritten
<1>2. c \in Context /\ c.pos > 0 /\ 404 \in Nat
  BY <1>1 DEF RequestOK
<1>3. Bared(c, b, 404)
  BY <1>1, <1>2, BareShape
<1> USE <1>1, <1>2, <1>3 DEF Bared
<1>4. NoMethod(b)
  BY DEF NoMethod, Has
<1>5. Placed(b)
  BY DEF RequestOK, Placed
<1>6. Answered(b)
  <2>1. EtagAhead(b) <=> EtagAhead(c)
    BY SMTT(30) DEF EtagAhead, Has, RequestOK, Placed
  <2>2. c.buffered <=> EtagAhead(c)
    BY DEF RequestOK, Answered
  <2> QED
    BY <1>4, <2>1, <2>2 DEF Answered, Unwritten
<1>7. ReadWhole(b)
  BY DEF RequestOK, ReadWhole
<1>8. Counted(b)
  BY DEF RequestOK, Counted, Has
<1>9. Moves(c, b)
  BY DEF Moves
<1>10. Plain(c, b)
  BY DEF Plain
<1> QED
  BY <1>4, <1>5, <1>6, <1>7, <1>8, <1>9, <1>10 DEF Goes, RequestOK

\* EtagHandler hands on what it held, or answers that nothing has changed.
LEMMA EtagOutOK ==
  ASSUME NEW c, RequestOK(c), c.at = "up", c.pos > 0, Chain[c.route][c.pos] = "etag"
  PROVE  Goes(c, Back(IF c.in.match THEN Status(c, 304)
                        ELSE [c EXCEPT !.sent = @ \o c.held, !.flushed = TRUE]))
<1> DEFINE d == IF c.in.match THEN Status(c, 304)
                ELSE [c EXCEPT !.sent = @ \o c.held, !.flushed = TRUE]
           b == Back(d)
<1>1. /\ c.pos \in 1..Len(Chain[c.route]) /\ Len(Chain[c.route]) \in Nat
      /\ c.route \in Routes /\ c \in Context
  BY Positions DEF RequestOK, Placed
<1>2. /\ ~c.panicked /\ c.sent = <<>> /\ Len(c.held) <= 1
      /\ (c.held # <<>> /\ ~c.flushed) \/ (c.flushed /\ NoMethod(c))
  <2>1. EtagAhead(c)
    BY <1>1 DEF EtagAhead, Has
  <2> QED
    BY <2>1 DEF RequestOK, Answered
<1>3. c.sent \o c.held = c.held /\ c.held \in Seq(Answers)
  <2>1. c.held \in Seq(Answers)
    BY <1>1 DEF Context, Plain
  <2> QED
    BY <1>2, <2>1
<1>4. /\ d \in Context
      /\ d.at = c.at /\ d.pos = c.pos /\ d.route = c.route /\ d.in = c.in
      /\ d.buffered = c.buffered /\ d.held = c.held /\ d.rest = c.rest
      /\ d.got = c.got /\ d.ran = c.ran /\ d.panicked = c.panicked /\ d.leaked = c.leaked /\ Plain(c, d)
      /\ Len(d.sent) <= 1
      /\ d.sent # <<>> \/ d.status = 304 \/ NoMethod(d)
  <2>1. CASE c.in.match /\ c.flushed
    <3>1. d = [c EXCEPT !.status = c.status]
      BY <2>1 DEF Status
    <3> HIDE DEF d
    <3>2. d = c
      BY <1>1, <3>1 DEF Context, Plain
    <3> QED
      BY <1>1, <1>2, <2>1, <3>2 DEF Plain
  <2>2. CASE c.in.match /\ ~c.flushed
    <3>1. d = [c EXCEPT !.status = 304]
      BY <2>2 DEF Status
    <3> HIDE DEF d
    <3>2. c \in Context /\ 304 \in Nat
      BY <1>1
    <3>3. d \in Context
      BY <3>1, <3>2, CodedTyped
    <3>4. /\ d.at = c.at /\ d.pos = c.pos /\ d.route = c.route /\ d.in = c.in
          /\ d.buffered = c.buffered /\ d.held = c.held /\ d.rest = c.rest
          /\ d.got = c.got /\ d.ran = c.ran /\ d.panicked = c.panicked
          /\ d.leaked = c.leaked /\ Plain(c, d) /\ d.sent = c.sent /\ d.status = 304
      BY <1>1, <3>1, ZenonT(40) DEF Context, Plain
    <3> QED
      BY <1>2, <3>3, <3>4
  <2>3. CASE ~c.in.match
    <3>1. d = [c EXCEPT !.sent = c.held, !.flushed = TRUE]
      BY <1>3, <2>3
    <3> HIDE DEF d
    <3>2. d \in Context
      BY <1>1, <1>3, <3>1, SentTyped
    <3>3. /\ d.at = c.at /\ d.pos = c.pos /\ d.route = c.route /\ d.in = c.in
          /\ d.buffered = c.buffered /\ d.held = c.held /\ d.rest = c.rest
          /\ d.got = c.got /\ d.ran = c.ran /\ d.panicked = c.panicked
          /\ d.leaked = c.leaked /\ Plain(c, d) /\ d.sent = c.held /\ d.status = c.status
      BY <1>1, <3>1 DEF Context, Plain
    <3> QED
      BY <1>2, <3>2, <3>3 DEF NoMethod, Has
  <2> QED
    BY <2>1, <2>2, <2>3
<1> HIDE DEF d
<1>5. Carried(d, b) /\ Plain(d, b) /\ b.at = "up" /\ b.pos = c.pos - 1 /\ b.step = 0
  BY <1>1, <1>4, BackShape
<1> HIDE DEF b
<1> USE <1>1, <1>4, <1>5 DEF Carried
<1>6. Placed(b)
  BY DEF RequestOK, Placed
<1>7. ~EtagAhead(b)
  BY ChainAssumption DEF EtagAhead, Has
<1>8. Answered(b)
  BY <1>2, <1>7 DEF RequestOK, Answered, NoMethod, Has
<1>9. ReadWhole(b)
  BY DEF RequestOK, ReadWhole
<1>10. Counted(b)
  BY DEF RequestOK, Counted, Has
<1>11. Moves(c, b)
  BY DEF Moves
<1>12. Plain(c, b)
  BY DEF Plain
<1> QED
  BY <1>6, <1>8, <1>9, <1>10, <1>11, <1>12 DEF Goes, RequestOK, b, d

LEMMA FinishOK ==
  ASSUME NEW c, RequestOK(c), c.at = "up", c.pos = 0
  PROVE  Goes(c, [c EXCEPT !.at = "done", !.flushed = TRUE])
<1> DEFINE d == [c EXCEPT !.at = "done", !.flushed = TRUE]
<1>1. d \in Context
  BY DoneTyped DEF RequestOK
<1>2. /\ d.at = "done" /\ d.pos = c.pos /\ d.route = c.route /\ d.in = c.in
      /\ d.status = c.status /\ d.flushed = TRUE /\ d.buffered = c.buffered
      /\ d.held = c.held /\ d.sent = c.sent /\ d.rest = c.rest /\ d.got = c.got
      /\ d.ran = c.ran /\ d.panicked = c.panicked /\ d.leaked = c.leaked /\ Plain(c, d)
  BY DEF RequestOK, Context, Plain
<1> HIDE DEF d
<1> USE <1>1, <1>2
<1>3. Placed(d)
  BY DEF RequestOK, Placed
<1>4. ~EtagAhead(c)
  BY DEF EtagAhead
<1>5. Answered(d)
  BY <1>4 DEF RequestOK, Answered, NoMethod, Has
<1>6. ReadWhole(d)
  BY DEF RequestOK, ReadWhole
<1>7. Counted(d)
  BY DEF RequestOK, Counted, Has
<1>8. Moves(c, d)
  BY DEF Moves
<1>9. Plain(c, d)
  BY DEF Plain
<1> QED
  BY <1>3, <1>5, <1>6, <1>7, <1>8, <1>9 DEF Goes, RequestOK, d

\* CustomRecovery's answer to a panic: the status and nothing else.
LEMMA RecoveryOK ==
  ASSUME NEW c, RequestOK(c), c.at = "panic", c.pos > 0,
         Chain[c.route][c.pos] = "recovery", NEW b, b = Bare(c, 500)
  PROVE  Goes(c, b)
<1>1. /\ c.pos \in 1..Len(Chain[c.route]) - 1 /\ Len(Chain[c.route]) \in Nat
      /\ Unwritten(c) /\ c.panicked /\ c.route \in Routes
  BY Positions DEF RequestOK, Placed, Answered, Unwritten
<1>2. c \in Context /\ c.pos > 0 /\ 500 \in Nat
  BY <1>1 DEF RequestOK
<1>3. Bared(c, b, 500)
  BY <1>1, <1>2, BareShape
<1> USE <1>1, <1>2, <1>3 DEF Bared
<1>4. Placed(b)
  BY DEF RequestOK, Placed
<1>5. ~EtagAhead(b)
  BY ChainAssumption DEF EtagAhead, Has
<1>6. Answered(b)
  <2> HIDE <1>1, <1>2, <1>3
  <2>1. b.at = "up" /\ b.panicked /\ b.status = 500 /\ b.sent = <<>> /\ b.held = <<>>
    <3>1. b.at = "up" /\ b.status = 500 /\ b.sent = <<>> /\ b.held = <<>>
      BY <1>3, Zenon DEF Bared
    <3>2. c.panicked /\ b.panicked = c.panicked
      BY <1>1, <1>3, Zenon DEF Bared
    <3> QED
      BY <3>1, <3>2, ZenonT(40)
  <2>2. Len(<<>>) <= 1
    OBVIOUS
  <2> QED
    BY <1>5, <2>1, <2>2 DEF Answered
<1>7. ReadWhole(b)
  BY DEF RequestOK, ReadWhole
<1>8. Counted(b)
  BY DEF RequestOK, Counted, Has
<1>9. Moves(c, b)
  BY DEF Moves
<1>10. Plain(c, b)
  BY DEF Plain
<1> QED
  BY <1>4, <1>6, <1>7, <1>8, <1>9, <1>10 DEF Goes, RequestOK

\* Recover's answer to a panic.
LEMMA WrittenOnce ==
  ASSUME NEW c, NEW d, NEW code, NEW body, Written(c, d, code, body)
  PROVE  Len(d.sent) <= 1 /\ Len(d.held) <= 1 /\ (~d.buffered => d.held = <<>>)
<1>1. CASE c.buffered
  <2>1. d.sent = <<>> /\ d.held = <<body>> /\ d.buffered
    BY <1>1 DEF Written
  <2> QED
    BY <2>1
<1>2. CASE ~c.buffered
  <2>1. d.sent = <<body>> /\ d.held = <<>>
    BY <1>2 DEF Written
  <2> QED
    BY <2>1
<1> QED
  BY <1>1, <1>2

LEMMA RecoverOK ==
  ASSUME NEW c, RequestOK(c), c.at = "panic", c.pos > 0,
         Chain[c.route][c.pos] = "recover",
         NEW d, d = Json(c, 500, "error"), NEW b, b = Back(d)
  PROVE  Goes(c, b)
<1>1. /\ c.pos \in 1..Len(Chain[c.route]) - 1 /\ Len(Chain[c.route]) \in Nat
      /\ Unwritten(c) /\ c.panicked /\ c.route \in Routes
  BY Positions DEF RequestOK, Placed, Answered, Unwritten
<1>2. c \in Context /\ c.pos > 0 /\ 500 \in Nat /\ "error" \in Answers
  BY <1>1 DEF RequestOK, Answers
<1>3. Written(c, d, 500, "error") /\ d.pos = c.pos
  <2>1. c \in Context /\ Unwritten(c)
    BY <1>1, <1>2
  <2> QED
    BY <2>1, <1>2, JsonShape
<1>4. Carried(d, b) /\ Plain(d, b) /\ b.at = "up" /\ b.pos = c.pos - 1 /\ b.step = 0
  BY <1>1, <1>3, BackShape DEF Written
<1>5. Written(c, b, 500, "error")
  BY <1>3, <1>4 DEF Written, Carried, Plain
<1>6. Len(b.sent) <= 1 /\ Len(b.held) <= 1 /\ (~b.buffered => b.held = <<>>)
  BY <1>5, WrittenOnce
<1>7. b.panicked /\ b.status = 500
  BY <1>1, <1>5, ZenonT(40) DEF Written
<1>9. ~EtagAhead(b)
  BY <1>1, <1>4, <1>5, ChainAssumption, SMTT(30) DEF EtagAhead, Has, Written
<1>10. Answered(b)
  BY <1>4, <1>6, <1>7, <1>9 DEF Answered
<1> USE <1>1, <1>4, <1>5 DEF Written
<1>11. Placed(b)
  BY SMTT(30) DEF RequestOK, Placed
<1>12. ReadWhole(b)
  BY DEF RequestOK, ReadWhole
<1>13. Counted(b)
  BY DEF RequestOK, Counted, Has
<1>14. Moves(c, b)
  BY DEF Moves
<1>15. Plain(c, b)
  BY DEF Plain
<1> QED
  BY <1>10, <1>11, <1>12, <1>13, <1>14, <1>15 DEF Goes, RequestOK

\* A panic climbs past a handler; what Metrics counted stays.
LEMMA UnwindOK ==
  ASSUME NEW c, RequestOK(c), c.at = "panic", c.pos > 0, NEW leaked \in BOOLEAN,
         leaked <=> (c.leaked \/ Chain[c.route][c.pos] = "metrics"),
         Chain[c.route][c.pos] # "recovery"
  PROVE  Goes(c, [c EXCEPT !.pos = c.pos - 1, !.leaked = leaked])
<1> DEFINE d == [c EXCEPT !.pos = c.pos - 1, !.leaked = leaked]
<1>0. c.pos \in Nat \ {0}
  BY DEF RequestOK, Placed
<1>1. c.pos \in 1..Len(Chain[c.route]) - 1 /\ Len(Chain[c.route]) \in Nat
  BY Positions DEF RequestOK, Placed
<1>2. PICK n \in Nat : n = c.pos - 1
  BY <1>0
<1>3. d = [c EXCEPT !.pos = n, !.leaked = leaked]
  BY <1>2
<1> HIDE DEF d
<1>4. d \in Context
  BY <1>3, UnwoundTyped DEF RequestOK
<1>5. /\ d.at = c.at /\ d.pos = n /\ d.route = c.route /\ d.in = c.in
      /\ d.status = c.status /\ d.flushed = c.flushed /\ d.buffered = c.buffered
      /\ d.held = c.held /\ d.sent = c.sent /\ d.rest = c.rest /\ d.got = c.got
      /\ d.ran = c.ran /\ d.panicked = c.panicked /\ d.leaked = leaked /\ Plain(c, d)
  BY <1>3 DEF RequestOK, Context, Plain
<1> USE <1>1, <1>2, <1>4, <1>5
<1>6. Placed(d)
  BY DEF RequestOK, Placed
<1>7. Answered(d)
  BY DEF RequestOK, Answered, EtagAhead, Has, NoMethod
<1>8. ReadWhole(d)
  BY DEF RequestOK, ReadWhole
<1>9. Counted(d)
  <2>1. d.leaked => \E i \in d.pos + 1..Len(Chain[d.route]) : Has(d, i, "metrics")
    <3>1. CASE c.leaked
      BY <3>1 DEF RequestOK, Counted, Has
    <3>2. CASE Chain[c.route][c.pos] = "metrics"
      BY <3>2 DEF Has
    <3> QED
      BY <3>1, <3>2
  <2>2. \A i \in d.pos + 1..Len(Chain[d.route]) : Has(d, i, "metrics") => d.leaked
    BY SMTT(30) DEF RequestOK, Counted, Has
  <2> QED
    BY <2>1, <2>2 DEF Counted
<1>10. Moves(c, d)
  BY DEF Moves
<1>11. Plain(c, d)
  BY DEF Plain
<1> QED
  BY <1>6, <1>7, <1>8, <1>9, <1>10, <1>11 DEF Goes, RequestOK, d

LEMMA DroppedOK ==
  ASSUME NEW c, RequestOK(c), c.at = "panic", c.pos = 0
  PROVE  Goes(c, [c EXCEPT !.at = "done", !.status = 0])
<1> DEFINE d == [c EXCEPT !.at = "done", !.status = 0]
<1>1. d \in Context
  BY GoneTyped DEF RequestOK
<1>2. /\ d.at = "done" /\ d.pos = c.pos /\ d.route = c.route /\ d.in = c.in
      /\ d.status = 0 /\ d.flushed = c.flushed /\ d.buffered = c.buffered
      /\ d.held = c.held /\ d.sent = c.sent /\ d.rest = c.rest /\ d.got = c.got
      /\ d.ran = c.ran /\ d.panicked = c.panicked /\ d.leaked = c.leaked /\ Plain(c, d)
  BY DEF RequestOK, Context, Plain
<1> HIDE DEF d
<1> USE <1>1, <1>2
<1>3. Placed(d)
  BY DEF RequestOK, Placed
<1>4. Answered(d)
  BY DEF RequestOK, Answered, NoMethod, Has
<1>5. ReadWhole(d)
  BY DEF RequestOK, ReadWhole
<1>6. Counted(d)
  BY DEF RequestOK, Counted, Has
<1>7. Moves(c, d)
  BY DEF Moves
<1>8. Plain(c, d)
  BY DEF Plain
<1> QED
  BY <1>3, <1>4, <1>5, <1>6, <1>7, <1>8 DEF Goes, RequestOK, d

\* A request comes in.
Arrived(x, in) ==
  [Blank EXCEPT !.at = "down", !.route = x, !.in = in, !.rest = in.body]

LEMMA ArriveOK ==
  ASSUME NEW x \in Routes, NEW in \in Brings, NEW d, d = Arrived(x, in)
  PROVE  /\ RequestOK(d) /\ d.at = "down" /\ d.pos = 1 /\ d.step = 0 /\ d.route = x
         /\ ~d.leaked /\ d.bucket = 0 /\ d.took = {} /\ d.seen = <<0, 0>>
<1>1. in.body \in Bodies
  BY DEF Brings, Bodies
<1>2. d \in Context
  <2>1. Blank \in Context
    BY DEF Context, Blank
  <2> QED
    BY <1>1, <2>1, ArrivedTyped DEF Arrived
<1>3. /\ d.at = "down" /\ d.pos = 1 /\ d.step = 0 /\ d.route = x /\ d.in = in
      /\ d.status = 200 /\ d.flushed = FALSE /\ d.buffered = FALSE
      /\ d.held = <<>> /\ d.sent = <<>> /\ d.rest = in.body /\ d.ran = FALSE
      /\ d.panicked = FALSE /\ d.leaked = FALSE
      /\ d.bucket = 0 /\ d.took = {} /\ d.seen = <<0, 0>>
  BY DEF Blank, Arrived
<1>4. Chain[x] # <<>> /\ Chain[x] \in Seq(Handlers) /\ Len(Chain[x]) \in Nat \ {0}
  BY ChainAssumption
<1> USE <1>2, <1>3, <1>4
<1>5. Placed(d)
  BY DEF Placed
<1>6. Answered(d)
  BY DEF Answered, EtagAhead
<1>7. ReadWhole(d)
  BY DEF ReadWhole
<1>8. Counted(d)
  BY DEF Counted
<1> QED
  BY <1>5, <1>6, <1>7, <1>8 DEF RequestOK

LEMMA BlankOK == RequestOK(Blank)
<1> DEFINE c == Blank
<1>1. c \in Context
  BY DEF Context, Blank
<1>2. /\ c.at = "idle" /\ c.flushed = FALSE /\ c.buffered = FALSE
      /\ c.held = <<>> /\ c.sent = <<>> /\ c.ran = FALSE
      /\ c.panicked = FALSE /\ c.leaked = FALSE
  BY DEF Blank
<1> HIDE DEF c
<1>3. Placed(c) /\ ReadWhole(c) /\ Counted(c)
  BY <1>2 DEF Placed, ReadWhole, Counted
<1>4. Answered(c)
  BY <1>2 DEF Answered
<1> QED
  BY <1>1, <1>3, <1>4 DEF RequestOK, c

-----------------------------------------------------------------------------
(* The steps of the system.                                                *)

\* A handler changes what no invariant reads before it moves.
LEMMA Through ==
  ASSUME NEW c, NEW d, NEW e, Goes(d, e), Plain(c, d),
         d.at = c.at, d.pos = c.pos, d.route = c.route, d.leaked = c.leaked
  PROVE  Goes(c, e)
BY DEF Goes, Moves, Plain

LEMMA StaysGoes ==
  ASSUME NEW c, NEW d, RequestOK(c), Kept(c, d), Plain(c, d), c.at = "down",
         Chain[c.route][c.pos] # "metrics"
  PROVE  Goes(c, d)
<1>1. RequestOK(d)
  BY KeptOK DEF Has
<1>2. Moves(c, d)
  BY DEF Kept, Carried, Moves
<1> QED
  BY <1>1, <1>2 DEF Goes

\* A step that leaves the counters and the limiters alone.
Quiet(r) ==
  /\ ctx' = [ctx EXCEPT ![r] = ctx'[r]] /\ UNCHANGED <<stats, limiter, deadline, sweeping, buckets, time, found>>
  /\ Goes(ctx[r], ctx'[r])
  /\ ctx[r].at \in {"down", "up"} /\ ctx[r].pos > 0 => Handler(r) # "metrics"
  /\ ctx'[r].at = "down" /\ ctx'[r].pos = ctx[r].pos => Handler(r) \notin {"limit", "stats"}

LEMMA OnlyQuiet ==
  ASSUME ctx \in [Requests -> Context], NEW r \in Requests, NEW d,
         Only(r, d), Goes(ctx[r], d),
         ctx[r].at \in {"down", "up"} /\ ctx[r].pos > 0 => Handler(r) # "metrics",
         d.at = "down" /\ d.pos = ctx[r].pos => Handler(r) \notin {"limit", "stats"}
  PROVE  Quiet(r)
<1>1. ctx'[r] = d /\ ctx' = [ctx EXCEPT ![r] = d]
  BY DEF Only, limitvars, Put
<1> QED
  BY <1>1 DEF Quiet, Only, limitvars

\* Most handlers go on as they are.
LEMMA OnwardQuiet ==
  ASSUME RequestsOK, NEW r \in Requests, NEW d, ctx[r].at = "down",
         Handler(r) \notin Last \cup {"etag", "metrics"},
         RequestOK(d), Kept(ctx[r], d), Plain(ctx[r], d), Only(r, Proceed(d))
  PROVE  Quiet(r)
<1> DEFINE c == ctx[r]
<1>1. RequestOK(c) /\ ctx \in [Requests -> Context]
  BY DEF RequestsOK
<1>2. d.at = "down" /\ d.pos = c.pos /\ d.route = c.route /\ d.leaked = c.leaked
  BY DEF Kept, Carried
<1>3. Chain[d.route][d.pos] \notin Last \cup {"etag"}
  BY <1>2 DEF Handler
<1>4. Goes(d, Proceed(d))
  BY <1>2, <1>3, ProceedOK
<1>5. Goes(c, Proceed(d))
  BY <1>2, <1>4, Through
<1>6. Proceed(d).pos = c.pos + 1 /\ c.pos \in Nat
  <2>1. c.pos \in Nat
    BY <1>1 DEF RequestOK, Context
  <2>2. d \in Context
    BY DEF Kept, Carried
  <2> QED
    BY <1>2, <2>1, <2>2, ProceedShape
<1> QED
  BY <1>1, <1>5, <1>6, OnlyQuiet

LEMMA SelfKept ==
  ASSUME NEW c \in Context
  PROVE  Kept(c, c) /\ Plain(c, c)
BY DEF Kept, Carried, Plain

LEMMA PlainOnward ==
  ASSUME RequestsOK, NEW r \in Requests, ctx[r].at = "down",
         Handler(r) \notin Last \cup {"etag", "metrics"}, Only(r, Proceed(ctx[r]))
  PROVE  Quiet(r)
BY SelfKept, OnwardQuiet DEF RequestsOK, RequestOK

\* A handler that answers.
LEMMA AnswerQuiet ==
  ASSUME RequestsOK, NEW r \in Requests, ctx[r].at = "down", Handler(r) # "metrics",
         NEW code \in Nat, NEW body \in Answers, Only(r, Back(Json(ctx[r], code, body)))
  PROVE  Quiet(r)
<1> DEFINE d == Back(Json(ctx[r], code, body))
<1>1. RequestOK(ctx[r]) /\ ctx \in [Requests -> Context]
  BY DEF RequestsOK
<1>2. Goes(ctx[r], d)
  BY <1>1, AnswerOK
<1>3. d.at = "up"
  BY DEF Back
<1> QED
  BY <1>1, <1>2, <1>3, OnlyQuiet

LEMMA FailQuiet ==
  ASSUME RequestsOK, NEW r \in Requests, ctx[r].at = "down", Handler(r) # "metrics",
         NEW err \in Nat, Only(r, Back(Fail(ctx[r], err)))
  PROVE  Quiet(r)
<1>1. PICK code \in Nat : code = IF err = 0 THEN 400 ELSE err
  OBVIOUS
<1>2. Fail(ctx[r], err) = Json(ctx[r], code, "error")
  BY <1>1 DEF Fail
<1>3. "error" \in Answers
  BY DEF Answers
<1> QED
  BY <1>2, <1>3, AnswerQuiet

LEMMA AbortQuiet ==
  ASSUME RequestsOK, NEW r \in Requests, ctx[r].at = "down", Handler(r) # "metrics",
         NEW err \in Nat, Only(r, AbortWithStatusJSON(ctx[r], err))
  PROVE  Quiet(r)
<1>1. "error" \in Answers
  BY DEF Answers
<1> QED
  BY <1>1, AnswerQuiet DEF AbortWithStatusJSON

LEMMA LoggerQuiet ==
  ASSUME RequestsOK, NEW r \in Requests, Logger(r)
  PROVE  Quiet(r)
<1> DEFINE c == ctx[r]
           d == [c EXCEPT !.traced = TRUE]
<1>1. c.at = "down" /\ Handler(r) = "logger" /\ Only(r, Proceed(d)) /\ RequestOK(c)
  BY DEF Logger, Down, At, RequestsOK
<1>2. c \in Context /\ d \in Context
  BY <1>1, TracedTyped DEF RequestOK
<1>3. Kept(c, d) /\ Plain(c, d) /\ d.step = c.step
  BY <1>2 DEF Context, Kept, Carried, Plain
<1> HIDE DEF d
<1>4. RequestOK(d)
  BY <1>1, <1>3, KeptOK DEF RequestOK, Counted
<1> QED
  BY <1>1, <1>3, <1>4, OnwardQuiet DEF Last

LEMMA LoggerWithBodyQuiet ==
  ASSUME RequestsOK, NEW r \in Requests, LoggerWithBody(r)
  PROVE  Quiet(r)
<1> DEFINE c == ctx[r]
           d == [c EXCEPT !.rest = RestRead(@)]
<1>1. c.at = "down" /\ Handler(r) = "body" /\ RequestOK(c) /\ ctx \in [Requests -> Context]
  BY DEF LoggerWithBody, Down, At, RequestsOK
<1>2. CASE c.in.debug /\ c.rest # "large"
  <2>1. Only(r, Proceed(d))
    BY <1>2 DEF LoggerWithBody
  <2>2. Goes(c, d)
    BY <1>1, <1>2, BodyOK
  <2>3. d.at = "down" /\ d.pos = c.pos /\ d.route = c.route /\ d.leaked = c.leaked
    BY <1>1 DEF RequestOK, Context
  <2> HIDE DEF d
  <2>4. Chain[d.route][d.pos] \notin Last \cup {"etag"} /\ RequestOK(d) /\ Plain(c, d)
    BY <1>1, <2>2, <2>3 DEF Handler, Last, Goes
  <2>5. Goes(c, Proceed(d))
    BY <2>3, <2>4, <1>1, ProceedOK, Through
  <2> QED
    BY <1>1, <2>1, <2>5, OnlyQuiet
<1>3. CASE ~(c.in.debug /\ c.rest # "large")
  <2>1. Only(r, Proceed(c))
    BY <1>3 DEF LoggerWithBody
  <2> QED
    BY <1>1, <2>1, PlainOnward DEF Last
<1> QED
  BY <1>2, <1>3

LEMMA AuthQuiet ==
  ASSUME RequestsOK, NEW r \in Requests, AuthMiddleware(r)
  PROVE  Quiet(r)
<1> DEFINE c == ctx[r]
           t == c.in.token
           d == [c EXCEPT !.level = t.level]
<1>1. /\ c.at = "down" /\ Handler(r) = "auth" /\ RequestOK(c)
      /\ c \in Context /\ c.in \in Brings
  BY DEF AuthMiddleware, Down, At, RequestsOK, RequestOK, Placed
<1>2. CASE Ignores(r) /\ Only(r, Proceed(c))
  BY <1>1, <1>2, PlainOnward DEF Last
<1>3. CASE ParseToken(t) /\ Only(r, Proceed(d))
  <2>1. t \in Claims
    BY <1>1, <1>3 DEF Brings, ParseToken
  <2>2. PICK n \in Nat : n = t.level
    BY <2>1 DEF Claims
  <2>3. d = [c EXCEPT !.level = n]
    BY <2>2
  <2> HIDE DEF d
  <2>4. d \in Context
    BY <1>1, <2>3, LevelTyped
  <2>5. Kept(c, d) /\ Plain(c, d) /\ d.step = c.step
    BY <1>1, <2>3, <2>4, ZenonT(40) DEF Context, Kept, Carried, Plain
  <2>6. RequestOK(d)
    BY <1>1, <2>5, KeptOK DEF RequestOK, Counted
  <2> QED
    BY <1>1, <1>3, <2>5, <2>6, OnwardQuiet DEF Last
<1>4. CASE Only(r, AbortWithStatusJSON(c, 401))
  <2>1. 401 \in Nat
    OBVIOUS
  <2> QED
    BY <1>1, <1>4, <2>1, AbortQuiet
<1> QED
  BY <1>2, <1>3, <1>4 DEF AuthMiddleware

LEMMA EtagInQuiet ==
  ASSUME RequestsOK, NEW r \in Requests, EtagIn(r)
  PROVE  Quiet(r)
<1> DEFINE c == ctx[r]
           d == [c EXCEPT !.buffered = TRUE]
<1>1. /\ c.at = "down" /\ Handler(r) = "etag" /\ RequestOK(c) /\ Only(r, Proceed(d))
      /\ ctx \in [Requests -> Context]
  BY DEF EtagIn, Down, At, RequestsOK
<1>2. Goes(c, Proceed(d))
  BY <1>1, EtagInOK DEF Handler
<1> QED
  BY <1>1, <1>2, OnlyQuiet

\* WrapH and its function.
LEMMA WrapQuiet ==
  ASSUME RequestsOK, NEW r \in Requests, WrapH(r) \/ Returns(r) \/ Panics(r)
  PROVE  Quiet(r)
<1> DEFINE c == ctx[r]
<1>1. /\ c.at = "down" /\ Handler(r) = "wrap" /\ RequestOK(c)
      /\ ctx \in [Requests -> Context]
  BY DEF WrapH, Returns, Panics, Down, At, RequestsOK
<1>2. 0 \in Nat /\ 200 \in Nat /\ 400 \in Nat /\ 401 \in Nat /\ "ok" \in Answers
  BY DEF Answers
<1>3. CASE WrapH(r) /\ Bound(c.rest) = "error"
  BY <1>1, <1>2, <1>3, FailQuiet DEF WrapH
<1>4. CASE WrapH(r) /\ Bound(c.rest) # "error"
  <2> DEFINE d == [c EXCEPT !.step = 1, !.got = Bound(c.rest), !.ran = TRUE]
  <2>1. Goes(c, d)
    BY <1>1, <1>4, RunOK DEF Handler
  <2>2. Only(r, d)
    BY <1>4 DEF WrapH
  <2> QED
    BY <1>1, <2>1, <2>2, OnlyQuiet
<1>5. CASE Returns(r)
  <2>1. CASE Only(r, Back(Json(c, 200, "ok")))
    BY <1>1, <1>2, <2>1, AnswerQuiet
  <2>2. ASSUME NEW err \in {0, 401}, Only(r, Back(Fail(c, err)))
        PROVE  Quiet(r)
    BY <1>1, <1>2, <2>2, FailQuiet
  <2> QED
    BY <1>5, <2>1, <2>2 DEF Returns
<1>6. CASE Panics(r)
  <2> DEFINE d == [c EXCEPT !.at = "panic", !.pos = @ - 1, !.panicked = TRUE]
  <2>1. Goes(c, d)
    BY <1>1, PanicOK DEF Handler
  <2>2. Only(r, d)
    BY <1>6 DEF Panics
  <2> QED
    BY <1>1, <2>1, <2>2, OnlyQuiet
<1> QED
  BY <1>3, <1>4, <1>5, <1>6

\* The other handlers on the way down that leave counters and limiters alone.
LEMMA DownQuiet ==
  ASSUME RequestsOK, NEW r \in Requests,
         \/ Defer(r) \/ LimitContentLength(r) \/ AuthLevel(r) \/ CustomMethods(r)
         \/ NoRoute(r)
  PROVE  Quiet(r)
<1> DEFINE c == ctx[r]
<1>1. /\ c.at = "down" /\ RequestOK(c) /\ ctx \in [Requests -> Context]
      /\ Handler(r) \in {"recovery", "recover", "length", "level", "custom", "noroute"}
  BY DEF Defer, LimitContentLength, AuthLevel, CustomMethods, NoRoute, Down, At, RequestsOK
<1>2. 404 \in Nat /\ 400 \in Nat /\ "error" \in Answers
  BY DEF Answers
<1>3. CASE Only(r, Proceed(c)) /\ Handler(r) # "noroute"
  BY <1>1, <1>3, PlainOnward DEF Last
<1>4. CASE Only(r, AbortWithStatusJSON(c, 400))
  BY <1>1, <1>2, <1>4, AbortQuiet
<1>5. CASE Only(r, Back(Fail(c, 400)))
  BY <1>1, <1>2, <1>5, FailQuiet
<1>6. CASE Only(r, Back(Json(c, 404, "error")))
  BY <1>1, <1>2, <1>6, AnswerQuiet
<1>7. CASE CustomMethods(r) /\ Only(r, Bare(c, 404))
  <2>1. Goes(c, Bare(c, 404))
    BY <1>1, <1>7, NoMethodOK DEF CustomMethods, Down, At, Handler
  <2>2. Bare(c, 404).at = "up"
    BY DEF Bare, Back
  <2> QED
    BY <1>1, <1>7, <2>1, <2>2, OnlyQuiet
<1>8. CASE Defer(r)
  BY <1>3, <1>8 DEF Defer, Down, At
<1>9. CASE LimitContentLength(r)
  BY <1>3, <1>4, <1>9 DEF LimitContentLength, Down, At
<1>10. CASE AuthLevel(r)
  BY <1>3, <1>5, <1>10 DEF AuthLevel, Down, At
<1>11. CASE CustomMethods(r)
  BY <1>3, <1>7, <1>11 DEF CustomMethods, Down, At, Bare
<1>12. CASE NoRoute(r)
  BY <1>6, <1>12 DEF NoRoute
<1> QED
  BY <1>8, <1>9, <1>10, <1>11, <1>12

\* The way up, and a panic.
LEMMA UpQuiet ==
  ASSUME RequestsOK, NEW r \in Requests,
         Leave(r) \/ EtagHandler(r) \/ Finish(r)
  PROVE  Quiet(r)
<1> DEFINE c == ctx[r]
<1>1. c.at = "up" /\ RequestOK(c) /\ ctx \in [Requests -> Context]
  BY DEF Leave, EtagHandler, Finish, At, RequestsOK
<1>2. CASE Leave(r)
  <2>1. Goes(c, Back(c))
    BY <1>1, <1>2, ReturnOK DEF Leave, Handler
  <2>2. Back(c).at = "up"
    BY DEF Back
  <2> QED
    BY <1>1, <1>2, <2>1, <2>2, OnlyQuiet DEF Leave
<1>3. CASE EtagHandler(r)
  <2> DEFINE d == Back(IF c.in.match THEN Status(c, 304)
                       ELSE [c EXCEPT !.sent = @ \o c.held, !.flushed = TRUE])
  <2>1. Goes(c, d)
    BY <1>1, <1>3, EtagOutOK DEF EtagHandler, At, Handler
  <2>2. d.at = "up"
    BY DEF Back
  <2>3. Only(r, d) /\ Handler(r) = "etag"
    BY <1>3 DEF EtagHandler, At
  <2> HIDE DEF d
  <2> QED
    BY <1>1, <2>1, <2>2, <2>3, OnlyQuiet
<1>4. CASE Finish(r)
  <2> DEFINE d == [c EXCEPT !.at = "done", !.flushed = TRUE]
  <2>1. Goes(c, d)
    BY <1>1, <1>4, FinishOK DEF Finish
  <2>2. d.at = "done"
    BY <1>1 DEF RequestOK, Context
  <2>3. Only(r, d) /\ c.pos = 0
    BY <1>4 DEF Finish
  <2> HIDE DEF d
  <2> QED
    BY <1>1, <2>1, <2>2, <2>3, OnlyQuiet
<1> QED
  BY <1>2, <1>3, <1>4

LEMMA PanicQuiet ==
  ASSUME RequestsOK, NEW r \in Requests,
         Recovery(r) \/ Recover(r) \/ Unwind(r) \/ Dropped(r)
  PROVE  Quiet(r)
<1> DEFINE c == ctx[r]
<1>1. c.at = "panic" /\ RequestOK(c) /\ ctx \in [Requests -> Context]
  BY DEF Recovery, Recover, Unwind, Dropped, At, RequestsOK
<1>2. ASSUME NEW d, Only(r, d), Goes(c, d), d.at # "down"
      PROVE  Quiet(r)
  BY <1>1, <1>2, OnlyQuiet
<1>3. CASE Recovery(r)
  <2>1. Only(r, Bare(c, 500)) /\ c.pos > 0 /\ Chain[c.route][c.pos] = "recovery"
    BY <1>3 DEF Recovery, At, Handler, Bare
  <2>2. Goes(c, Bare(c, 500))
    BY <1>1, <2>1, RecoveryOK
  <2>3. Bare(c, 500).at = "up"
    BY DEF Bare, Back
  <2> QED
    BY <1>2, <2>1, <2>2, <2>3
<1>4. CASE Recover(r) /\ c.traced
  <2> DEFINE d == Back(Json(c, 500, "error"))
  <2>1. Only(r, d) /\ c.pos > 0 /\ Chain[c.route][c.pos] = "recover"
    BY <1>4 DEF Recover, At, Handler, AbortWithStatusJSON
  <2>2. Goes(c, d)
    BY <1>1, <2>1, RecoverOK
  <2>3. d.at = "up"
    BY DEF Back
  <2> HIDE DEF d
  <2> QED
    BY <1>2, <2>1, <2>2, <2>3
<1>5. CASE Recover(r) /\ ~c.traced
  <2> DEFINE d == [c EXCEPT !.pos = c.pos - 1, !.leaked = c.leaked]
  <2>1. c.pos > 0 /\ Chain[c.route][c.pos] = "recover" /\ c \in Context
    BY <1>1, <1>5 DEF Recover, At, Handler, RequestOK
  <2>2. c.leaked \in BOOLEAN
    BY <2>1 DEF Context
  <2>3. Goes(c, d)
    BY <1>1, <2>1, <2>2, UnwindOK
  <2>4. d = [c EXCEPT !.pos = @ - 1]
    BY <2>1 DEF Context
  <2>5. d.at = "panic"
    BY <1>1, <2>1 DEF Context
  <2>6. Only(r, d)
    BY <1>5, <2>4 DEF Recover
  <2> HIDE DEF d
  <2> QED
    BY <1>2, <2>3, <2>5, <2>6
<1>6. CASE Unwind(r)
  <2> DEFINE leaked == c.leaked \/ Handler(r) = "metrics"
             d == [c EXCEPT !.pos = c.pos - 1, !.leaked = leaked]
  <2>1. c.pos > 0 /\ Chain[c.route][c.pos] # "recovery" /\ Only(r, d)
    BY <1>6 DEF Unwind, Handler
  <2>2. leaked \in BOOLEAN
    OBVIOUS
  <2>3. Goes(c, d)
    BY <1>1, <2>1, <2>2, UnwindOK DEF Handler
  <2>4. d.at = "panic"
    BY <1>1 DEF RequestOK, Context
  <2> HIDE DEF d
  <2> QED
    BY <1>2, <2>1, <2>3, <2>4
<1>7. CASE Dropped(r)
  <2> DEFINE d == [c EXCEPT !.at = "done", !.status = 0]
  <2>1. Only(r, d) /\ c.pos = 0
    BY <1>7 DEF Dropped
  <2>2. Goes(c, d)
    BY <1>1, <2>1, DroppedOK
  <2>3. d.at = "done"
    BY <1>1 DEF RequestOK, Context
  <2> HIDE DEF d
  <2> QED
    BY <1>2, <2>1, <2>2, <2>3
<1> QED
  BY <1>3, <1>4, <1>5, <1>6, <1>7

-----------------------------------------------------------------------------
(* What a step does to the invariants of all requests together.            *)

Changes(r) ==
  /\ ctx' = [ctx EXCEPT ![r] = ctx'[r]] /\ RequestOK(ctx'[r])

LEMMA OthersSame ==
  ASSUME RequestsOK, NEW r \in Requests, Changes(r)
  PROVE  RequestsOK' /\ \A q \in Requests : q # r => ctx'[q] = ctx[q]
<1>1. ctx \in [Requests -> Context] /\ ctx' = [ctx EXCEPT ![r] = ctx'[r]]
  BY DEF RequestsOK, Changes
<1>2. \A q \in Requests : q # r => ctx'[q] = ctx[q]
  BY <1>1
<1>3. ctx'[r] \in Context /\ RequestOK(ctx'[r])
  BY DEF Changes, RequestOK
<1>4. ctx' \in [Requests -> Context]
  BY <1>1, <1>3
<1>5. \A q \in Requests : RequestOK(ctx'[q])
  BY <1>2, <1>3 DEF RequestsOK
<1> QED
  BY <1>2, <1>4, <1>5 DEF RequestsOK, RequestOK, Placed, Answered, ReadWhole, Counted,
     EtagAhead, NoMethod, Has

LEMMA SameCounts ==
  ASSUME NEW c, NEW d, RequestOK(c), RequestOK(d), Moves(c, d),
         c.at \in {"down", "up"} /\ c.pos > 0 => Chain[c.route][c.pos] # "metrics"
  PROVE  (Counts(d) <=> Counts(c)) /\ (Half(d) <=> Half(c))
<1>1. c.at # "idle" /\ d.at # "idle" /\ d.route = c.route
  BY DEF Moves
<1>2. c.pos \in Nat /\ d.pos \in Nat
  BY DEF RequestOK, Context
<1>3. CASE d.at = "down"
  BY <1>1, <1>2, <1>3 DEF Moves, Counts, Half, Has
<1>4. CASE d.at = "up"
  <2>1. /\ c.at \in {"down", "up", "panic"} /\ d.pos = c.pos - 1 /\ d.step = 0
        /\ Chain[c.route][c.pos] # "metrics" /\ (d.leaked <=> c.leaked)
    BY <1>2, <1>4 DEF Moves
  <2>2. CASE c.at = "panic"
    BY <1>1, <1>2, <1>4, <2>1, <2>2 DEF Counts, Half, Has, RequestOK, Counted
  <2>3. CASE c.at \in {"down", "up"}
    BY <1>1, <1>2, <1>4, <2>1, <2>3 DEF Counts, Half, Has
  <2> QED
    BY <2>1, <2>2, <2>3
<1>5. CASE d.at = "panic"
  BY <1>1, <1>2, <1>5 DEF Moves, Counts, Half, Has
<1>6. CASE d.at = "done"
  BY <1>1, <1>2, <1>6 DEF Moves, Counts, Half, Has, RequestOK, Counted
<1> QED
  BY <1>1, <1>3, <1>4, <1>5, <1>6 DEF RequestOK, Context

LEMMA SetsSame ==
  ASSUME RequestsOK, NEW r \in Requests, Changes(r)
  PROVE  /\ Counting' = IF Counts(ctx'[r]) THEN Counting \cup {r} ELSE Counting \ {r}
         /\ Halves' = IF Half(ctx'[r]) THEN Halves \cup {r} ELSE Halves \ {r}
<1>1. \A q \in Requests : q # r => ctx'[q] = ctx[q]
  BY OthersSame
<1>2. Counting' = {q \in Requests : Counts(ctx'[q])}
  BY DEF Counting, Counts, Has
<1>3. Halves' = {q \in Requests : Half(ctx'[q])}
  BY DEF Halves, Half, Has
<1>4. Counting' = IF Counts(ctx'[r]) THEN Counting \cup {r} ELSE Counting \ {r}
  BY <1>1, <1>2 DEF Counting
<1>5. Halves' = IF Half(ctx'[r]) THEN Halves \cup {r} ELSE Halves \ {r}
  BY <1>1, <1>3 DEF Halves
<1> QED
  BY <1>4, <1>5

LEMMA SetsFinite ==
  /\ IsFiniteSet(Counting) /\ Cardinality(Counting) \in Nat
  /\ IsFiniteSet(Halves) /\ Cardinality(Halves) \in Nat
<1>1. IsFiniteSet(Counting) /\ IsFiniteSet(Halves)
  BY RequestAssumption, FS_Subset DEF Counting, Halves
<1> QED
  BY <1>1, FS_CardinalityType

LEMMA OneMore ==
  ASSUME NEW S, IsFiniteSet(S), NEW x
  PROVE  /\ IsFiniteSet(S \cup {x}) /\ Cardinality(S) \in Nat
         /\ Cardinality(S \cup {x}) \in Nat
         /\ Cardinality(S \cup {x}) <= Cardinality(S) + 1
<1>1. IsFiniteSet(S \cup {x})
      /\ (Cardinality(S \cup {x}) = Cardinality(S)
          \/ Cardinality(S \cup {x}) = Cardinality(S) + 1)
  BY FS_AddElement
<1>2. Cardinality(S) \in Nat /\ Cardinality(S \cup {x}) \in Nat
  BY <1>1, FS_CardinalityType
<1> QED
  BY <1>1, <1>2

LEMMA FormerFinite ==
  ASSUME NEW k, Len(buckets) \in Nat
  PROVE  IsFiniteSet(Former(k))
<1>1. IsFiniteSet(2..Len(buckets))
  BY FS_Interval
<1>2. Former(k) \in SUBSET (2..Len(buckets))
  BY DEF Former
<1> QED
  BY <1>1, <1>2, FS_Subset

LEMMA CountsKept ==
  ASSUME RequestsOK, SharedOK, CountsOK, NEW r \in Requests, Changes(r),
         Counts(ctx'[r]) <=> Counts(ctx[r]), Half(ctx'[r]) <=> Half(ctx[r]),
         stats'.gauge = stats.gauge, stats'.requests = stats.requests
  PROVE  CountsOK'
<1>1. Counting' = Counting /\ Halves' = Halves
  BY SetsSame DEF Counting, Halves
<1> QED
  BY <1>1 DEF CountsOK

LEMMA SeenKept ==
  ASSUME RequestsOK, SharedOK, \A q \in Requests : SeenOK(ctx[q]),
         NEW r \in Requests, Changes(r), ctx'[r].seen = ctx[r].seen,
         ctx'[r].at = "down" /\ ~(Has(ctx'[r], ctx'[r].pos, "stats") /\ ctx'[r].step = 2)
           => ctx[r].at = "down" /\ ~(Has(ctx[r], ctx[r].pos, "stats") /\ ctx[r].step = 2),
         stats'.requests \in Nat, stats'.requests >= stats.requests
  PROVE  (\A q \in Requests : SeenOK(ctx[q]))'
<1>1. ASSUME NEW q \in Requests
      PROVE  SeenOK(ctx[q])'
  <2>1. ctx[q] \in Context /\ stats.requests \in Nat
    BY DEF RequestsOK, RequestOK, SharedOK
  <2>2. ctx[q].seen[1] \in Int /\ SeenOK(ctx[q])
    BY <2>1 DEF Context
  <2>3. ctx[q].seen[1] <= stats'.requests
    BY <2>1, <2>2 DEF SeenOK
  <2>4. CASE q = r
    BY <2>2, <2>3, <2>4 DEF SeenOK, Has
  <2>5. CASE q # r
    <3>1. ctx'[q] = ctx[q]
      BY <2>5, OthersSame
    <3> QED
      BY <2>2, <2>3, <3>1 DEF SeenOK, Has
  <2> QED
    BY <2>4, <2>5
<1> QED
  BY <1>1

LEMMA DeletingFinite ==
  ASSUME NEW k
  PROVE  IsFiniteSet(Deleting(k)) /\ Cardinality(Deleting(k)) \in Nat
<1>1. IsFiniteSet(Deleting(k))
  BY RequestAssumption, FS_Subset DEF Deleting
<1> QED
  BY <1>1, FS_CardinalityType

LEMMA DeletingSame ==
  ASSUME RequestsOK, NEW r \in Requests, Changes(r), NEW k
  PROVE  Deleting(k)' = IF Client[r] = k /\ Deletes(ctx'[r])
                        THEN Deleting(k) \cup {r} ELSE Deleting(k) \ {r}
<1>1. \A q \in Requests : q # r => ctx'[q] = ctx[q]
  BY OthersSame
<1>2. Deleting(k)' = {q \in Requests : Client[q] = k /\ Deletes(ctx'[q])}
  BY DEF Deleting, Deletes, Has
<1> QED
  BY <1>1, <1>2 DEF Deleting

\* No bucket becomes a former one, and r does not come to delete any.
LEMMA FoundKept ==
  ASSUME RequestsOK, Len(buckets) \in Nat, NEW k \in Clients, FoundOK(k),
         NEW r \in Requests, Changes(r), ~Deletes(ctx'[r]),
         Former(k)' \subseteq Former(k), found[k] \in Nat,
         UNCHANGED <<sweeping, found>>
  PROVE  FoundOK(k)'
<1>1. Deleting(k)' \subseteq Deleting(k)
  BY DeletingSame
<1>2. Cardinality(Deleting(k)') <= Cardinality(Deleting(k))
      /\ Cardinality(Deleting(k)') \in Nat /\ Cardinality(Deleting(k)) \in Nat
  BY <1>1, DeletingFinite, FS_Subset, FS_CardinalityType
<1>3. Cardinality(Former(k)') <= Cardinality(Former(k))
      /\ Cardinality(Former(k)') \in Nat /\ Cardinality(Former(k)) \in Nat
  BY FormerFinite, FS_Subset, FS_CardinalityType
<1>4. Sweeps(k)' = Sweeps(k) /\ Sweeps(k) \in Nat /\ found'[k] = found[k]
  BY DEF Sweeps
<1>5. FoundOK(k)' <=> Cardinality(Former(k)') + Cardinality(Deleting(k)') + Sweeps(k)'
                        <= found'[k]
  BY DEF FoundOK
<1> QED
  BY <1>2, <1>3, <1>4, <1>5 DEF FoundOK

LEMMA BucketsKept ==
  ASSUME RequestsOK, SharedOK, BucketsOK, NEW r \in Requests, Changes(r),
         ctx'[r].bucket = ctx[r].bucket, ctx'[r].took = ctx[r].took,
         ctx'[r].at = "down" /\ Has(ctx'[r], ctx'[r].pos, "limit")
           => ctx'[r].step \notin {2, 7},
         UNCHANGED <<limiter, deadline, sweeping, buckets, time, found>>
  PROVE  BucketsOK'
<1>1. \A q \in Requests : ctx'[q].bucket = ctx[q].bucket /\ ctx'[q].took = ctx[q].took
  BY OthersSame
<1>2. ASSUME NEW q \in Requests
      PROVE  BucketOK(ctx[q])'
  <2>1. CASE q = r
    BY <1>1, <2>1 DEF BucketsOK, BucketOK, Has
  <2>2. CASE q # r
    BY <2>2, OthersSame DEF BucketsOK, BucketOK, Has
  <2> QED
    BY <2>1, <2>2
<1>3. \A q \in Requests : \A t \in ctx'[q].took : TokenOK(t)'
  BY <1>1 DEF BucketsOK, TokenOK
<1>4. \A r1, r2 \in Requests : \A t1 \in ctx'[r1].took, t2 \in ctx'[r2].took :
        t1[2] = t2[2] /\ t1[3] = t2[3] => r1 = r2
  BY <1>1 DEF BucketsOK
<1>5. ASSUME NEW k \in Clients
      PROVE  FoundOK(k)'
  <2>1. Former(k)' = Former(k)
    BY <1>1 DEF Former, Holds
  <2>2. ~Deletes(ctx'[r])
    BY DEF Deletes
  <2>3. FoundOK(k) /\ found[k] \in Nat /\ Len(buckets) \in Nat
    BY DEF BucketsOK, SharedOK
  <2> QED
    BY <2>1, <2>2, <2>3, FoundKept
<1> QED
  BY <1>2, <1>3, <1>4, <1>5 DEF BucketsOK

-----------------------------------------------------------------------------
(* The invariant is inductive.                                             *)

LEMMA QuietInv ==
  ASSUME RequestInv, NEW r \in Requests, Quiet(r)
  PROVE  RequestInv'
<1> DEFINE c == ctx[r]
           d == ctx'[r]
<1>1. RequestOK(c) /\ RequestOK(d) /\ Moves(c, d) /\ Plain(c, d) /\ Changes(r)
  BY DEF RequestInv, RequestsOK, Quiet, Goes, Changes
<1>2. /\ UNCHANGED <<stats, limiter, deadline, sweeping, buckets, time, found>>
      /\ c.at \in {"down", "up"} /\ c.pos > 0 => Chain[c.route][c.pos] # "metrics"
      /\ d.at = "down" /\ d.pos = c.pos => Chain[c.route][c.pos] \notin {"limit", "stats"}
  BY DEF Quiet, Handler
<1>3. c.pos \in Nat /\ d.route = c.route
  BY <1>1 DEF RequestOK, Context, Moves
<1>4. d.at = "down" => c.at = "down" /\ (d.pos = c.pos \/ (d.pos = c.pos + 1 /\ d.step = 0))
  BY <1>1 DEF Moves
<1> HIDE DEF c, d
<1>5. d.at = "down" /\ Has(d, d.pos, "limit") => d.step \notin {2, 7}
  BY <1>2, <1>3, <1>4 DEF Has
<1>6. d.at = "down" => c.at = "down" /\ ~(Has(c, c.pos, "stats") /\ c.step = 2)
  <2>1. CASE d.pos = c.pos
    BY <1>2, <1>4, <2>1 DEF Has
  <2>2. ASSUME d.at = "down", d.pos = c.pos + 1
        PROVE  ~Has(c, c.pos, "stats")
    <3>1. d.pos \in 1..Len(Chain[c.route]) /\ c.at = "down"
      BY <1>1, <1>3, <1>4, <2>2 DEF RequestOK, Placed
    <3>2. c.pos \in 1..Len(Chain[c.route]) /\ c.route \in Routes
      BY <1>1, <3>1 DEF RequestOK, Placed
    <3>3. c.pos # Len(Chain[c.route])
      BY <1>3, <2>2, <3>1
    <3> QED
      BY <3>2, <3>3, ChainAssumption DEF Has, Last
  <2> QED
    BY <1>4, <2>1, <2>2
<1>7. RequestsOK' /\ SharedOK'
  BY <1>1, <1>2, OthersSame DEF RequestInv, SharedOK
<1>8. CountsOK'
  BY <1>1, <1>2, SameCounts, CountsKept DEF RequestInv, c, d
<1>9. BucketsOK'
  BY <1>1, <1>2, <1>5, BucketsKept DEF RequestInv, c, d, Plain
<1>10. (\A q \in Requests : SeenOK(ctx[q]))'
  <2>1. stats'.requests \in Nat /\ stats'.requests >= stats.requests
    BY <1>2 DEF RequestInv, SharedOK
  <2> QED
    BY <1>1, <1>6, <2>1, SeenKept DEF RequestInv, c, d, Plain
<1> QED
  BY <1>7, <1>8, <1>9, <1>10 DEF RequestInv

LEMMA ArriveInv ==
  ASSUME RequestInv, NEW r \in Requests, Arrive(r)
  PROVE  RequestInv'
<1> DEFINE c == ctx[r]
           d == ctx'[r]
<1>1. PICK call \in Calls[r] :
        Only(r, [Blank EXCEPT !.at = "down", !.route = call[1], !.in = call[2],
                              !.rest = call[2].body])
  BY DEF Arrive
<1>2. PICK x \in Routes, in \in Brings : x = call[1] /\ in = call[2]
  BY RequestAssumption
<1>3. /\ d = Arrived(x, in)
      /\ ctx' = [ctx EXCEPT ![r] = d] /\ UNCHANGED <<stats, limiter, deadline, sweeping, buckets, time, found>>
      /\ c.at = "idle"
  BY <1>1, <1>2 DEF Arrived, Only, limitvars, Put, RequestInv, RequestsOK, Arrive
<1>4. /\ RequestOK(d) /\ d.at = "down" /\ d.pos = 1 /\ d.step = 0
      /\ ~d.leaked /\ d.bucket = 0 /\ d.took = {} /\ d.seen = <<0, 0>>
  <2>1. x \in Routes /\ in \in Brings
    BY <1>2
  <2>2. d = Arrived(x, in)
    BY <1>3
  <2> HIDE DEF d
  <2> QED
    BY <2>1, <2>2, ArriveOK
<1> HIDE DEF c, d
<1>5. Changes(r) /\ RequestsOK /\ SharedOK /\ CountsOK /\ BucketsOK
  BY <1>3, <1>4 DEF Changes, RequestInv, d
<1>6. RequestsOK' /\ SharedOK'
  BY <1>3, <1>5, OthersSame DEF SharedOK
<1>7. CountsOK'
  <2>1. ~Counts(c) /\ ~Half(c)
    BY <1>3 DEF Counts, Half
  <2>2. ~Counts(d) /\ ~Half(d)
    BY <1>4 DEF Counts, Half
  <2>3. stats' = stats
    BY <1>3
  <2> QED
    BY <1>5, <2>1, <2>2, <2>3, CountsKept DEF c, d
<1>8. BucketsOK'
  <2>1. \A q \in Requests : ctx'[q].took \in {ctx[q].took, {}}
                            /\ ctx'[q].bucket \in {ctx[q].bucket, 0}
    BY <1>4, <1>5, OthersSame DEF d
  <2>2. ASSUME NEW q \in Requests
        PROVE  BucketOK(ctx[q])'
    <3>1. CASE q = r
      BY <1>4, <3>1 DEF BucketOK, d
    <3>2. CASE q # r
      BY <1>3, <1>5, <3>2, OthersSame DEF BucketsOK, BucketOK, Has
    <3> QED
      BY <3>1, <3>2
  <2>3. \A q \in Requests : \A t \in ctx'[q].took : TokenOK(t)'
    BY <1>3, <1>5, <2>1 DEF BucketsOK, TokenOK
  <2>4. \A r1, r2 \in Requests : \A t1 \in ctx'[r1].took, t2 \in ctx'[r2].took :
          t1[2] = t2[2] /\ t1[3] = t2[3] => r1 = r2
    BY <1>5, <2>1 DEF BucketsOK
  <2>5. \A k \in Clients : limiter'[k] # 0 => limiter'[k] \in 2..Len(buckets')
    BY <1>3, <1>5 DEF BucketsOK
  <2>6. ASSUME NEW k \in Clients
        PROVE  FoundOK(k)'
    <3>1. Former(k)' \subseteq Former(k)
      BY <1>3, <2>1 DEF Former, Holds
    <3>2. ~Deletes(ctx'[r])
      BY <1>4 DEF Deletes, d
    <3>3. FoundOK(k) /\ found[k] \in Nat /\ Len(buckets) \in Nat
      BY <1>5 DEF BucketsOK, SharedOK
    <3> QED
      BY <1>3, <1>5, <3>1, <3>2, <3>3, FoundKept
  <2> QED
    BY <2>2, <2>3, <2>4, <2>5, <2>6 DEF BucketsOK
<1>9. (\A q \in Requests : SeenOK(ctx[q]))'
  <2>1. ASSUME NEW q \in Requests
        PROVE  SeenOK(ctx[q])'
    <3>1. CASE q = r
      <4>1. stats'.requests \in Nat
        BY <1>3, <1>5 DEF SharedOK
      <4> QED
        BY <1>4, <3>1, <4>1 DEF SeenOK, d
    <3>2. CASE q # r
      BY <1>3, <1>5, <3>2, OthersSame DEF RequestInv, SeenOK, Has
    <3> QED
      BY <3>1, <3>2
  <2> QED
    BY <2>1
<1> QED
  BY <1>6, <1>7, <1>8, <1>9 DEF RequestInv

LEMMA GaugeMoves ==
  ASSUME SharedOK, UNCHANGED <<limiter, deadline, sweeping, buckets, time, found>>, NEW n \in Int, Count("gauge", n)
  PROVE  stats'.requests = stats.requests /\ stats'.gauge = stats.gauge + n /\ SharedOK'
<1>1. stats.gauge \in Int
  BY DEF SharedOK
<1>2. PICK g \in Int : g = stats.gauge + n
  BY <1>1
<1>3. stats' = [stats EXCEPT !.gauge = g]
  BY <1>2 DEF Count
<1>4. /\ stats' \in [requests : Nat, gauge : Int, responses : Nat]
      /\ stats'.requests = stats.requests /\ stats'.gauge = g
  BY <1>3 DEF SharedOK
<1> QED
  BY <1>2, <1>4 DEF SharedOK

\* Metrics, on the way down and up.
LEMMA MetricsInv ==
  ASSUME RequestInv, NEW r \in Requests, CountIn(r) \/ CountOut(r)
  PROVE  RequestInv'
<1> DEFINE c == ctx[r]
           d == ctx'[r]
           one == [c EXCEPT !.step = 1]
<1>1. /\ RequestOK(c) /\ c \in Context /\ c.pos \in Nat \ {0} /\ c.at \in {"down", "up"}
      /\ Chain[c.route][c.pos] = "metrics" /\ ctx \in [Requests -> Context]
      /\ UNCHANGED <<limiter, deadline, sweeping, buckets, time, found>>
  <2>1. /\ c.at \in {"down", "up"} /\ Chain[c.route][c.pos] = "metrics" /\ c.pos > 0
        /\ UNCHANGED <<limiter, deadline, sweeping, buckets, time, found>>
    BY DEF CountIn, CountOut, limitvars, Down, At, Handler
  <2>2. RequestOK(c) /\ ctx \in [Requests -> Context]
    BY DEF RequestInv, RequestsOK
  <2>3. c \in Context /\ c.pos \in Nat
    BY <2>2 DEF RequestOK, Context
  <2> QED
    BY <2>1, <2>2, <2>3
<1>2. Has(c, c.pos, "metrics") /\ c.pos \in 1..Len(Chain[c.route]) /\ c.route \in Routes
  BY <1>1, Positions DEF Has, RequestOK, Placed
<1>3. \A i : Has(c, i, "metrics") => i = c.pos
  BY <1>2, ChainAssumption DEF Has
<1>4. ~c.leaked
  BY <1>1, <1>2, <1>3 DEF RequestOK, Counted
<1>5. RequestOK(one) /\ Kept(c, one) /\ Plain(c, one) /\ one.step = 1
  <2>1. one \in Context
    BY <1>1, SteppedTyped
  <2>2. Kept(c, one) /\ Plain(c, one) /\ one.step = 1
    BY <1>1, <2>1, ZenonT(40) DEF Kept, Carried, Plain, Context
  <2> HIDE DEF one
  <2> QED
    BY <1>1, <2>2, KeptOK
<1>6. RequestsOK /\ SharedOK /\ CountsOK /\ BucketsOK /\ \A q \in Requests : SeenOK(ctx[q])
  BY DEF RequestInv
<1>7. /\ stats.requests \in Nat /\ stats.gauge \in Int /\ stats.responses \in Nat
      /\ Cardinality(Counting) \in Nat /\ Cardinality(Halves) \in Nat
  BY <1>6, SetsFinite DEF SharedOK
<1> HIDE DEF c, d, one
\* What the four steps have in common.
<1>8. ASSUME Changes(r), Plain(c, d), SharedOK', CountsOK',
             d.at = "down" => c.at = "down" /\ d.step \in {0, 1},
             stats'.requests \in Nat, stats'.requests >= stats.requests
      PROVE  RequestInv'
  <2>1. RequestsOK'
    BY <1>6, <1>8, OthersSame
  <2>2. BucketsOK'
    BY <1>1, <1>6, <1>8, BucketsKept DEF Plain, c, d
  <2>3. (\A q \in Requests : SeenOK(ctx[q]))'
    BY <1>1, <1>6, <1>8, SeenKept DEF Plain, Has, c, d
  <2> QED
    BY <1>8, <2>1, <2>2, <2>3 DEF RequestInv
<1>9. CASE CountIn(r) /\ c.step = 0
  <2>1. c.at = "down" /\ d = one /\ ctx' = [ctx EXCEPT ![r] = d] /\ Count("requests", 1)
    BY <1>1, <1>9 DEF CountIn, limitvars, Down, At, Put, c, d, one
  <2>2. Changes(r)
    BY <1>5, <2>1 DEF Changes, d
  <2>3. d.at = "down" /\ d.pos = c.pos /\ d.route = c.route /\ ~d.leaked
    BY <1>4, <1>5, <2>1 DEF Kept, Carried
  <2>4. ~Counts(c) /\ ~Counts(d) /\ ~Half(c) /\ Half(d)
    BY <1>1, <1>2, <1>3, <1>4, <1>5, <1>9, <2>1, <2>3 DEF Counts, Half, Has
  <2>5. Counting' = Counting /\ Halves' = Halves \cup {r} /\ r \notin Halves
    BY <1>6, <2>2, <2>4, SetsSame DEF Counting, Halves, c, d
  <2>6. Cardinality(Halves') = Cardinality(Halves) + 1
    BY <2>5, SetsFinite, FS_AddElement
  <2>7. stats' = [stats EXCEPT !.requests = @ + 1]
    BY <2>1 DEF Count
  <2>8. stats'.requests = stats.requests + 1 /\ stats'.gauge = stats.gauge /\ SharedOK'
    <3>1. /\ stats' \in [requests : Nat, gauge : Int, responses : Nat]
          /\ stats'.requests = stats.requests + 1 /\ stats'.gauge = stats.gauge
      <4>1. stats \in [requests : Nat, gauge : Int, responses : Nat]
        BY <1>6 DEF SharedOK
      <4> QED
        BY <4>1, <2>7
    <3> QED
      BY <1>1, <1>6, <3>1 DEF SharedOK
  <2>9. CountsOK'
    BY <1>6, <1>7, <2>5, <2>6, <2>8 DEF CountsOK
  <2> QED
    BY <1>5, <1>7, <1>8, <2>1, <2>2, <2>3, <2>8, <2>9
<1>10. CASE CountIn(r) /\ c.step = 1
  <2>1. c.at = "down" /\ d = Proceed(c) /\ ctx' = [ctx EXCEPT ![r] = d] /\ Count("gauge", 1)
    BY <1>1, <1>10 DEF CountIn, limitvars, Down, At, Put, c, d
  <2>2. Goes(c, d)
    BY <1>1, <2>1, ProceedOK DEF Last
  <2>3. Changes(r) /\ Plain(c, d)
    BY <2>1, <2>2 DEF Changes, Goes, d
  <2>4. d.at = "down" /\ d.pos = c.pos + 1 /\ d.step = 0 /\ d.route = c.route /\ ~d.leaked
    BY <1>1, <1>4, <2>1, <2>2, ProceedShape DEF Carried
  <2>5. ~Counts(c) /\ Counts(d) /\ Half(c) /\ ~Half(d)
    BY <1>1, <1>2, <1>3, <1>4, <1>10, <2>1, <2>4 DEF Counts, Half, Has
  <2>6. /\ Counting' = Counting \cup {r} /\ r \notin Counting
        /\ Halves' = Halves \ {r} /\ r \in Halves
    BY <1>6, <2>3, <2>5, SetsSame DEF Counting, Halves, c, d
  <2>7. /\ Cardinality(Counting') = Cardinality(Counting) + 1
        /\ Cardinality(Halves') = Cardinality(Halves) - 1
    BY <2>6, SetsFinite, FS_AddElement, FS_RemoveElement
  <2>8. stats'.requests = stats.requests /\ stats'.gauge = stats.gauge + 1 /\ SharedOK'
    BY <1>1, <1>6, <2>1, GaugeMoves
  <2>9. CountsOK'
    BY <1>6, <1>7, <2>7, <2>8 DEF CountsOK
  <2> QED
    BY <1>7, <1>8, <2>1, <2>3, <2>4, <2>8, <2>9
<1>11. CASE CountOut(r) /\ c.step = 0
  <2>1. c.at = "up" /\ d = one /\ ctx' = [ctx EXCEPT ![r] = d] /\ Count("gauge", -1)
    BY <1>1, <1>11 DEF CountOut, limitvars, CountDown, At, Put, c, d, one
  <2>2. Changes(r)
    BY <1>5, <2>1 DEF Changes, d
  <2>3. d.at = "up" /\ d.pos = c.pos /\ d.route = c.route /\ ~d.leaked
    BY <1>4, <1>5, <2>1 DEF Kept, Carried
  <2>4. Counts(c) /\ ~Counts(d) /\ ~Half(c) /\ ~Half(d)
    BY <1>1, <1>2, <1>3, <1>4, <1>5, <1>11, <2>1, <2>3 DEF Counts, Half, Has
  <2>5. Counting' = Counting \ {r} /\ r \in Counting /\ Halves' = Halves
    BY <1>6, <2>2, <2>4, SetsSame DEF Counting, Halves, c, d
  <2>6. Cardinality(Counting') = Cardinality(Counting) - 1
    BY <2>5, SetsFinite, FS_RemoveElement
  <2>7. /\ stats'.requests = stats.requests /\ stats'.gauge = stats.gauge + (-1) /\ SharedOK'
        /\ -1 \in Int
    BY <1>1, <1>6, <2>1, GaugeMoves
  <2>8. CountsOK'
    BY <1>6, <1>7, <2>5, <2>6, <2>7 DEF CountsOK
  <2> QED
    BY <1>5, <1>7, <1>8, <2>1, <2>2, <2>3, <2>7, <2>8
<1>12. CASE CountOut(r) /\ c.step = 1
  <2>1. c.at = "up" /\ d = Back(c) /\ ctx' = [ctx EXCEPT ![r] = d] /\ Count("responses", 1)
    BY <1>1, <1>12 DEF CountOut, limitvars, CountResponse, At, Put, c, d
  <2>2. Goes(c, d)
    BY <1>1, <2>1, ReturnOK
  <2>3. Changes(r) /\ Plain(c, d)
    BY <2>1, <2>2 DEF Changes, Goes, d
  <2>4. d.at = "up" /\ d.pos = c.pos - 1 /\ d.step = 0 /\ d.route = c.route /\ ~d.leaked
    BY <1>1, <1>4, <2>1, <2>2, BackShape DEF Carried
  <2>5. ~Counts(c) /\ ~Counts(d) /\ ~Half(c) /\ ~Half(d)
    BY <1>1, <1>2, <1>3, <1>4, <1>12, <2>1, <2>4 DEF Counts, Half, Has
  <2>6. stats' = [stats EXCEPT !.responses = @ + 1]
    BY <2>1 DEF Count
  <2>7. stats'.requests = stats.requests /\ stats'.gauge = stats.gauge /\ SharedOK'
    <3>1. /\ stats' \in [requests : Nat, gauge : Int, responses : Nat]
          /\ stats'.requests = stats.requests /\ stats'.gauge = stats.gauge
      <4>1. stats \in [requests : Nat, gauge : Int, responses : Nat]
        BY <1>6 DEF SharedOK
      <4> QED
        BY <4>1, <2>6
    <3> QED
      BY <1>1, <1>6, <3>1 DEF SharedOK
  <2>8. CountsOK'
    BY <1>6, <2>3, <2>5, <2>7, CountsKept DEF c, d
  <2> QED
    BY <1>7, <1>8, <2>1, <2>3, <2>4, <2>7, <2>8
<1> QED
  BY <1>9, <1>10, <1>11, <1>12 DEF CountIn, CountOut, limitvars, c

\* getMetricsAPI.
LEMMA StatsInv ==
  ASSUME RequestInv, NEW r \in Requests, GetMetricsAPI(r)
  PROVE  RequestInv'
<1> DEFINE c == ctx[r]
           d == ctx'[r]
<1>1. /\ c.at = "down" /\ c.pos > 0 /\ Chain[c.route][c.pos] = "stats"
      /\ RequestsOK /\ SharedOK /\ CountsOK /\ BucketsOK /\ SeenOK(c)
  BY DEF GetMetricsAPI, limitvars, Down, At, Handler, RequestInv
<1>2. RequestOK(c) /\ ctx \in [Requests -> Context]
  BY <1>1 DEF RequestsOK
<1>3. c \in Context /\ c.pos \in 1..Len(Chain[c.route]) /\ Has(c, c.pos, "stats")
  BY <1>1, <1>2, Positions DEF RequestOK, Has
<1>4. CASE c.step = 2
  <2>1. 200 \in Nat /\ "ok" \in Answers /\ Only(r, Back(Json(c, 200, "ok")))
    BY <1>4 DEF Answers, GetMetricsAPI, limitvars
  <2> QED
    BY <1>1, <2>1, AnswerQuiet, QuietInv DEF Handler
<1>5. PICK g, n \in Int : g = c.seen[1] /\ n = c.seen[2] /\ c.seen = <<g, n>>
  <2>1. c.seen \in Int \X Int
    BY <1>3 DEF Context
  <2> QED
    BY <2>1
<1>6. stats.gauge \in Int /\ stats.requests \in Nat
  BY <1>1 DEF SharedOK
<1>7. ASSUME NEW s \in Int \X Int, NEW m \in {1, 2},
             ctx' = [ctx EXCEPT ![r] = [c EXCEPT !.seen = s, !.step = m]],
             UNCHANGED <<stats, limiter, deadline, sweeping, buckets, time, found>>,
             s[1] <= stats.requests, s[2] > 0 => s[1] <= s[2], m # 2 => s[2] = 0
      PROVE  RequestInv'
  <2>1. d = [c EXCEPT !.seen = s, !.step = m] /\ ctx' = [ctx EXCEPT ![r] = d]
    BY <1>2, <1>7
  <2> HIDE DEF c, d
  <2>2. d \in Context
    <3>1. PICK k \in Nat : k = m
      BY <1>7
    <3> QED
      BY <1>3, <1>7, <2>1, <3>1, SeenTyped
  <2>3. /\ Kept(c, d) /\ d.seen = s /\ d.step = m
        /\ d.bucket = c.bucket /\ d.took = c.took
    <3>1. c \in Context /\ d = [c EXCEPT !.seen = s, !.step = m]
      BY <1>3, <2>1
    <3>2. d.seen = s /\ d.step = m /\ d.bucket = c.bucket /\ d.took = c.took
      BY <3>1 DEF Context
    <3>3. /\ d.route = c.route /\ d.in = c.in /\ d.status = c.status
          /\ d.flushed = c.flushed /\ d.buffered = c.buffered /\ d.held = c.held
          /\ d.sent = c.sent /\ d.rest = c.rest /\ d.got = c.got /\ d.ran = c.ran
          /\ d.panicked = c.panicked /\ d.leaked = c.leaked
      BY <3>1 DEF Context
    <3>4. d.at = c.at /\ d.pos = c.pos
      BY <3>1 DEF Context
    <3> QED
      BY <2>2, <3>2, <3>3, <3>4 DEF Kept, Carried
  <2>4. d.at = "down" /\ d.pos = c.pos /\ d.route = c.route /\ (d.leaked <=> c.leaked)
    BY <1>1, <2>3 DEF Kept, Carried, c
  <2>5. RequestOK(d)
    BY <1>2, <1>3, <2>3, KeptOK DEF Has
  <2>6. Changes(r)
    BY <2>1, <2>5 DEF Changes, d
  <2>7. RequestsOK' /\ SharedOK'
    BY <1>1, <1>7, <2>6, OthersSame DEF SharedOK
  <2>8. (Counts(d) <=> Counts(c)) /\ (Half(d) <=> Half(c))
    <3>1. Moves(c, d) /\ Chain[c.route][c.pos] # "metrics"
      BY <1>3, <2>4, <1>1 DEF Moves, Has, c
    <3> QED
      BY <1>2, <2>5, <3>1, SameCounts DEF c
  <2>9. CountsOK'
    BY <1>1, <1>7, <2>6, <2>8, CountsKept DEF c, d
  <2>10. BucketsOK'
    <3>1. ~Has(d, d.pos, "limit")
      BY <1>3, <2>4 DEF Has
    <3> QED
      BY <1>1, <1>7, <2>3, <2>6, <3>1, BucketsKept DEF c, d
  <2>11. ASSUME NEW q \in Requests
         PROVE  SeenOK(ctx[q])'
    <3>1. CASE q = r
      BY <1>3, <1>7, <2>3, <2>4, <3>1 DEF SeenOK, Has, d
    <3>2. CASE q # r
      BY <1>1, <1>7, <2>6, <3>2, OthersSame DEF RequestInv, SeenOK, Has
    <3> QED
      BY <3>1, <3>2
  <2> QED
    BY <2>7, <2>9, <2>10, <2>11 DEF RequestInv
<1>8. CASE c.step = 0
  <2>1. ctx' = [ctx EXCEPT ![r] = [c EXCEPT !.seen[1] = stats.gauge, !.step = 1]]
        /\ UNCHANGED <<stats, limiter, deadline, sweeping, buckets, time, found>>
    BY <1>8 DEF GetMetricsAPI, Only, limitvars, Put
  <2>2. [c EXCEPT !.seen[1] = stats.gauge, !.step = 1]
         = [c EXCEPT !.seen = <<stats.gauge, n>>, !.step = 1]
    <3>1. [c.seen EXCEPT ![1] = stats.gauge] = <<stats.gauge, n>>
      BY <1>5
    <3> QED
      BY <3>1
  <2>3. n = 0
    BY <1>1, <1>5, <1>8 DEF SeenOK
  <2>4. stats.gauge <= stats.requests
    BY <1>1, <1>6, SetsFinite DEF CountsOK
  <2>5. <<stats.gauge, 0>> \in Int \X Int
    BY <1>6
  <2>6. ctx' = [ctx EXCEPT ![r] = [c EXCEPT !.seen = <<stats.gauge, 0>>, !.step = 1]]
    BY <2>1, <2>2, <2>3
  <2>7. PICK s \in Int \X Int : s = <<stats.gauge, 0>>
    BY <2>5
  <2>8. s[1] <= stats.requests /\ s[2] = 0
    BY <2>4, <2>7
  <2>9. ctx' = [ctx EXCEPT ![r] = [c EXCEPT !.seen = s, !.step = 1]]
    BY <2>6, <2>7
  <2>10. UNCHANGED <<stats, limiter, deadline, sweeping, buckets, time, found>>
    BY <2>1
  <2>11. s[2] > 0 => s[1] <= s[2]
    BY <2>8
  <2> QED
    BY <1>7, <2>8, <2>9, <2>10, <2>11
<1>9. CASE c.step = 1
  <2>1. ctx' = [ctx EXCEPT ![r] = [c EXCEPT !.seen[2] = stats.requests, !.step = 2]]
        /\ UNCHANGED <<stats, limiter, deadline, sweeping, buckets, time, found>>
    BY <1>9 DEF GetMetricsAPI, Only, limitvars, Put
  <2>2. [c EXCEPT !.seen[2] = stats.requests, !.step = 2]
         = [c EXCEPT !.seen = <<g, stats.requests>>, !.step = 2]
    <3>1. [c.seen EXCEPT ![2] = stats.requests] = <<g, stats.requests>>
      BY <1>5
    <3> QED
      BY <3>1
  <2>3. g <= stats.requests
    BY <1>1, <1>5 DEF SeenOK
  <2>4. <<g, stats.requests>> \in Int \X Int
    BY <1>5, <1>6
  <2>5. ctx' = [ctx EXCEPT ![r] = [c EXCEPT !.seen = <<g, stats.requests>>, !.step = 2]]
    BY <2>1, <2>2
  <2> QED
    BY <1>7, <2>1, <2>3, <2>4, <2>5
<1> QED
  BY <1>4, <1>8, <1>9 DEF GetMetricsAPI, limitvars

\* A request gets the bucket of its client, the old one or a new one.
HandsOut(r, b, m) ==
  /\ ctx' = [ctx EXCEPT ![r] = [ctx[r] EXCEPT !.bucket = b, !.step = m]]
  /\ b = limiter'[Client[r]] /\ m \in {5, 7} /\ (m = 7 => b # 0)
  /\ \/ UNCHANGED <<buckets, limiter>>
     \/ /\ limiter[Client[r]] = 0 /\ buckets' = Append(buckets, Burst)
        /\ limiter' = [limiter EXCEPT ![Client[r]] = Len(buckets) + 1]
  /\ UNCHANGED <<stats, deadline, sweeping, time, found>>

LEMMA HandsOutInv ==
  ASSUME RequestInv, NEW r \in Requests, NEW b \in Nat, NEW m \in Nat,
         ctx[r].at = "down", ctx[r].pos > 0, Handler(r) = "limit", HandsOut(r, b, m)
  PROVE  RequestInv'
<1> DEFINE c == ctx[r]
           d == ctx'[r]
           k0 == Client[r]
<1>1. /\ RequestsOK /\ SharedOK /\ CountsOK /\ BucketsOK /\ \A q \in Requests : SeenOK(ctx[q])
      /\ RequestOK(c) /\ ctx \in [Requests -> Context] /\ c \in Context /\ k0 \in Clients
  BY DEF RequestInv, RequestsOK, RequestOK, Clients
<1>2. /\ d = [c EXCEPT !.bucket = b, !.step = m] /\ ctx' = [ctx EXCEPT ![r] = d]
      /\ c.at = "down" /\ c.pos > 0 /\ Chain[c.route][c.pos] = "limit"
  BY <1>1 DEF HandsOut, Handler
<1> HIDE DEF c, d, k0
<1>3. d \in Context
  BY <1>1, <1>2, BucketTyped
<1>4. d.bucket = b /\ d.step = m /\ d.took = c.took /\ d.seen = c.seen
  BY <1>1, <1>2 DEF Context
<1>5. Kept(c, d)
  <2>1. /\ d.route = c.route /\ d.in = c.in /\ d.status = c.status
        /\ d.flushed = c.flushed /\ d.buffered = c.buffered /\ d.held = c.held
        /\ d.sent = c.sent /\ d.rest = c.rest /\ d.got = c.got /\ d.ran = c.ran
        /\ d.panicked = c.panicked /\ d.leaked = c.leaked
    BY <1>1, <1>2 DEF Context
  <2>2. d.at = c.at /\ d.pos = c.pos
    BY <1>1, <1>2 DEF Context
  <2> QED
    BY <1>3, <2>1, <2>2 DEF Kept, Carried
<1>6. RequestOK(d) /\ Moves(c, d) /\ d.at = "down" /\ d.pos = c.pos /\ d.route = c.route
  <2>1. RequestOK(d)
    BY <1>1, <1>2, <1>5, KeptOK DEF Has
  <2> QED
    BY <1>2, <1>5, <2>1 DEF Kept, Carried, Moves
<1>7. Changes(r) /\ \A q \in Requests : q # r => ctx'[q] = ctx[q]
  BY <1>1, <1>2, <1>6, OthersSame DEF Changes, d
<1>8. stats' = stats /\ UNCHANGED <<deadline, sweeping, time, found>>
  BY DEF HandsOut
<1>9. /\ buckets \in Seq(0..Burst) /\ Len(buckets) \in Nat \ {0} /\ Burst \in 0..Burst
      /\ limiter \in [Clients -> Nat]
  BY <1>1, RequestAssumption DEF SharedOK
<1>10. /\ buckets' \in Seq(0..Burst) /\ Len(buckets') \in Nat /\ Len(buckets') >= Len(buckets)
       /\ limiter' \in [Clients -> Nat]
       /\ \A i \in 1..Len(buckets) : buckets'[i] = buckets[i]
       /\ \A k \in Clients : limiter'[k] # limiter[k] =>
            k = k0 /\ limiter[k] = 0 /\ limiter'[k] = Len(buckets) + 1
                   /\ Len(buckets') = Len(buckets) + 1
  <2>1. CASE UNCHANGED <<buckets, limiter>>
    BY <1>9, <2>1
  <2>2. CASE /\ limiter[k0] = 0 /\ buckets' = Append(buckets, Burst)
             /\ limiter' = [limiter EXCEPT ![k0] = Len(buckets) + 1]
    <3>1. /\ buckets' \in Seq(0..Burst) /\ Len(buckets') = Len(buckets) + 1
          /\ \A i \in 1..Len(buckets) : buckets'[i] = buckets[i]
      BY <1>9, <2>2, AppendProperties
    <3>2. /\ limiter' \in [Clients -> Nat] /\ limiter'[k0] = Len(buckets) + 1
          /\ \A k \in Clients : k # k0 => limiter'[k] = limiter[k]
      BY <1>1, <1>9, <2>2
    <3> QED
      BY <1>9, <2>2, <3>1, <3>2
  <2> QED
    BY <2>1, <2>2 DEF HandsOut, k0
<1>11. RequestsOK' /\ SharedOK'
  BY <1>1, <1>7, <1>8, <1>9, <1>10, OthersSame, SMTT(30) DEF SharedOK
<1>12. CountsOK'
  <2>1. (Counts(d) <=> Counts(c)) /\ (Half(d) <=> Half(c))
    BY <1>1, <1>2, <1>6, SameCounts
  <2> QED
    BY <1>1, <1>7, <1>8, <2>1, CountsKept DEF c, d
<1>13. (\A q \in Requests : SeenOK(ctx[q]))'
  <2>1. stats'.requests \in Nat /\ stats'.requests >= stats.requests
    BY <1>1, <1>8 DEF SharedOK
  <2>2. c.at = "down" /\ ~Has(c, c.pos, "stats")
    BY <1>2 DEF Has
  <2> QED
    BY <1>1, <1>4, <1>7, <2>1, <2>2, SeenKept DEF c, d
<1>14. BucketsOK'
  <2>1. \A k \in Clients : limiter'[k] # 0 => limiter'[k] \in 2..Len(buckets')
    BY <1>1, <1>9, <1>10, SMTT(30) DEF BucketsOK
  <2>2. \A q \in Requests : ctx'[q].took = ctx[q].took
    BY <1>4, <1>7 DEF c, d
  <2>3. ASSUME NEW q \in Requests
        PROVE  BucketOK(ctx[q])'
    <3>1. CASE q = r
      <4>1. b = limiter'[k0] /\ (m = 7 => b # 0)
        BY DEF HandsOut, k0
      <4> QED
        BY <1>1, <1>4, <2>1, <3>1, <4>1 DEF BucketOK, d
    <3>2. CASE q # r
      <4>1. ctx'[q] = ctx[q] /\ BucketOK(ctx[q])
        BY <1>1, <1>7, <3>2 DEF BucketsOK
      <4> QED
        BY <1>9, <1>10, <4>1 DEF BucketOK, Has
    <3> QED
      BY <3>1, <3>2
  <2>4. ASSUME NEW q \in Requests, NEW t \in ctx'[q].took
        PROVE  TokenOK(t)'
    <3>1. TokenOK(t)
      BY <1>1, <2>2 DEF BucketsOK
    <3>2. t[2] \in 1..Len(buckets)
      BY <1>9, <3>1 DEF TokenOK
    <3>3. buckets'[t[2]] = buckets[t[2]]
      BY <1>10, <3>2
    <3>4. t[2] \in 2..Len(buckets) => t[2] \in 2..Len(buckets')
      BY <1>9, <1>10, <3>2
    <3> QED
      BY <3>1, <3>3, <3>4 DEF TokenOK
  <2>5. \A r1, r2 \in Requests : \A t1 \in ctx'[r1].took, t2 \in ctx'[r2].took :
          t1[2] = t2[2] /\ t1[3] = t2[3] => r1 = r2
    BY <1>1, <2>2 DEF BucketsOK
  <2>6. ASSUME NEW k \in Clients
        PROVE  FoundOK(k)'
    <3>1. ASSUME NEW x \in Former(k)'
          PROVE  x \in Former(k)
      <4>1. x \in 2..Len(buckets') /\ x # limiter'[k] /\ Holds(k, x)'
        BY <3>1 DEF Former
      <4>2. PICK q \in Requests : Client[q] = k /\
              (ctx'[q].bucket = x \/ \E t \in ctx'[q].took : t[1] = "limit" /\ t[2] = x)
        BY <4>1 DEF Holds
      <4>3. CASE ctx'[q].bucket = x
        <5>1. q # r
          BY <1>4, <4>1, <4>2, <4>3 DEF HandsOut, d
        <5>2. ctx[q].bucket = x /\ BucketOK(ctx[q])
          BY <1>1, <1>7, <4>3, <5>1 DEF BucketsOK
        <5>3. Holds(k, x) /\ x \in 2..Len(buckets)
          BY <4>1, <4>2, <5>2 DEF Holds, BucketOK
        <5> QED
          BY <1>10, <4>1, <5>3 DEF Former
      <4>4. CASE \E t \in ctx'[q].took : t[1] = "limit" /\ t[2] = x
        <5>1. PICK t \in ctx[q].took : t[1] = "limit" /\ t[2] = x
          BY <2>2, <4>4
        <5>2. TokenOK(t)
          BY <1>1 DEF BucketsOK
        <5>3. Holds(k, x) /\ x \in 2..Len(buckets)
          BY <4>2, <5>1, <5>2 DEF Holds, TokenOK
        <5> QED
          BY <1>10, <4>1, <5>3 DEF Former
      <4> QED
        BY <4>2, <4>3, <4>4
    <3>2. ~Deletes(ctx'[r])
      BY <1>4 DEF Deletes, HandsOut, d
    <3>3. FoundOK(k) /\ found[k] \in Nat
      BY <1>1 DEF BucketsOK, SharedOK
    <3> QED
      BY <1>1, <1>7, <1>8, <1>9, <3>1, <3>2, <3>3, FoundKept
  <2> QED
    BY <2>1, <2>3, <2>4, <2>5, <2>6 DEF BucketsOK
<1> QED
  BY <1>11, <1>12, <1>13, <1>14 DEF RequestInv

\* A token is taken.
Takes(r, h, b) ==
  /\ ctx' = [ctx EXCEPT ![r] = Proceed([ctx[r] EXCEPT !.took = @ \cup {<<h, b, buckets[b]>>}])]
  /\ buckets[b] > 0 /\ buckets' = [buckets EXCEPT ![b] = @ - 1]
  /\ UNCHANGED <<stats, limiter, deadline, sweeping, time, found>>

LEMMA TakesInv ==
  ASSUME RequestInv, NEW r \in Requests, NEW h, NEW b \in 1..Len(buckets),
         ctx[r].at = "down", ctx[r].pos > 0, Handler(r) = h, Takes(r, h, b),
         (h = "limit" /\ b >= 2 /\ b = ctx[r].bucket) \/ (h = "rate" /\ b = 1)
  PROVE  RequestInv'
<1> DEFINE c == ctx[r]
           n == buckets[b]
           token == <<h, b, n>>
           e == [c EXCEPT !.took = c.took \cup {token}]
           d == ctx'[r]
<1>1. /\ RequestsOK /\ SharedOK /\ CountsOK /\ BucketsOK /\ \A q \in Requests : SeenOK(ctx[q])
      /\ RequestOK(c) /\ ctx \in [Requests -> Context] /\ c \in Context
  BY DEF RequestInv, RequestsOK, RequestOK
<1>2. /\ d = Proceed(e) /\ ctx' = [ctx EXCEPT ![r] = d]
      /\ c.at = "down" /\ c.pos > 0 /\ Chain[c.route][c.pos] = h
  BY <1>1 DEF Takes, Handler
<1>3. /\ buckets \in Seq(0..Burst) /\ Len(buckets) \in Nat \ {0} /\ Burst \in Nat
      /\ b \in Nat /\ n \in 1..Burst
  BY <1>1, RequestAssumption, ElementOfSeq, SMTT(30) DEF SharedOK, Takes
<1>4. /\ buckets' \in Seq(0..Burst) /\ Len(buckets') = Len(buckets) /\ buckets'[b] = n - 1
      /\ \A i \in 1..Len(buckets) : i # b => buckets'[i] = buckets[i]
  <2>1. buckets' = [buckets EXCEPT ![b] = n - 1] /\ n - 1 \in 0..Burst
    BY <1>3 DEF Takes
  <2> QED
    BY <1>3, <2>1, ExceptSeq
<1> HIDE DEF c, d, e, n
<1>5. e \in Context
  <2>1. token \in Handlers \X Nat \X Nat
    BY <1>3 DEF Handlers
  <2>2. c.took \in SUBSET (Handlers \X Nat \X Nat)
    BY <1>1 DEF Context
  <2> HIDE DEF token
  <2>3. c.took \cup {token} \in SUBSET (Handlers \X Nat \X Nat)
    BY <2>1, <2>2
  <2> QED
    BY <1>1, <2>3, TookTyped DEF e
<1>6. /\ e.took = c.took \cup {token} /\ e.bucket = c.bucket /\ e.seen = c.seen
      /\ e.step = c.step /\ e.at = c.at /\ e.pos = c.pos
  BY <1>1 DEF Context, e
<1>7. Kept(c, e)
  <2>1. /\ e.route = c.route /\ e.in = c.in /\ e.status = c.status
        /\ e.flushed = c.flushed /\ e.buffered = c.buffered /\ e.held = c.held
        /\ e.sent = c.sent /\ e.rest = c.rest /\ e.got = c.got /\ e.ran = c.ran
        /\ e.panicked = c.panicked /\ e.leaked = c.leaked
    BY <1>1 DEF Context, e
  <2> QED
    BY <1>5, <1>6, <2>1 DEF Kept, Carried
<1>8. e.route = c.route /\ (e.leaked <=> c.leaked)
  BY <1>7 DEF Kept, Carried
<1>9. RequestOK(e)
  BY <1>1, <1>2, <1>6, <1>7, KeptOK DEF Has
<1>10. Goes(e, d)
  BY <1>2, <1>6, <1>8, <1>9, ProceedOK DEF Last
<1>11. RequestOK(d) /\ Moves(c, d) /\ d.took = c.took \cup {token}
       /\ d.bucket = c.bucket /\ d.seen = c.seen
  BY <1>6, <1>8, <1>10 DEF Goes, Moves, Plain
<1>12. d.at = "down" /\ d.step = 0
  <2>1. d.at = e.at /\ d.step = 0
    BY <1>2, <1>5, ProceedShape
  <2> QED
    BY <1>2, <1>6, <2>1
<1>13. Changes(r) /\ \A q \in Requests : q # r => ctx'[q] = ctx[q]
  BY <1>1, <1>2, <1>11, OthersSame DEF Changes, d
<1>14. UNCHANGED <<stats, limiter, deadline, sweeping, time, found>>
  BY DEF Takes
<1>15. RequestsOK' /\ SharedOK'
  BY <1>1, <1>3, <1>4, <1>13, <1>14, OthersSame DEF SharedOK
<1>16. CountsOK'
  <2>1. (Counts(d) <=> Counts(c)) /\ (Half(d) <=> Half(c))
    BY <1>1, <1>2, <1>11, SameCounts
  <2> QED
    BY <1>1, <1>13, <1>14, <2>1, CountsKept DEF c, d
<1>17. (\A q \in Requests : SeenOK(ctx[q]))'
  <2>1. stats'.requests \in Nat /\ stats'.requests >= stats.requests
    BY <1>1, <1>14 DEF SharedOK
  <2>2. c.at = "down" /\ ~Has(c, c.pos, "stats")
    BY <1>2 DEF Has
  <2> QED
    BY <1>1, <1>11, <1>13, <2>1, <2>2, SeenKept DEF c, d
<1>18. token[1] = h /\ token[2] = b /\ token[3] = n
  OBVIOUS
<1> HIDE DEF token
<1>19. BucketsOK'
  <2>1. \A k \in Clients : limiter'[k] # 0 => limiter'[k] \in 2..Len(buckets')
    BY <1>1, <1>4, <1>14 DEF BucketsOK
  <2>2. \A q \in Requests : ctx'[q].bucket = ctx[q].bucket
    BY <1>11, <1>13 DEF c, d
  <2>3. \A q \in Requests : \A t \in ctx'[q].took :
          (t \in ctx[q].took /\ TokenOK(t)) \/ (q = r /\ t = token)
    BY <1>1, <1>11, <1>13 DEF c, d, BucketsOK
  <2>4. ASSUME NEW q \in Requests
        PROVE  BucketOK(ctx[q])'
    <3>1. CASE q = r
      BY <1>1, <1>4, <1>12, <2>2, <3>1 DEF BucketsOK, BucketOK, d
    <3>2. CASE q # r
      <4>1. ctx'[q] = ctx[q] /\ BucketOK(ctx[q])
        BY <1>1, <1>13, <3>2 DEF BucketsOK
      <4> QED
        BY <1>4, <4>1 DEF BucketOK, Has
    <3> QED
      BY <3>1, <3>2
  <2>5. ASSUME NEW q \in Requests, NEW t \in ctx'[q].took
        PROVE  TokenOK(t)'
    <3>1. CASE TokenOK(t)
      <4>1. t[2] \in 1..Len(buckets) /\ buckets[t[2]] \in 0..Burst
        BY <1>3, <3>1, ElementOfSeq, SMTT(30) DEF TokenOK
      <4>2. CASE t[2] = b
        BY <1>3, <1>4, <3>1, <4>1, <4>2 DEF TokenOK, n
      <4>3. CASE t[2] # b
        BY <1>3, <1>4, <3>1, <4>1, <4>3 DEF TokenOK
      <4> QED
        BY <4>2, <4>3
    <3>2. CASE t = token
      BY <1>3, <1>4, <1>18, <3>2, SMTT(30) DEF TokenOK
    <3> QED
      BY <2>3, <3>1, <3>2
  <2>6. ASSUME NEW r1 \in Requests, NEW r2 \in Requests,
               NEW t1 \in ctx'[r1].took, NEW t2 \in ctx'[r2].took,
               t1[2] = t2[2], t1[3] = t2[3]
        PROVE  r1 = r2
    <3>1. ASSUME NEW t, TokenOK(t), t[2] = b
          PROVE  t[3] # n
      BY <1>3, <3>1 DEF TokenOK, n
    <3> QED
      BY <1>1, <1>18, <2>3, <2>6, <3>1 DEF BucketsOK
  <2>7. ASSUME NEW k \in Clients
        PROVE  Former(k)' = Former(k)
    <3>1. ASSUME NEW x \in 2..Len(buckets)
          PROVE  Holds(k, x)' <=> Holds(k, x)
      <4>1. ASSUME NEW q \in Requests
            PROVE  (\/ ctx'[q].bucket = x
                    \/ \E t \in ctx'[q].took : t[1] = "limit" /\ t[2] = x)
                   <=> (\/ ctx[q].bucket = x
                        \/ \E t \in ctx[q].took : t[1] = "limit" /\ t[2] = x)
        <5>1. ctx[q].took \subseteq ctx'[q].took
          BY <1>11, <1>13 DEF c, d
        <5>2. q = r /\ h = "limit" => ctx[q].bucket = b
          OBVIOUS
        <5> QED
          BY <1>18, <2>2, <2>3, <5>1, <5>2
      <4> QED
        BY <1>14, <4>1 DEF Holds
    <3> QED
      BY <1>4, <1>14, <3>1 DEF Former
  <2>8. ASSUME NEW k \in Clients
        PROVE  FoundOK(k)'
    <3>1. ~Deletes(ctx'[r])
      BY <1>12 DEF Deletes, d
    <3>2. FoundOK(k) /\ found[k] \in Nat
      BY <1>1 DEF BucketsOK, SharedOK
    <3> QED
      BY <1>1, <1>3, <1>13, <1>14, <2>7, <3>1, <3>2, FoundKept
  <2> QED
    BY <2>1, <2>4, <2>5, <2>6, <2>8 DEF BucketsOK
<1> QED
  BY <1>15, <1>16, <1>17, <1>19 DEF RequestInv

LEMMA AllowInv ==
  ASSUME RequestInv, NEW r \in Requests, NEW h, NEW b \in 1..Len(buckets),
         ctx[r].at = "down", ctx[r].pos > 0, Handler(r) = h, Allow(r, b),
         (h = "limit" /\ b >= 2 /\ b = ctx[r].bucket) \/ (h = "rate" /\ b = 1)
  PROVE  RequestInv'
<1>1. CASE Takes(r, h, b)
  BY <1>1, TakesInv
<1>2. CASE Only(r, Proceed(ctx[r]))
  BY <1>2, PlainOnward, QuietInv DEF Last, RequestInv
<1>3. CASE Only(r, AbortWithStatusJSON(ctx[r], 429))
  <2>1. 429 \in Nat /\ Handler(r) # "metrics" /\ RequestsOK
    BY DEF RequestInv
  <2> QED
    BY <1>3, <2>1, AbortQuiet, QuietInv
<1> QED
  BY <1>1, <1>2, <1>3 DEF Allow, Takes, Put

\* What is left of the limiter's invariant when only the maps of deadlines and
\* buckets and the places of those who read them change.
LEMMA LimiterMoves ==
  ASSUME RequestInv, RequestsOK', SharedOK',
         \A q \in Requests : ctx'[q].bucket = ctx[q].bucket /\ ctx'[q].took = ctx[q].took,
         \A q \in Requests : BucketOK(ctx[q])',
         UNCHANGED buckets, \A k \in Clients : limiter'[k] \in {limiter[k], 0},
         \A k \in Clients : FoundOK(k)'
  PROVE  BucketsOK'
<1>1. \A k \in Clients : limiter'[k] # 0 => limiter'[k] \in 2..Len(buckets')
  BY DEF RequestInv, BucketsOK
<1>2. \A q \in Requests : \A t \in ctx'[q].took : TokenOK(t)'
  BY DEF RequestInv, BucketsOK, TokenOK
<1>3. \A r1, r2 \in Requests : \A t1 \in ctx'[r1].took, t2 \in ctx'[r2].took :
        t1[2] = t2[2] /\ t1[3] = t2[3] => r1 = r2
  BY DEF RequestInv, BucketsOK
<1> QED
  BY <1>1, <1>2, <1>3 DEF BucketsOK

\* A bucket that is deleted is a former one from then on.
LEMMA FormerGrows ==
  ASSUME SharedOK, NEW k \in Clients, UNCHANGED buckets,
         \A q \in Requests : ctx'[q].bucket = ctx[q].bucket /\ ctx'[q].took = ctx[q].took
  PROVE  /\ limiter'[k] = limiter[k] => Former(k)' = Former(k)
         /\ limiter'[k] = 0 =>
              /\ Cardinality(Former(k)') \in Nat /\ Cardinality(Former(k)) \in Nat
              /\ Cardinality(Former(k)') <= Cardinality(Former(k)) + 1
<1>1. limiter'[k] = limiter[k] => Former(k)' = Former(k)
  BY DEF Former, Holds
<1>2. ASSUME limiter'[k] = 0
      PROVE  Former(k)' \subseteq Former(k) \cup {limiter[k]}
  BY <1>2 DEF Former, Holds
<1>3. IsFiniteSet(Former(k))
  BY FormerFinite DEF SharedOK
<1>4. /\ IsFiniteSet(Former(k) \cup {limiter[k]}) /\ Cardinality(Former(k)) \in Nat
      /\ Cardinality(Former(k) \cup {limiter[k]}) \in Nat
      /\ Cardinality(Former(k) \cup {limiter[k]}) <= Cardinality(Former(k)) + 1
  BY <1>3, OneMore
<1>5. ASSUME limiter'[k] = 0
      PROVE  Cardinality(Former(k)') <= Cardinality(Former(k) \cup {limiter[k]}) /\
             Cardinality(Former(k)') \in Nat
  BY <1>2, <1>4, <1>5, FS_Subset, FS_CardinalityType
<1> QED
  BY <1>1, <1>4, <1>5

\* A request goes from one step of Load or LoadOrStore to another.
Stands(r, x, n) ==
  /\ ctx' = [ctx EXCEPT ![r] = [ctx[r] EXCEPT !.due = x, !.step = n]]
  /\ UNCHANGED <<stats, buckets>>

LEMMA StandsInv ==
  ASSUME RequestInv, NEW r \in Requests, NEW x \in Nat, NEW n \in Nat \ {0, 7},
         ctx[r].at = "down", ctx[r].pos > 0, Handler(r) = "limit", Stands(r, x, n),
         SharedOK', \A k \in Clients : limiter'[k] \in {limiter[k], 0},
         Changes(r) /\ (Deletes(ctx'[r]) <=> n = 2)
           /\ (\A q \in Requests :
                 ctx'[q].bucket = ctx[q].bucket /\ ctx'[q].took = ctx[q].took)
         => \A k \in Clients : FoundOK(k)'
  PROVE  RequestInv'
<1> DEFINE c == ctx[r]
           d == ctx'[r]
<1>1. /\ RequestsOK /\ SharedOK /\ CountsOK /\ BucketsOK /\ \A q \in Requests : SeenOK(ctx[q])
      /\ RequestOK(c) /\ ctx \in [Requests -> Context] /\ c \in Context
  BY DEF RequestInv, RequestsOK, RequestOK
<1>2. /\ d = [c EXCEPT !.due = x, !.step = n] /\ ctx' = [ctx EXCEPT ![r] = d]
      /\ c.at = "down" /\ c.pos > 0 /\ Chain[c.route][c.pos] = "limit"
      /\ UNCHANGED <<stats, buckets>>
  BY <1>1 DEF Stands, Handler
<1>3. Has(c, c.pos, "limit")
  BY <1>1, <1>2, Positions DEF Has, RequestOK
<1> HIDE DEF c, d
<1>4. d \in Context
  BY <1>1, <1>2, DueTyped
<1>5. d.bucket = c.bucket /\ d.step = n /\ d.took = c.took /\ d.seen = c.seen
  BY <1>1, <1>2 DEF Context
<1>6. Kept(c, d)
  <2>1. /\ d.route = c.route /\ d.in = c.in /\ d.status = c.status
        /\ d.flushed = c.flushed /\ d.buffered = c.buffered /\ d.held = c.held
        /\ d.sent = c.sent /\ d.rest = c.rest /\ d.got = c.got /\ d.ran = c.ran
        /\ d.panicked = c.panicked /\ d.leaked = c.leaked
    BY <1>1, <1>2 DEF Context
  <2>2. d.at = c.at /\ d.pos = c.pos
    BY <1>1, <1>2 DEF Context
  <2> QED
    BY <1>4, <2>1, <2>2 DEF Kept, Carried
<1>7. RequestOK(d) /\ Moves(c, d) /\ d.at = "down" /\ d.pos = c.pos /\ d.route = c.route
  <2>1. RequestOK(d)
    BY <1>1, <1>2, <1>6, KeptOK DEF Has
  <2> QED
    BY <1>2, <1>6, <2>1 DEF Kept, Carried, Moves
<1>8. Changes(r) /\ \A q \in Requests : q # r => ctx'[q] = ctx[q]
  BY <1>1, <1>2, <1>7, OthersSame DEF Changes, d
<1>9. \A q \in Requests : ctx'[q].bucket = ctx[q].bucket /\ ctx'[q].took = ctx[q].took
  BY <1>5, <1>8 DEF c, d
<1>10. Deletes(d) <=> n = 2
  BY <1>3, <1>5, <1>7 DEF Deletes, Has
<1>11. RequestsOK'
  BY <1>1, <1>8, OthersSame
<1>12. CountsOK'
  <2>1. (Counts(d) <=> Counts(c)) /\ (Half(d) <=> Half(c))
    BY <1>1, <1>2, <1>7, SameCounts
  <2> QED
    BY <1>1, <1>2, <1>8, <2>1, CountsKept DEF c, d
<1>13. (\A q \in Requests : SeenOK(ctx[q]))'
  <2>1. stats'.requests \in Nat /\ stats'.requests >= stats.requests
    BY <1>1, <1>2 DEF SharedOK
  <2>2. c.at = "down" /\ ~Has(c, c.pos, "stats")
    BY <1>2 DEF Has
  <2> QED
    BY <1>1, <1>5, <1>8, <2>1, <2>2, SeenKept DEF c, d
<1>14. ASSUME NEW q \in Requests
       PROVE  BucketOK(ctx[q])'
  <2>1. CASE q = r
    BY <1>1, <1>2, <1>5, <2>1 DEF BucketsOK, BucketOK, c, d
  <2>2. CASE q # r
    BY <1>1, <1>2, <1>8, <2>2 DEF BucketsOK, BucketOK, Has
  <2> QED
    BY <2>1, <2>2
<1>15. \A k \in Clients : FoundOK(k)'
  BY <1>8, <1>9, <1>10 DEF d
<1>16. BucketsOK'
  BY <1>2, <1>9, <1>11, <1>14, <1>15, LimiterMoves
<1> QED
  BY <1>11, <1>12, <1>13, <1>16 DEF RequestInv

\* Load, and the first half of LoadOrStore.
LEMMA LoadInv ==
  ASSUME RequestInv, NEW r \in Requests,
         LimitLoad(r) \/ LimitJudge(r) \/ LimitDelete(r) \/ LimitRenew(r)
  PROVE  RequestInv'
<1> DEFINE c == ctx[r]
           k0 == Client[r]
           Same == \A q \in Requests :
                     ctx'[q].bucket = ctx[q].bucket /\ ctx'[q].took = ctx[q].took
<1>1. /\ RequestsOK /\ SharedOK /\ BucketsOK /\ RequestOK(c) /\ c \in Context /\ k0 \in Clients
      /\ ctx \in [Requests -> Context] /\ Len(buckets) \in Nat
      /\ limiter \in [Clients -> Nat] /\ deadline \in [Clients -> Nat]
      /\ found \in [Clients -> Nat] /\ time \in Nat /\ Lifetime \in Nat
      /\ \A k \in Clients : FoundOK(k)
  BY RequestAssumption DEF RequestInv, RequestsOK, RequestOK, SharedOK, BucketsOK, Clients
<1>2. c.at = "down" /\ c.pos > 0 /\ Handler(r) = "limit"
  BY DEF LimitLoad, LimitJudge, LimitDelete, LimitRenew, Limiting, Down, At
<1>3. c.due \in Nat
  BY <1>1 DEF Context
\* The steps that find and delete nothing.
<1>4. ASSUME NEW x \in Nat, NEW n \in Nat \ {0, 2, 7}, Stands(r, x, n), SharedOK',
             UNCHANGED <<limiter, sweeping, found>>
      PROVE  RequestInv'
  <2>1. ASSUME Changes(r), ~Deletes(ctx'[r]), Same, NEW k \in Clients
        PROVE  FoundOK(k)'
    <3>1. Former(k)' = Former(k)
      BY <1>1, <1>4, <2>1, FormerGrows DEF Stands
    <3> QED
      BY <1>1, <1>4, <2>1, <3>1, FoundKept
  <2> QED
    BY <1>2, <1>4, <2>1, StandsInv
<1>5. CASE LimitLoad(r)
  <2>1. PICK n \in {1, 5} : n = IF deadline[k0] = 0 THEN 5 ELSE 1
    OBVIOUS
  <2>2. Stands(r, deadline[k0], n) /\ UNCHANGED <<stats, limitvars>> /\ deadline[k0] \in Nat
    BY <1>1, <1>5, <2>1 DEF LimitLoad, Only, Put, Stands, limitvars
  <2>3. SharedOK'
    BY <1>1, <2>2 DEF SharedOK, limitvars
  <2> QED
    BY <1>4, <2>2, <2>3 DEF limitvars
<1>6. CASE LimitJudge(r)
  <2>1. CASE Only(r, [c EXCEPT !.due = 0, !.step = 4])
    <3>1. Stands(r, 0, 4) /\ UNCHANGED <<stats, limitvars>>
      BY <2>1 DEF Only, Put, Stands, limitvars
    <3>2. SharedOK'
      BY <1>1, <3>1 DEF SharedOK, limitvars
    <3> QED
      BY <1>4, <3>1, <3>2 DEF limitvars
  <2>2. CASE Find(k0) /\ Put(r, [c EXCEPT !.due = 0, !.step = 2]) /\ UNCHANGED sweeping
    <3>1. /\ Stands(r, 0, 2) /\ found' = [found EXCEPT ![k0] = @ + 1]
          /\ UNCHANGED <<stats, limiter, deadline, buckets, time, sweeping>>
      BY <2>2 DEF Find, Put, Stands
    <3>2. SharedOK'
      BY <1>1, <3>1 DEF SharedOK
    <3>3. ASSUME Changes(r), Same, NEW k \in Clients
          PROVE  FoundOK(k)'
      <4>1. Former(k)' = Former(k)
        BY <1>1, <3>1, <3>3, FormerGrows
      <4>2. Sweeps(k)' = Sweeps(k) /\ Sweeps(k) \in Nat
        BY <3>1 DEF Sweeps
      <4>3. Cardinality(Deleting(k)') <= Cardinality(Deleting(k)) + IF k = k0 THEN 1 ELSE 0
        <5>1. CASE k = k0
          <6>1. Deleting(k)' \subseteq Deleting(k) \cup {r}
            BY <1>1, <3>3, DeletingSame
          <6>2. /\ IsFiniteSet(Deleting(k) \cup {r})
                /\ Cardinality(Deleting(k) \cup {r}) \in Nat
                /\ Cardinality(Deleting(k) \cup {r}) <= Cardinality(Deleting(k)) + 1
            BY DeletingFinite, OneMore
          <6>3. Cardinality(Deleting(k)') <= Cardinality(Deleting(k) \cup {r})
                /\ Cardinality(Deleting(k)') \in Nat
            BY <6>1, <6>2, FS_Subset, FS_CardinalityType
          <6> QED
            BY <5>1, <6>2, <6>3, DeletingFinite
        <5>2. CASE k # k0
          <6>1. Deleting(k)' \subseteq Deleting(k)
            BY <1>1, <3>3, <5>2, DeletingSame
          <6>2. Cardinality(Deleting(k)') <= Cardinality(Deleting(k))
            BY <6>1, DeletingFinite, FS_Subset
          <6> QED
            BY <5>2, <6>2, DeletingFinite
        <5> QED
          BY <5>1, <5>2
      <4>4. found'[k] = found[k] + IF k = k0 THEN 1 ELSE 0
        BY <1>1, <3>1
      <4>5. FoundOK(k)' <=> Cardinality(Former(k)') + Cardinality(Deleting(k)') + Sweeps(k)'
                              <= found'[k]
        BY DEF FoundOK
      <4>6. Cardinality(Former(k)) \in Nat /\ Cardinality(Deleting(k)) \in Nat
            /\ Cardinality(Deleting(k)') \in Nat /\ found[k] \in Nat
        <5>1. Cardinality(Deleting(k)') \in Nat
          <6>1. Deleting(k)' \subseteq Requests
            BY DEF Deleting
          <6> QED
            BY <6>1, RequestAssumption, FS_Subset, FS_CardinalityType
        <5> QED
          BY <1>1, <5>1, FormerFinite, FS_CardinalityType, DeletingFinite
      <4>7. FoundOK(k)
        BY <1>1
      <4> QED
        BY <4>1, <4>2, <4>3, <4>4, <4>5, <4>6, <4>7 DEF FoundOK
    <3> QED
      BY <1>2, <3>1, <3>2, <3>3, StandsInv
  <2> QED
    BY <1>6, <2>1, <2>2 DEF LimitJudge
<1>7. CASE LimitDelete(r)
  <2>1. CASE c.step = 2 /\ DelData(k0) /\ Put(r, [c EXCEPT !.step = 3]) /\ UNCHANGED sweeping
    <3>1. /\ limiter' = [limiter EXCEPT ![k0] = 0]
          /\ UNCHANGED <<stats, deadline, buckets, time, found, sweeping>>
      BY <2>1 DEF DelData
    <3>2. Stands(r, c.due, 3)
      <4>1. [c EXCEPT !.step = 3] = [c EXCEPT !.due = c.due, !.step = 3]
        BY <1>1 DEF Context
      <4> QED
        BY <2>1, <3>1, <4>1 DEF Put, Stands
    <3>3. SharedOK'
      BY <1>1, <3>1 DEF SharedOK
    <3>4. ASSUME Changes(r), ~Deletes(ctx'[r]), Same, NEW k \in Clients
          PROVE  FoundOK(k)'
      <4>1. CASE k # k0
        <5>1. limiter'[k] = limiter[k]
          BY <1>1, <3>1, <4>1
        <5>2. Former(k)' = Former(k)
          BY <1>1, <3>1, <3>4, <5>1, FormerGrows
        <5> QED
          BY <1>1, <3>1, <3>4, <5>2, FoundKept
      <4>2. CASE k = k0
        <5>1. Has(c, c.pos, "limit")
          BY <1>1, <1>2, Positions DEF Has, Handler, RequestOK
        <5>2. r \in Deleting(k)
          BY <1>2, <2>1, <4>2, <5>1 DEF Deleting, Deletes
        <5>3. Deleting(k)' = Deleting(k) \ {r}
          BY <1>1, <3>4, DeletingSame
        <5>4. Cardinality(Deleting(k)') = Cardinality(Deleting(k)) - 1
          BY <5>2, <5>3, DeletingFinite, FS_RemoveElement
        <5>5. limiter'[k] = 0
          BY <1>1, <3>1, <4>2
        <5>6. /\ Cardinality(Former(k)') \in Nat /\ Cardinality(Former(k)) \in Nat
              /\ Cardinality(Former(k)') <= Cardinality(Former(k)) + 1
          BY <1>1, <3>1, <3>4, <5>5, FormerGrows
        <5>7. Sweeps(k)' = Sweeps(k) /\ Sweeps(k) \in Nat /\ found'[k] = found[k]
          BY <3>1 DEF Sweeps
        <5>8. FoundOK(k)' <=> Cardinality(Former(k)') + Cardinality(Deleting(k)') + Sweeps(k)'
                                <= found'[k]
          BY DEF FoundOK
        <5>9. FoundOK(k) /\ Cardinality(Deleting(k)) \in Nat /\ found[k] \in Nat
          BY <1>1, DeletingFinite
        <5> QED
          BY <5>4, <5>6, <5>7, <5>8, <5>9 DEF FoundOK
      <4> QED
        BY <4>1, <4>2
    <3>5. \A k \in Clients : limiter'[k] \in {limiter[k], 0}
      BY <1>1, <3>1
    <3> QED
      BY <1>2, <1>3, <3>2, <3>3, <3>4, <3>5, StandsInv
  <2>2. CASE DelExp(k0) /\ Put(r, [c EXCEPT !.step = 5]) /\ UNCHANGED sweeping
    <3>1. /\ deadline' = [deadline EXCEPT ![k0] = 0]
          /\ UNCHANGED <<stats, limiter, buckets, time, found, sweeping>>
      BY <2>2 DEF DelExp
    <3>2. Stands(r, c.due, 5)
      <4>1. [c EXCEPT !.step = 5] = [c EXCEPT !.due = c.due, !.step = 5]
        BY <1>1 DEF Context
      <4> QED
        BY <2>2, <3>1, <4>1 DEF Put, Stands
    <3>3. SharedOK'
      BY <1>1, <3>1 DEF SharedOK
    <3> QED
      BY <1>3, <1>4, <3>1, <3>2, <3>3
  <2> QED
    BY <1>7, <2>1, <2>2 DEF LimitDelete, Limiting
<1>8. CASE LimitRenew(r)
  <2>1. /\ deadline' = [deadline EXCEPT ![k0] = time + Lifetime]
        /\ Put(r, [c EXCEPT !.step = 6])
        /\ UNCHANGED <<stats, limiter, sweeping, buckets, time, found>>
    BY <1>8 DEF LimitRenew
  <2>2. Stands(r, c.due, 6)
    <3>1. [c EXCEPT !.step = 6] = [c EXCEPT !.due = c.due, !.step = 6]
      BY <1>1 DEF Context
    <3> QED
      BY <2>1, <3>1 DEF Put, Stands
  <2>3. SharedOK'
    <3>1. time + Lifetime \in Nat
      BY <1>1
    <3> QED
      BY <1>1, <2>1, <3>1 DEF SharedOK
  <2> QED
    BY <1>3, <1>4, <2>1, <2>2, <2>3
<1> QED
  BY <1>5, <1>6, <1>7, <1>8

\* A request comes by its bucket, and takes a token.
LEMMA LimitInv ==
  ASSUME RequestInv, NEW r \in Requests,
         LimitRead(r) \/ LimitStore(r) \/ LimitAllow(r) \/ RateLimiter(r)
  PROVE  RequestInv'
<1> DEFINE c == ctx[r]
           k == Client[r]
<1>1. /\ RequestsOK /\ SharedOK /\ BucketsOK /\ RequestOK(c) /\ c \in Context /\ k \in Clients
      /\ limiter[k] \in Nat /\ Len(buckets) \in Nat \ {0}
  BY DEF RequestInv, RequestsOK, RequestOK, SharedOK, Clients
<1>2. c.at = "down" /\ c.pos > 0 /\ Handler(r) \in {"limit", "rate"}
  BY DEF LimitRead, LimitStore, LimitAllow, RateLimiter, Limiting, Down, At
<1>3. CASE LimitRead(r)
  <2>1. PICK m \in Nat : m = IF limiter[k] = 0 THEN 5 ELSE 7
    OBVIOUS
  <2>2. HandsOut(r, limiter[k], m) /\ Handler(r) = "limit"
    BY <1>3, <2>1 DEF LimitRead, Only, limitvars, Put, HandsOut, Limiting, Down, At
  <2> QED
    BY <1>1, <1>2, <2>2, HandsOutInv
<1>4. CASE LimitStore(r)
  <2>1. Handler(r) = "limit" /\ 7 \in Nat /\ Len(buckets) + 1 \in Nat
    BY <1>1, <1>4 DEF LimitStore, Limiting, Down, At
  <2>2. CASE limiter[k] = 0 /\ NewBucket(r)
    <3>1. HandsOut(r, Len(buckets) + 1, 7)
      BY <1>1, <2>2 DEF NewBucket, Put, HandsOut, SharedOK
    <3> QED
      BY <1>2, <2>1, <3>1, HandsOutInv
  <2>3. CASE limiter[k] # 0 /\ Only(r, [c EXCEPT !.bucket = limiter[k], !.step = 7])
    <3>1. HandsOut(r, limiter[k], 7)
      BY <2>3 DEF Only, limitvars, Put, HandsOut
    <3> QED
      BY <1>1, <1>2, <2>1, <3>1, HandsOutInv
  <2> QED
    BY <1>4, <2>2, <2>3 DEF LimitStore
<1>5. CASE LimitAllow(r)
  <2>1. Handler(r) = "limit" /\ c.step = 7 /\ Allow(r, c.bucket)
    BY <1>5 DEF LimitAllow, Limiting, Down, At
  <2>2. Has(c, c.pos, "limit")
    BY <1>1, <1>2, <2>1, Positions DEF Has, Handler, RequestOK
  <2>3. c.bucket \in 2..Len(buckets)
    BY <1>1, <1>2, <2>1, <2>2 DEF BucketsOK, BucketOK
  <2> QED
    BY <1>1, <1>2, <2>1, <2>3, AllowInv
<1>6. CASE RateLimiter(r)
  <2>1. Handler(r) = "rate" /\ Allow(r, 1) /\ 1 \in 1..Len(buckets)
    BY <1>1, <1>6 DEF RateLimiter, Down, At
  <2> QED
    BY <1>2, <2>1, AllowInv
<1> QED
  BY <1>3, <1>4, <1>5, <1>6

\* No request moves.
LEMMA StillInv ==
  ASSUME RequestInv, UNCHANGED <<ctx, stats, buckets>>, SharedOK',
         \A k \in Clients : limiter'[k] \in {limiter[k], 0},
         \A k \in Clients : FoundOK(k)'
  PROVE  RequestInv'
<1>1. RequestsOK' /\ CountsOK' /\ (\A q \in Requests : SeenOK(ctx[q]))'
  BY DEF RequestInv, RequestsOK, CountsOK, Counting, Halves, SeenOK
<1>2. \A q \in Requests : BucketOK(ctx[q])'
  BY DEF RequestInv, BucketsOK, BucketOK
<1>3. BucketsOK'
  BY <1>1, <1>2, LimiterMoves
<1> QED
  BY <1>1, <1>3 DEF RequestInv

LEMMA TimeInv == ASSUME RequestInv, TimePasses PROVE RequestInv'
<1>1. /\ UNCHANGED <<ctx, stats, limiter, deadline, sweeping, buckets, found>>
      /\ time' = time + 1
  BY DEF TimePasses
<1>2. SharedOK'
  BY <1>1 DEF RequestInv, SharedOK
<1>3. \A k \in Clients : FoundOK(k)'
  BY <1>1 DEF RequestInv, BucketsOK, FoundOK, Former, Holds, Deleting, Sweeps
<1> QED
  BY <1>1, <1>2, <1>3, StillInv

\* The sweep.
LEMMA SweepInv ==
  ASSUME RequestInv, NEW k \in Clients, SweepFinds(k) \/ SweepDeletes(k)
  PROVE  RequestInv'
<1>1. /\ SharedOK /\ \A q \in Clients : FoundOK(q)
      /\ limiter \in [Clients -> Nat] /\ deadline \in [Clients -> Nat]
      /\ found \in [Clients -> Nat] /\ Len(buckets) \in Nat
      /\ sweeping \in [Clients -> {"none", "data", "exp"}]
  BY DEF RequestInv, SharedOK, BucketsOK
<1>2. ctx' = ctx /\ UNCHANGED <<stats, buckets, time>>
  BY DEF SweepFinds, SweepDeletes, Find, DelData, DelExp
<1>3. ASSUME NEW q \in Clients
      PROVE  /\ Deleting(q)' = Deleting(q)
             /\ FoundOK(q)' <=> Cardinality(Former(q)') + Cardinality(Deleting(q)') + Sweeps(q)'
                                  <= found'[q]
             /\ Cardinality(Former(q)) \in Nat /\ Cardinality(Deleting(q)) \in Nat
             /\ Sweeps(q) \in {0, 1} /\ found[q] \in Nat
  BY <1>1, <1>2, FormerFinite, FS_CardinalityType, DeletingFinite
  DEF Deleting, FoundOK, Sweeps
<1>4. CASE SweepFinds(k)
  <2>1. /\ found' = [found EXCEPT ![k] = @ + 1] /\ UNCHANGED <<limiter, deadline>>
        /\ sweeping' = [sweeping EXCEPT ![k] = "data"]
    BY <1>4 DEF SweepFinds, Find
  <2>2. SharedOK'
    BY <1>1, <1>2, <2>1 DEF SharedOK
  <2>3. ASSUME NEW q \in Clients
        PROVE  FoundOK(q)'
    <3>1. Former(q)' = Former(q)
      BY <1>1, <1>2, <2>1, FormerGrows
    <3>2. CASE q = k
      <4>1. Sweeps(q)' = 1 /\ found'[q] = found[q] + 1 /\ Sweeps(q) = 0
        BY <1>1, <1>4, <2>1, <3>2 DEF Sweeps, SweepFinds
      <4> QED
        BY <1>1, <1>3, <3>1, <4>1 DEF FoundOK
    <3>3. CASE q # k
      <4>1. Sweeps(q)' = Sweeps(q) /\ found'[q] = found[q]
        BY <1>1, <2>1, <3>3 DEF Sweeps
      <4> QED
        BY <1>1, <1>3, <3>1, <4>1 DEF FoundOK
    <3> QED
      BY <3>2, <3>3
  <2> QED
    BY <1>2, <2>1, <2>2, <2>3, StillInv
<1>5. CASE sweeping[k] = "data" /\ DelData(k) /\ sweeping' = [sweeping EXCEPT ![k] = "exp"]
  <2>1. limiter' = [limiter EXCEPT ![k] = 0] /\ UNCHANGED <<deadline, found>>
    BY <1>5 DEF DelData
  <2>2. SharedOK'
    BY <1>1, <1>2, <1>5, <2>1 DEF SharedOK
  <2>3. ASSUME NEW q \in Clients
        PROVE  FoundOK(q)'
    <3>1. CASE q = k
      <4>1. Sweeps(q)' = 0 /\ Sweeps(q) = 1 /\ limiter'[q] = 0
        BY <1>1, <1>5, <2>1, <3>1 DEF Sweeps
      <4>2. /\ Cardinality(Former(q)') \in Nat
            /\ Cardinality(Former(q)') <= Cardinality(Former(q)) + 1
        BY <1>1, <1>2, <4>1, FormerGrows
      <4>3. /\ found'[q] = found[q]
            /\ Cardinality(Former(q)) + Cardinality(Deleting(q)) + Sweeps(q) <= found[q]
        BY <1>1, <2>1 DEF FoundOK
      <4>4. Cardinality(Former(q)') + Cardinality(Deleting(q)') + Sweeps(q)' <= found'[q]
        BY <1>3, <4>1, <4>2, <4>3
      <4> QED
        BY <1>3, <4>4
    <3>2. CASE q # k
      <4>1. Sweeps(q)' = Sweeps(q) /\ limiter'[q] = limiter[q]
        BY <1>1, <1>5, <2>1, <3>2 DEF Sweeps
      <4>2. Former(q)' = Former(q)
        BY <1>1, <1>2, <4>1, FormerGrows
      <4> QED
        BY <1>1, <1>3, <2>1, <4>1, <4>2 DEF FoundOK
    <3> QED
      BY <3>1, <3>2
  <2>4. \A q \in Clients : limiter'[q] \in {limiter[q], 0}
    BY <1>1, <2>1
  <2> QED
    BY <1>2, <2>2, <2>3, <2>4, StillInv
<1>6. CASE sweeping[k] = "exp" /\ DelExp(k) /\ sweeping' = [sweeping EXCEPT ![k] = "none"]
  <2>1. deadline' = [deadline EXCEPT ![k] = 0] /\ UNCHANGED <<limiter, found>>
    BY <1>6 DEF DelExp
  <2>2. SharedOK'
    BY <1>1, <1>2, <1>6, <2>1 DEF SharedOK
  <2>3. ASSUME NEW q \in Clients
        PROVE  FoundOK(q)'
    <3>1. Sweeps(q)' = Sweeps(q)
      BY <1>1, <1>6 DEF Sweeps
    <3>2. Former(q)' = Former(q)
      BY <1>1, <1>2, <2>1, FormerGrows
    <3> QED
      BY <1>1, <1>3, <2>1, <3>1, <3>2 DEF FoundOK
  <2> QED
    BY <1>2, <2>1, <2>2, <2>3, StillInv
<1> QED
  BY <1>4, <1>5, <1>6 DEF SweepDeletes

LEMMA RequestInitial == RequestInit => RequestInv
<1> SUFFICES ASSUME RequestInit
             PROVE  RequestInv
  OBVIOUS
<1>1. /\ \A r \in Requests : ctx[r] = Blank
      /\ ctx = [r \in Requests |-> Blank]
      /\ stats = [requests |-> 0, gauge |-> 0, responses |-> 0]
      /\ limiter = [k \in Clients |-> 0] /\ deadline = [k \in Clients |-> 0]
      /\ found = [k \in Clients |-> 0] /\ time = 0
      /\ sweeping = [k \in Clients |-> "none"]
      /\ buckets = <<Burst>> /\ Burst \in Nat
  BY RequestAssumption DEF RequestInit
<1>2. Blank.at = "idle" /\ Blank.bucket = 0 /\ Blank.took = {} /\ Blank.seen = <<0, 0>>
  BY DEF Blank
<1>3. RequestsOK
  BY <1>1, BlankOK DEF RequestsOK, RequestOK
<1>4. SharedOK
  BY <1>1 DEF SharedOK
<1>5. CountsOK
  <2>1. Counting = {} /\ Halves = {}
    BY <1>1, <1>2 DEF Counting, Halves, Counts, Half
  <2> QED
    BY <1>1, <2>1, FS_EmptySet DEF CountsOK
<1>6. BucketsOK
  <2>1. ASSUME NEW k \in Clients
        PROVE  FoundOK(k)
    <3>1. Former(k) = {} /\ Deleting(k) = {}
      BY <1>1, <1>2 DEF Former, Holds, Deleting, Deletes
    <3>2. Sweeps(k) = 0 /\ found[k] = 0
      BY <1>1 DEF Sweeps
    <3> QED
      BY <3>1, <3>2, FS_EmptySet DEF FoundOK
  <2> QED
    BY <1>1, <1>2, <2>1 DEF BucketsOK, BucketOK
<1>7. \A r \in Requests : SeenOK(ctx[r])
  BY <1>1, <1>2 DEF SeenOK
<1> QED
  BY <1>3, <1>4, <1>5, <1>6, <1>7 DEF RequestInv

LEMMA RequestInductive == RequestInv /\ [RequestNext]_reqvars => RequestInv'
<1> SUFFICES ASSUME RequestInv, [RequestNext]_reqvars
             PROVE  RequestInv'
  OBVIOUS
<1>1. CASE UNCHANGED reqvars
  BY <1>1, ZenonT(40) DEF reqvars, limitvars, RequestInv, RequestsOK, SharedOK, CountsOK, Counting,
     Halves, BucketsOK, BucketOK, TokenOK, FoundOK, Former, Holds, Deleting, Sweeps, SeenOK
<1>2. ASSUME NEW r \in Requests, Arrive(r)
      PROVE  RequestInv'
  BY <1>2, ArriveInv
<1>3. ASSUME NEW r \in Requests, Handle(r)
      PROVE  RequestInv'
  <2>1. RequestsOK
    BY DEF RequestInv
  <2>2. CASE CountIn(r) \/ CountOut(r)
    BY <2>2, MetricsInv
  <2>3. CASE GetMetricsAPI(r)
    BY <2>3, StatsInv
  <2>4. CASE LimitLoad(r) \/ LimitJudge(r) \/ LimitDelete(r) \/ LimitRenew(r)
    BY <2>4, LoadInv
  <2>13. CASE LimitRead(r) \/ LimitStore(r) \/ LimitAllow(r) \/ RateLimiter(r)
    BY <2>13, LimitInv
  <2>5. CASE Defer(r) \/ LimitContentLength(r) \/ AuthLevel(r) \/ CustomMethods(r) \/ NoRoute(r)
    BY <2>1, <2>5, DownQuiet, QuietInv
  <2>6. CASE Logger(r)
    BY <2>1, <2>6, LoggerQuiet, QuietInv
  <2>7. CASE LoggerWithBody(r)
    BY <2>1, <2>7, LoggerWithBodyQuiet, QuietInv
  <2>8. CASE AuthMiddleware(r)
    BY <2>1, <2>8, AuthQuiet, QuietInv
  <2>9. CASE EtagIn(r)
    BY <2>1, <2>9, EtagInQuiet, QuietInv
  <2>10. CASE WrapH(r) \/ Returns(r) \/ Panics(r)
    BY <2>1, <2>10, WrapQuiet, QuietInv
  <2>11. CASE Leave(r) \/ EtagHandler(r) \/ Finish(r)
    BY <2>1, <2>11, UpQuiet, QuietInv
  <2>12. CASE Recovery(r) \/ Recover(r) \/ Unwind(r) \/ Dropped(r)
    BY <2>1, <2>12, PanicQuiet, QuietInv
  <2> QED
    BY <1>3, <2>2, <2>3, <2>4, <2>5, <2>6, <2>7, <2>8, <2>9, <2>10, <2>11, <2>12, <2>13
    DEF Handle
<1>4. ASSUME NEW k \in Clients, SweepFinds(k) \/ SweepDeletes(k)
      PROVE  RequestInv'
  BY <1>4, SweepInv
<1>5. CASE TimePasses
  BY <1>5, TimeInv
<1> QED
  BY <1>1, <1>2, <1>3, <1>4, <1>5 DEF RequestNext

LEMMA RequestSafe == RequestSpec => []RequestInv
BY RequestInitial, RequestInductive, PTL DEF RequestSpec

-----------------------------------------------------------------------------
(* One answer: whatever handlers abort, fail or panic, in whatever chain,  *)
(* the client is sent one body at most, and none only where the code means *)
(* it; a panic below the recovery of setupRouter ends in a 500.            *)
THEOREM AnswersOnce == RequestSpec => []OneAnswer
<1>1. RequestInv => OneAnswer
  <2> SUFFICES ASSUME RequestInv, NEW r \in Requests, ctx[r].at = "done"
               PROVE  /\ Len(ctx[r].sent) <= 1
                      /\ ctx[r].sent = <<>> =>
                           \/ ctx[r].status = 304 \/ ctx[r].panicked
                           \/ ctx[r].status = 404 /\ Passes(r, "custom")
                      /\ ctx[r].panicked /\ Chain[ctx[r].route][1] = "recovery"
                           => ctx[r].status = 500
    BY DEF OneAnswer
  <2>1. Placed(ctx[r]) /\ Answered(ctx[r])
    BY DEF RequestInv, RequestsOK, RequestOK
  <2>2. 1 \in 1..Len(Chain[ctx[r].route])
    <3>1. ctx[r].route \in Routes
      BY <2>1 DEF Placed
    <3> QED
      BY <3>1, ChainAssumption
  <2>3. NoMethod(ctx[r]) => ctx[r].status = 404 /\ Passes(r, "custom")
    BY DEF NoMethod, Has, Passes
  <2> QED
    BY <2>1, <2>2, <2>3 DEF Answered, Has
<1> QED
  BY <1>1, RequestSafe, PTL

(* The gauge of requests in flight is the number of those that Metrics saw *)
(* come in and not go out, and of those a panic took past it.              *)
THEOREM GaugeExact == RequestSpec => []GaugeCounts
<1>1. RequestInv => GaugeCounts
  <2> SUFFICES ASSUME RequestInv
               PROVE  GaugeCounts
    OBVIOUS
  <2>1. Counting = {r \in Requests : ctx[r].at # "idle" /\ Inside(r)}
    BY DEF Counting, Counts, Inside, Has
  <2> QED
    BY <2>1 DEF RequestInv, CountsOK, GaugeCounts
<1> QED
  BY <1>1, RequestSafe, PTL

(* What /app/metrics/api reads one after the other is never contradictory: *)
(* no more requests in flight than there were in all.                      *)
THEOREM SnapshotConsistent == RequestSpec => []SnapshotSane
<1>1. RequestInv => SnapshotSane
  BY DEF RequestInv, SeenOK, SnapshotSane
<1> QED
  BY <1>1, RequestSafe, PTL

(* The business function works on the whole body, or on nothing where there *)
(* is no length; on a part only where LoggerWithBody hid that it broke off.  *)
THEOREM BodyWhole == RequestSpec => []InputWhole
<1>1. RequestInv => InputWhole
  BY DEF RequestInv, RequestsOK, RequestOK, ReadWhole, InputWhole
<1> QED
  BY <1>1, RequestSafe, PTL

LEMMA Times ==
  ASSUME NEW a \in Nat, NEW b \in Nat, NEW n \in Nat, a <= b
  PROVE  a * n <= n * b
OBVIOUS

(* Tokens that different requests took are different, so no more pass than *)
(* there are buckets with their tokens: one more for each time a request   *)
(* or the sweep has found the client's deadline passed, whoever races with *)
(* whom between the deadline and the bucket.                               *)
THEOREM BurstBound == RequestSpec => []BurstKept
<1>1. RequestInv => BurstKept
  <2> SUFFICES ASSUME RequestInv
               PROVE  BurstKept
    OBVIOUS
  <2>1. RequestsOK /\ SharedOK /\ BucketsOK /\ Burst \in Nat
    BY RequestAssumption DEF RequestInv
  <2>2. IsFiniteSet(1..Burst) /\ Cardinality(1..Burst) = Burst
    BY <2>1, FS_Interval
  <2>3. ASSUME NEW k \in Clients
        PROVE  Cardinality({r \in Took("limit") : Client[r] = k}) <= Burst * (1 + found[k])
    <3> DEFINE S == {r \in Took("limit") : Client[r] = k}
               B == Former(k) \cup {limiter[k]}
               T == B \X (1..Burst)
               pick(r) == CHOOSE t \in ctx[r].took : t[1] = "limit"
               f == [r \in S |-> <<pick(r)[2], pick(r)[3]>>]
    <3>1. IsFiniteSet(S) /\ Cardinality(S) \in Nat
      <4>1. IsFiniteSet(S)
        BY RequestAssumption, FS_Subset DEF Took
      <4> QED
        BY <4>1, FS_CardinalityType
    <3>2. /\ IsFiniteSet(B) /\ Cardinality(B) \in Nat /\ found[k] \in Nat
          /\ Cardinality(B) <= 1 + found[k]
      <4>1. IsFiniteSet(Former(k)) /\ Cardinality(Former(k)) \in Nat
        BY <2>1, FormerFinite, FS_CardinalityType DEF SharedOK
      <4>2. IsFiniteSet(B) /\ Cardinality(B) <= Cardinality(Former(k)) + 1
        BY <4>1, FS_AddElement
      <4>3. Cardinality(Former(k)) <= found[k] /\ found[k] \in Nat
        <5>1. FoundOK(k) /\ found[k] \in Nat
          BY <2>1 DEF BucketsOK, SharedOK
        <5>2. Sweeps(k) \in Nat /\ Cardinality(Deleting(k)) \in Nat
          BY DeletingFinite DEF Sweeps
        <5> QED
          BY <4>1, <5>1, <5>2 DEF FoundOK
      <4> QED
        BY <4>1, <4>2, <4>3, FS_CardinalityType
    <3>3. IsFiniteSet(T) /\ Cardinality(T) = Cardinality(B) * Burst
      BY <2>2, <3>2, FS_Product, ZenonT(40)
    <3>4. ASSUME NEW r \in S
          PROVE  /\ r \in Requests /\ pick(r) \in ctx[r].took /\ <<pick(r)[2], pick(r)[3]>> \in T
      <4>1. r \in Requests /\ Client[r] = k /\ \E t \in ctx[r].took : t[1] = "limit"
        BY DEF Took
      <4>2. pick(r) \in ctx[r].took /\ pick(r)[1] = "limit"
        BY <4>1
      <4> HIDE DEF pick
      <4>3. TokenOK(pick(r))
        BY <2>1, <4>1, <4>2 DEF BucketsOK
      <4>4. pick(r)[2] \in 2..Len(buckets) /\ pick(r)[3] \in 1..Burst
        BY <4>2, <4>3 DEF TokenOK
      <4>5. Holds(k, pick(r)[2])
        BY <4>1, <4>2 DEF Holds
      <4>6. pick(r)[2] \in B
        BY <4>4, <4>5 DEF Former
      <4> QED
        BY <4>1, <4>2, <4>4, <4>6
    <3> HIDE DEF pick
    <3>5. ~(Cardinality(T) < Cardinality(S))
      <4> SUFFICES ASSUME Cardinality(T) < Cardinality(S)
                   PROVE  FALSE
        OBVIOUS
      <4>1. f \in [S -> T]
        BY <3>4
      <4> HIDE DEF f, S, T
      <4>2. PICK x, y \in S : x # y /\ f[x] = f[y]
        BY <3>1, <3>3, <4>1, FS_PigeonHole
      <4>3. pick(x)[2] = pick(y)[2] /\ pick(x)[3] = pick(y)[3]
        BY <4>2 DEF f
      <4> QED
        BY <2>1, <3>4, <4>2, <4>3 DEF BucketsOK
    <3> HIDE DEF S, T, B
    <3>6. Cardinality(B) * Burst <= Burst * (1 + found[k])
      BY <2>1, <3>2, Times
    <3>7. Cardinality(S) <= Cardinality(T) /\ Cardinality(T) \in Nat
      BY <3>1, <3>3, <3>5, FS_CardinalityType
    <3> QED
      BY <2>1, <3>1, <3>2, <3>3, <3>6, <3>7 DEF S
  <2>4. Cardinality(Took("rate")) <= Burst
    <3> DEFINE S == Took("rate")
               pick(r) == CHOOSE t \in ctx[r].took : t[1] = "rate"
               f == [r \in S |-> pick(r)[3]]
    <3>1. IsFiniteSet(S) /\ Cardinality(S) \in Nat
      <4>1. IsFiniteSet(S)
        BY RequestAssumption, FS_Subset DEF Took
      <4> QED
        BY <4>1, FS_CardinalityType
    <3>2. ASSUME NEW r \in S
          PROVE  r \in Requests /\ pick(r) \in ctx[r].took /\ pick(r)[2] = 1
                 /\ pick(r)[3] \in 1..Burst
      <4>1. r \in Requests /\ \E t \in ctx[r].took : t[1] = "rate"
        BY DEF Took
      <4>2. pick(r) \in ctx[r].took /\ pick(r)[1] = "rate"
        BY <4>1
      <4> HIDE DEF pick
      <4>3. TokenOK(pick(r))
        BY <2>1, <4>1, <4>2 DEF BucketsOK
      <4> QED
        BY <4>1, <4>2, <4>3 DEF TokenOK
    <3> HIDE DEF pick
    <3>3. ~(Cardinality(1..Burst) < Cardinality(S))
      <4> SUFFICES ASSUME Cardinality(1..Burst) < Cardinality(S)
                   PROVE  FALSE
        OBVIOUS
      <4>1. f \in [S -> 1..Burst]
        BY <3>2
      <4> HIDE DEF f, S
      <4>2. PICK x, y \in S : x # y /\ f[x] = f[y]
        BY <2>2, <3>1, <4>1, FS_PigeonHole
      <4>3. pick(x)[2] = pick(y)[2] /\ pick(x)[3] = pick(y)[3]
        BY <3>2, <4>2 DEF f
      <4> QED
        BY <2>1, <3>2, <4>2, <4>3 DEF BucketsOK
    <3> QED
      BY <2>1, <2>2, <3>1, <3>3
  <2> QED
    BY <2>3, <2>4 DEF BurstKept
<1> QED
  BY <1>1, RequestSafe, PTL
=============================================================================
