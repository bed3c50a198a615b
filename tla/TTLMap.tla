------------------------------- MODULE TTLMap -------------------------------
(***************************************************************************)
(* conc.TTLMap and the conc.TTLCache built on it: two sync.Maps, the       *)
(* values and their deadlines, written one after the other with no lock    *)
(* around the pair, by any number of callers and by the clean-up           *)
(* goroutines. A step is one operation on one of the two maps.             *)
(***************************************************************************)
EXTENDS Integers

CONSTANTS
  Keys, Values, None,
  Callers,    \* goroutines that call the map
  Cleaners,   \* clean-up goroutines, each started at most once
  TTLs,       \* the ttl arguments in use
  MaxTTL,     \* the largest of them
  MaxLag,     \* longest a caller is suspended between two of its steps
  MaxTime,    \* bound on the clock
  Ops         \* the operations the callers of this instance use

AllOps == {"Store", "Load", "LoadOrStore", "Delete", "Clear", "Dispose",
           "SetNX", "Switch"}

ASSUME NoneAssumption == None \notin Keys \cup Values \cup Int \cup Cleaners
ASSUME ThreadAssumption == Callers \cap Cleaners = {}
ASSUME TimeAssumption ==
  /\ MaxTTL \in Nat /\ MaxLag \in Nat /\ MaxTime \in Nat
  /\ TTLs \subseteq 0..MaxTTL
ASSUME OpsAssumption == Ops \subseteq AllOps

VARIABLES
  data,   \* data[k]: the value under k, or None
  exp,    \* exp[k]: its deadline, or None
  now,    \* the wall clock
  th,     \* th[t]: where goroutine t stands
  res,    \* res[p]: caller p's last hit, <<k, v>>, or None
  kind,   \* kind[c]: which clean-up loop goroutine c runs
  live,   \* the goroutine c.cancel belongs to; None once cancelled
  born    \* history: born[k] is when data[k] was last written

vars == <<data, exp, now, th, res, kind, live, born>>

Threads == Callers \cup Cleaners
Labels == {"idle", "storeExp", "loadData", "nxStore", "losData", "delData",
           "delExp", "clearData", "clearExp", "sweep"}

(***************************************************************************)
(* A goroutine's local state: the operation it runs, the label it is at,   *)
(* the arguments, the keys its Range has still to visit and the time it    *)
(* read or entered at.                                                     *)
(***************************************************************************)
Frame == [op : AllOps \cup {"none", "Sweep"}, pc : Labels,
          key : Keys \cup {None}, val : Values \cup {None},
          todo : SUBSET Keys, at : Nat]

Rest == [op |-> "none", pc |-> "idle", key |-> None, val |-> None,
         todo |-> {}, at |-> 0]

Enter(t, o, l, k, v) ==
  th' = [th EXCEPT ![t] = [op |-> o, pc |-> l, key |-> k, val |-> v,
                           todo |-> {}, at |-> now]]
EnterRange(t, o, l) ==
  th' = [th EXCEPT ![t] = [op |-> o, pc |-> l, key |-> None, val |-> None,
                           todo |-> Keys, at |-> now]]
Goto(t, l) == th' = [th EXCEPT ![t].pc = l]
Return(t) == th' = [th EXCEPT ![t] = Rest]
At(t, l) == th[t].pc = l

Put(k, v) ==
  /\ data' = [data EXCEPT ![k] = v]
  /\ born' = [born EXCEPT ![k] = now]

Passed(k, t) == exp[k] # None /\ t > exp[k]

Init ==
  /\ data = [k \in Keys |-> None]
  /\ exp = [k \in Keys |-> None]
  /\ now = 0
  /\ th = [t \in Threads |-> Rest]
  /\ res = [p \in Callers |-> None]
  /\ live \in Cleaners
  /\ kind = [c \in Cleaners |-> IF c = live THEN "ticker" ELSE "off"]
  /\ born = [k \in Keys |-> 0]

-----------------------------------------------------------------------------
(* Store: the value first, then the deadline, from the time it is then.    *)

Store(p, k, v) ==
  /\ "Store" \in Ops /\ At(p, "idle")
  /\ Put(k, v)
  /\ Enter(p, "Store", "storeExp", k, None)
  /\ UNCHANGED <<exp, now, res, kind, live>>

\* Mutant: a Store over a live entry adds its ttl to the deadline there is.
StoreExpAdds(p) ==
  /\ At(p, "storeExp")
  /\ \E ttl \in TTLs :
       exp' = [exp EXCEPT ![th[p].key] = (IF @ = None THEN now ELSE @) + ttl]
  /\ Return(p)
  /\ UNCHANGED <<data, now, res, kind, live, born>>

StoreExp(p) ==
  /\ At(p, "storeExp")
  /\ \E ttl \in TTLs : exp' = [exp EXCEPT ![th[p].key] = now + ttl]
  /\ Return(p)
  /\ UNCHANGED <<data, now, res, kind, live, born>>

(* Load, and the Load that SetNX begins with. *)

LookupNone(p, o, k, v) ==
  /\ exp[k] = None
  /\ res' = [res EXCEPT ![p] = None]
  /\ IF o = "SetNX" THEN Enter(p, o, "nxStore", k, v) ELSE Return(p)

LookupExpired(p, o, k, v) ==
  /\ Passed(k, now)
  /\ Enter(p, o, "delData", k, v)
  /\ UNCHANGED res

\* Mutant: an entry that has expired and was not swept yet is served.
LookupUnchecked(p, o, k, v) ==
  /\ exp[k] # None
  /\ Enter(p, o, "loadData", k, v)
  /\ UNCHANGED res

LookupFresh(p, o, k, v) ==
  /\ exp[k] # None /\ ~Passed(k, now)
  /\ Enter(p, o, "loadData", k, v)
  /\ UNCHANGED res

Lookup(p, o, k, v) ==
  /\ o \in Ops /\ At(p, "idle")
  /\ \/ LookupNone(p, o, k, v)
     \/ LookupExpired(p, o, k, v)
     \/ LookupFresh(p, o, k, v)
  /\ UNCHANGED <<data, exp, now, kind, live, born>>

LoadData(p) ==
  LET k == th[p].key IN
  /\ At(p, "loadData")
  /\ res' = [res EXCEPT ![p] = IF data[k] = None THEN None
                               ELSE <<k, data[k]>>]
  /\ IF th[p].op = "SetNX" /\ data[k] = None THEN Goto(p, "nxStore")
                                             ELSE Return(p)
  /\ UNCHANGED <<data, exp, now, kind, live, born>>

\* SetNX found no live value: it goes on with a plain Store.
NXStore(p) ==
  /\ At(p, "nxStore")
  /\ Put(th[p].key, th[p].val)
  /\ Enter(p, "SetNX", "storeExp", th[p].key, None)
  /\ UNCHANGED <<exp, now, res, kind, live>>

-----------------------------------------------------------------------------
(* LoadOrStore: the deadline first, whether or not there is a value.       *)

LoadOrStore(p, k, v) ==
  /\ "LoadOrStore" \in Ops /\ At(p, "idle")
  /\ \E ttl \in TTLs : exp' = [exp EXCEPT ![k] = now + ttl]
  /\ Enter(p, "LoadOrStore", "losData", k, v)
  /\ UNCHANGED <<data, now, res, kind, live, born>>

LoadOrStoreData(p) ==
  LET k == th[p].key IN
  /\ At(p, "losData")
  /\ IF data[k] = None
       THEN Put(k, th[p].val) /\ res' = [res EXCEPT ![p] = <<k, th[p].val>>]
       ELSE UNCHANGED <<data, born>>
            /\ res' = [res EXCEPT ![p] = <<k, data[k]>>]
  /\ Return(p)
  /\ UNCHANGED <<exp, now, kind, live>>

-----------------------------------------------------------------------------
(* Delete, the removal a Load makes of an expired entry, and the removal   *)
(* the sweep makes: the value first, then the deadline.                    *)

\* Mutant: Delete leaves the deadline behind.
DeleteDataOnly(p, k) ==
  /\ "Delete" \in Ops /\ At(p, "idle")
  /\ data' = [data EXCEPT ![k] = None]
  /\ UNCHANGED <<exp, now, th, res, kind, live, born>>

Delete(p, k) ==
  /\ "Delete" \in Ops /\ At(p, "idle")
  /\ data' = [data EXCEPT ![k] = None]
  /\ Enter(p, "Delete", "delExp", k, None)
  /\ UNCHANGED <<exp, now, res, kind, live, born>>

DelData(t) ==
  /\ At(t, "delData")
  /\ data' = [data EXCEPT ![th[t].key] = None]
  /\ Goto(t, "delExp")
  /\ UNCHANGED <<exp, now, res, kind, live, born>>

\* Mutant: the sweep removes the value and forgets the deadline.
DelExpForgotten(t) ==
  /\ At(t, "delExp")
  /\ exp' = IF th[t].op = "Sweep" THEN exp ELSE [exp EXCEPT ![th[t].key] = None]
  /\ CASE th[t].op = "SetNX" -> Goto(t, "nxStore")
       [] th[t].op = "Sweep" -> Goto(t, "sweep")
       [] OTHER              -> Return(t)
  /\ res' = IF th[t].op = "Load" THEN [res EXCEPT ![t] = None] ELSE res
  /\ UNCHANGED <<data, now, kind, live, born>>

DelExp(t) ==
  /\ At(t, "delExp")
  /\ exp' = [exp EXCEPT ![th[t].key] = None]
  /\ CASE th[t].op = "SetNX" -> Goto(t, "nxStore")
       [] th[t].op = "Sweep" -> Goto(t, "sweep")
       [] OTHER              -> Return(t)
  /\ res' = IF th[t].op = "Load" THEN [res EXCEPT ![t] = None] ELSE res
  /\ UNCHANGED <<data, now, kind, live, born>>

(* Clear empties one map and then the other, key by key as Range meets     *)
(* them; Dispose then cancels the clean-up goroutine.                      *)

Clear(p, o) ==
  /\ o \in Ops /\ At(p, "idle")
  /\ EnterRange(p, o, "clearData")
  /\ UNCHANGED <<data, exp, now, res, kind, live, born>>

ClearData(t) ==
  /\ At(t, "clearData")
  /\ \E k \in th[t].todo :
       /\ data' = [data EXCEPT ![k] = None]
       /\ th' = IF th[t].todo = {k}
                THEN [th EXCEPT ![t].pc = "clearExp", ![t].todo = Keys]
                ELSE [th EXCEPT ![t].todo = @ \ {k}]
  /\ UNCHANGED <<exp, now, res, kind, live, born>>

ClearExp(t) ==
  /\ At(t, "clearExp")
  /\ \E k \in th[t].todo :
       /\ exp' = [exp EXCEPT ![k] = None]
       /\ IF th[t].todo = {k}
            THEN /\ Return(t)
                 /\ live' = IF th[t].op = "Dispose" THEN None ELSE live
            ELSE /\ th' = [th EXCEPT ![t].todo = @ \ {k}]
                 /\ UNCHANGED live
  /\ UNCHANGED <<data, now, res, kind, born>>

-----------------------------------------------------------------------------
(* The clean-up goroutines.                                                *)

\* SetTickerCleanup and SwichFixedTimeClear: cancel the loop that runs and
\* start another one.
Switch(kd) ==
  /\ "Switch" \in Ops
  /\ \E c \in Cleaners :
       /\ kind[c] = "off"
       /\ kind' = [kind EXCEPT ![c] = kd]
       /\ live' = c
  /\ UNCHANGED <<data, exp, now, th, res, born>>

\* The select of a loop takes the tick or the cancellation, whichever is
\* ready, so a cancelled loop may still run once more; the context is not
\* looked at during a sweep. A sweep compares with the time it began at.
SweepStart(c) ==
  /\ kind[c] = "ticker" /\ At(c, "idle")
  /\ EnterRange(c, "Sweep", "sweep")
  /\ UNCHANGED <<data, exp, now, res, kind, live, born>>

\* Mutant: the sweep removes entries whose deadline is still ahead.
SweepVisitAll(c) ==
  /\ At(c, "sweep")
  /\ \E k \in th[c].todo :
       IF exp[k] # None
         THEN th' = [th EXCEPT ![c].pc = "delData", ![c].key = k,
                               ![c].todo = @ \ {k}]
         ELSE th' = [th EXCEPT ![c].todo = @ \ {k}]
  /\ UNCHANGED <<data, exp, now, res, kind, live, born>>

SweepVisit(c) ==
  /\ At(c, "sweep")
  /\ \E k \in th[c].todo :
       IF Passed(k, th[c].at)
         THEN th' = [th EXCEPT ![c].pc = "delData", ![c].key = k,
                               ![c].todo = @ \ {k}]
         ELSE th' = [th EXCEPT ![c].todo = @ \ {k}]
  /\ UNCHANGED <<data, exp, now, res, kind, live, born>>

SweepEnd(c) ==
  /\ At(c, "sweep") /\ th[c].todo = {}
  /\ Return(c)
  /\ UNCHANGED <<data, exp, now, res, kind, live, born>>

FixedTimeClear(c) ==
  /\ kind[c] = "fixed" /\ At(c, "idle")
  /\ EnterRange(c, "Clear", "clearData")
  /\ UNCHANGED <<data, exp, now, res, kind, live, born>>

\* Mutants: cancelling cuts a sweep short; the fixed-time loop never looks at
\* its context.
ExitMidSweep(c) ==
  /\ kind[c] \in {"ticker", "fixed"} /\ c # live
  /\ kind' = [kind EXCEPT ![c] = "done"]
  /\ UNCHANGED <<data, exp, now, th, res, live, born>>

FixedNeverExits(c) ==
  /\ kind[c] = "ticker" /\ c # live /\ At(c, "idle")
  /\ kind' = [kind EXCEPT ![c] = "done"]
  /\ UNCHANGED <<data, exp, now, th, res, live, born>>

CleanerExit(c) ==
  /\ kind[c] \in {"ticker", "fixed"} /\ c # live /\ At(c, "idle")
  /\ kind' = [kind EXCEPT ![c] = "done"]
  /\ UNCHANGED <<data, exp, now, th, res, live, born>>

-----------------------------------------------------------------------------
Prompt(p) == th[p].pc \in {"storeExp", "loadData"} => now < th[p].at + MaxLag

Tick ==
  /\ now < MaxTime
  /\ \A p \in Callers : Prompt(p)
  /\ now' = now + 1
  /\ UNCHANGED <<data, exp, th, res, kind, live, born>>

Call(p) ==
  \/ \E k \in Keys, v \in Values :
       \/ Store(p, k, v)
       \/ Lookup(p, "SetNX", k, v)
       \/ LoadOrStore(p, k, v)
  \/ \E k \in Keys : Lookup(p, "Load", k, None) \/ Delete(p, k)
  \/ Clear(p, "Clear") \/ Clear(p, "Dispose")

Continue(t) == DelData(t) \/ DelExp(t) \/ ClearData(t) \/ ClearExp(t)

CallerStep(p) ==
  \/ StoreExp(p) \/ LoadData(p) \/ NXStore(p) \/ LoadOrStoreData(p)
  \/ Continue(p)

CleanerStep(c) ==
  \/ SweepStart(c) \/ SweepVisit(c) \/ SweepEnd(c) \/ FixedTimeClear(c)
  \/ Continue(c)

Next ==
  \/ \E p \in Callers : Call(p) \/ CallerStep(p)
  \/ \E c \in Cleaners : CleanerStep(c) \/ CleanerExit(c)
  \/ \E kd \in {"ticker", "fixed"} : Switch(kd)
  \/ Tick

Spec == Init /\ [][Next]_vars

(***************************************************************************)
(* A goroutine that can run does run, the ticker fires again and again,    *)
(* and the select of a cancelled loop does not pick the tick for ever.     *)
(***************************************************************************)
Fairness ==
  /\ WF_vars(Tick)
  /\ \A p \in Callers : WF_vars(CallerStep(p))
  /\ \A c \in Cleaners : WF_vars(CleanerStep(c)) /\ SF_vars(CleanerExit(c))

FairSpec == Spec /\ Fairness

-----------------------------------------------------------------------------
(* Types; and a clean-up goroutine that never ran or has returned holds    *)
(* nothing: cancelling one does not cut a sweep in two.                    *)
TypeOK ==
  /\ data \in [Keys -> Values \cup {None}]
  /\ exp \in [Keys -> Nat \cup {None}]
  /\ now \in Nat
  /\ th \in [Threads -> Frame]
  /\ res \in [Callers -> (Keys \X Values) \cup {None}]
  /\ kind \in [Cleaners -> {"off", "ticker", "fixed", "done"}]
  /\ live \in Cleaners \cup {None}
  /\ born \in [Keys -> Nat]
  /\ \A t \in Threads :
       /\ th[t].pc \in {"storeExp", "loadData", "nxStore", "losData",
                        "delData", "delExp"} => th[t].key \in Keys
       /\ th[t].pc = "losData" \/ (th[t].op = "SetNX" /\ th[t].pc # "storeExp")
            => th[t].val \in Values
       /\ th[t].pc = "nxStore" => th[t].op = "SetNX"
  /\ \A c \in Cleaners : kind[c] \in {"off", "done"} => At(c, "idle")

(* However callers and sweeps interleave, and whichever of two Stores      *)
(* wrote the value and which one the deadline, a deadline never keeps a    *)
(* value longer than the largest ttl after it was written, plus the time   *)
(* one Store was held up between its two writes (Store, Load, TTLCache).   *)
BoundedLife ==
  \A k \in Keys : exp[k] # None => exp[k] <= born[k] + MaxTTL + MaxLag

(* What makes BoundedLife inductive: a Store that still owes the deadline  *)
(* wrote no later than the value that is there, and a Load that has        *)
(* checked the deadline reads a value that was alive when it checked.      *)
LagInv ==
  /\ \A k \in Keys : born[k] <= now
  /\ \A p \in Callers :
       /\ th[p].pc \in {"storeExp", "loadData"} =>
            th[p].at <= now /\ now <= th[p].at + MaxLag
       /\ th[p].pc = "storeExp" => th[p].at <= born[th[p].key]
       /\ th[p].pc = "loadData" =>
            th[p].at <= born[th[p].key] + MaxTTL + MaxLag

(* The two maps together are an expiring cache: every hit is the value     *)
(* that is stored under the key when the call answers, never older than    *)
(* the largest ttl plus twice the time a caller may be held up.            *)
Abstract == INSTANCE LossyCache WITH
  cache <- data, written <- born, answer <- res, clock <- now,
  Life <- MaxTTL + 2 * MaxLag

ImplementsCache == Abstract!Spec

(* Every deadline that has passed is acted on: the entry is removed or its *)
(* deadline renewed, while the clean-up loop is running.                   *)
ExpiredIsSwept ==
  \A k \in Keys :
    (exp[k] # None /\ exp[k] < now) ~> (exp[k] = None \/ exp[k] >= now \/ live = None)

(* A clean-up loop that was cancelled returns, whatever it was doing.      *)
CancelledReturns ==
  \A c \in Cleaners :
    (kind[c] \in {"ticker", "fixed"} /\ c # live) ~> kind[c] = "done"

(* "Store deletes the pair when its ttl is over": a value that is past     *)
(* every deadline a Store can have given it is removed in the end.         *)
ExpiredValueIsRemoved ==
  \A k \in Keys :
    (data[k] # None /\ born[k] + MaxTTL + MaxLag < now)
      ~> (data[k] = None \/ born[k] = now)
=============================================================================
