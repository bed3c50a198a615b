----------------------------- MODULE TokenDelay -----------------------------
(***************************************************************************)
(* token.Core.DelayToken: a request extends its token, but at most once in *)
(* a while. Whether it did so lately is told by a marker with a ttl, kept  *)
(* in the TTLMap that token.NewCore creates; the extension itself is one   *)
(* row update.                                                             *)
(***************************************************************************)
EXTENDS Integers

CONSTANTS
  Tokens, Procs, None, Cleaners,
  Window,     \* ttl of the marker: 10 minutes
  Grant,      \* a call asks for an expiry this far ahead
  MaxLag, MaxTime,
  Attentive   \* TRUE: in each unit of time every token is used and a sweep
              \* ends, and no row update fails

ASSUME GrantAssumption == Window \in Nat /\ Grant \in Nat /\ Grant > Window
ASSUME MarkerAssumption ==
  /\ None \notin Tokens \cup {"mark"} \cup Int \cup Cleaners
  /\ Procs \cap Cleaners = {}
  /\ MaxLag \in Nat /\ MaxTime \in Nat
ASSUME AttentiveAssumption == Attentive \in BOOLEAN

VARIABLES
  data, exp, now, th, res, kind, live, born,   \* the markers: see TTLMap
  busy,      \* busy[p]: the token whose row p is about to update, or None
  expiry,    \* expiry[k]: the row's expired_at
  decided,   \* history: when a call last decided to extend k, or None
  used,      \* the tokens a DelayToken has returned for since the last tick
  swept      \* the clean-up loops that ended a sweep since the last tick

delayvars == <<data, exp, now, th, res, kind, live, born,
           busy, expiry, decided, used, swept>>

M == INSTANCE TTLMap WITH
  Keys <- Tokens, Values <- {"mark"}, Callers <- Procs, TTLs <- {Window},
  MaxTTL <- Window, Ops <- {"LoadOrStore"}

DelayInit ==
  /\ M!Init
  /\ busy = [p \in Procs |-> None]
  /\ expiry = [k \in Tokens |-> Grant]
  /\ decided = [k \in Tokens |-> None]
  /\ used = {} /\ swept = {}

Idle(p) == M!At(p, "idle") /\ busy[p] = None

\* DelayToken begins: the marker's deadline is set whatever there is.
DelayToken(p, k) ==
  /\ Idle(p)
  /\ M!LoadOrStore(p, k, "mark")
  /\ UNCHANGED <<busy, expiry, decided, used, swept>>

\* A marker was there: nothing to do. There was none: extend now.
MarkerFound(p) ==
  /\ data[th[p].key] # None
  /\ used' = used \cup {th[p].key}
  /\ UNCHANGED <<busy, decided>>

MarkerSet(p) ==
  /\ data[th[p].key] = None
  /\ busy' = [busy EXCEPT ![p] = th[p].key]
  /\ decided' = [decided EXCEPT ![th[p].key] = now]
  /\ UNCHANGED used

Mark(p) ==
  /\ M!LoadOrStoreData(p)
  /\ MarkerFound(p) \/ MarkerSet(p)
  /\ UNCHANGED <<expiry, swept>>

\* DelayTokenNow, which may fail: the marker stays in either case.
DelayTokenNow(p) ==
  /\ busy[p] # None
  /\ \/ expiry' = [expiry EXCEPT ![busy[p]] = now + Grant]
     \/ ~Attentive /\ UNCHANGED expiry
  /\ busy' = [busy EXCEPT ![p] = None]
  /\ used' = used \cup {busy[p]}
  /\ UNCHANGED <<data, exp, now, th, res, kind, live, born, decided, swept>>

Sweep(c) ==
  /\ M!CleanerStep(c)
  /\ swept' = IF M!SweepEnd(c) THEN swept \cup {c} ELSE swept
  /\ UNCHANGED <<busy, expiry, decided, used>>

Prompt(p) ==
  /\ M!At(p, "losData") => now < th[p].at + MaxLag
  /\ Attentive => Idle(p)

DelayTick ==
  /\ M!Tick
  /\ \A p \in Procs : Prompt(p)
  /\ Attentive => used = Tokens /\ live \in swept /\ M!At(live, "idle")
  /\ used' = {} /\ swept' = {}
  /\ UNCHANGED <<busy, expiry, decided>>

DelayNext ==
  \/ \E p \in Procs : \/ \E k \in Tokens : DelayToken(p, k)
                      \/ Mark(p) \/ DelayTokenNow(p)
  \/ \E c \in Cleaners : Sweep(c)
  \/ DelayTick

-----------------------------------------------------------------------------
(* "Only once in a while": however requests race with each other and with  *)
(* the sweep, two decisions to extend one token are a marker's life apart, *)
(* less the time one call was held up between the marker's two writes.     *)
OncePerWindow ==
  [][\A k \in Tokens :
       decided'[k] # decided[k] /\ decided[k] # None
         => now + MaxLag > decided[k] + Window]_decided

(* "The expiry should be more than the 10 minutes": with such an expiry a  *)
(* token in steady use does not run out.                                   *)
UsedTokenStaysValid ==
  \A k \in Tokens : expiry[k] >= now
=============================================================================
