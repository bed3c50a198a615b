----------------------------- MODULE LossyCache -----------------------------
(***************************************************************************)
(* What a user of an expiring cache may rely on, whatever the cache does   *)
(* inside: an entry may vanish at any moment, but a hit is the value that  *)
(* is in the cache at that moment under the key that was asked for, and    *)
(* that value was written at most Life ago.                                *)
(***************************************************************************)
EXTENDS Naturals

CONSTANTS Keys, Values, None, Callers,
          Life      \* the oldest a value may be when it is handed out

VARIABLES cache,    \* cache[k]: the value under k, or None
          written,  \* written[k]: when a value was last put under k
          answer,   \* answer[p]: caller p's last hit, <<k, v>>, or None
          clock

lvars == <<cache, written, answer, clock>>

Init ==
  /\ cache = [k \in Keys |-> None]
  /\ written = [k \in Keys |-> 0]
  /\ answer = [p \in Callers |-> None]
  /\ clock = 0

Put(k, v) ==
  /\ cache' = [cache EXCEPT ![k] = v]
  /\ written' = [written EXCEPT ![k] = clock]
  /\ UNCHANGED <<answer, clock>>

Drop(k) ==
  /\ cache' = [cache EXCEPT ![k] = None]
  /\ UNCHANGED <<written, answer, clock>>

Miss(p) ==
  /\ answer' = [answer EXCEPT ![p] = None]
  /\ UNCHANGED <<cache, written, clock>>

Available(k) == cache[k] # None /\ clock <= written[k] + Life

Hit(p, k) ==
  /\ Available(k)
  /\ answer' = [answer EXCEPT ![p] = <<k, cache[k]>>]
  /\ UNCHANGED <<cache, written, clock>>

PutIfAbsent(p, k, v) ==
  /\ cache[k] = None
  /\ cache' = [cache EXCEPT ![k] = v]
  /\ written' = [written EXCEPT ![k] = clock]
  /\ answer' = [answer EXCEPT ![p] = <<k, v>>]
  /\ UNCHANGED clock

Advance ==
  /\ clock' = clock + 1
  /\ UNCHANGED <<cache, written, answer>>

Next ==
  \/ \E k \in Keys : Drop(k) \/ \E v \in Values : Put(k, v)
  \/ \E p \in Callers : Miss(p) \/ \E k \in Keys : Hit(p, k)
  \/ \E p \in Callers, k \in Keys, v \in Values : PutIfAbsent(p, k, v)
  \/ Advance

Spec == Init /\ [][Next]_lvars
=============================================================================
