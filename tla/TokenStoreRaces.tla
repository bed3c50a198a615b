--------------------------- MODULE TokenStoreRaces ---------------------------
(***************************************************************************)
(* When database and cache of TokenStore do agree. A history variable      *)
(* notes the hashes on which a write has overlapped another call, or whose *)
(* row changed in a call that then did not reach the cache.                *)
(***************************************************************************)
EXTENDS TokenStore

VARIABLE tainted

tvars == <<db, cache, written, now, th, changed, tainted>>

\* Process p holds a row it got or wrote under h, or has still to drop h.
Touches(p, h) ==
  \/ th[p].hash = h /\ th[p].pc # "judge"
  \/ h \in th[p].todo

Overlap(h) ==
  \E p, q \in Procs : /\ p # q /\ Touches(p, h) /\ Touches(q, h)
                      /\ th[p].op # "Valid"

TInit == Init /\ tainted = {}

TNext ==
  /\ Next
  /\ tainted' = tainted \cup
       {h \in Hashes : \/ Overlap(h)'
                       \/ db'[h] # db[h] /\ ~\E p \in Procs :
                            th'[p] # th[p] /\ Touches(p, h)'}

TSpec == TInit /\ [][TNext]_tvars

(* Between calls, under a hash that saw no overlap and no lost follow-up,  *)
(* the cache holds the database's row or nothing: a deleted token is gone, *)
(* an extended one is extended, at once and not a cache life later.        *)
QuietCoherent ==
  \A h \in Hashes \ tainted :
    (\A p \in Procs : ~Touches(p, h)) => cache[h] = None \/ Same(cache[h], db[h])
=============================================================================
