---------------------------- MODULE TTLMapRaces ----------------------------
(***************************************************************************)
(* What TTLMap guarantees to those who keep the writers of one key apart.  *)
(* A history variable notes the keys on which two writing operations have  *)
(* ever overlapped; on every other key the pair of maps behaves like one.  *)
(***************************************************************************)
EXTENDS TTLMap

VARIABLE raced   \* the keys two writers of which have been in flight at once

rvars == <<data, exp, now, th, res, kind, live, born, raced>>

\* Goroutine t is inside an operation that writes, or is going to write, k.
\* A Clear is inside from its first visit to its last, whichever key it is at.
Writing(t, k) ==
  \/ th[t].key = k /\ (th[t].pc \in {"storeExp", "nxStore", "losData",
                                     "delData", "delExp"}
                       \/ th[t].op = "SetNX")
  \/ th[t].pc \in {"clearData", "clearExp"}

Writers(k) == {t \in Threads : Writing(t, k)}

RInit == Init /\ raced = {}

RNext ==
  /\ Next
  /\ raced' = raced \cup {k \in Keys : \E t, u \in Threads :
                                        t # u /\ Writing(t, k)' /\ Writing(u, k)'}

RSpec == RInit /\ [][RNext]_rvars
FairRSpec == RSpec /\ Fairness

(* A key whose writers never overlapped has a value exactly when it has a  *)
(* deadline: nothing is kept that no sweep would find, and no deadline     *)
(* stands for a lost value.                                                *)
RaceFreeCoherent ==
  \A k \in Keys \ raced :
    Writers(k) = {} => ((data[k] # None) <=> (exp[k] # None))

(* Under such a key a value leaves before its deadline only because a      *)
(* caller deleted or cleared it or the fixed-time loop cleared everything. *)
RaceFreeKept ==
  [][\A k \in Keys \ raced' :
       data[k] # None /\ data'[k] = None =>
         \/ Passed(k, now)
         \/ \E t \in Threads :
              th'[t] # th[t] /\ th'[t].op \in {"Delete", "Clear", "Dispose"}]_rvars
=============================================================================
