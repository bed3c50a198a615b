---------------------------- MODULE TTLMapProofs ----------------------------
(***************************************************************************)
(* Proofs about TTLMap and TTLMapRaces for any keys, values, callers,      *)
(* clean-up goroutines, ttls and scheduling lag.                           *)
(***************************************************************************)
EXTENDS TTLMapRaces, TLAPS

USE DEF Threads, At, Rest, Enter, EnterRange, Goto, Return, Put, Passed

(***************************************************************************)
(* The frames a goroutine moves through are frames.                        *)
(***************************************************************************)
LEMMA FrameFacts ==
  /\ Rest \in Frame
  /\ \A f \in Frame : DOMAIN f = {"op", "pc", "key", "val", "todo", "at"}
  BY DEF Frame, Labels, AllOps

LEMMA InitTypes == Init => TypeOK
  <1> SUFFICES ASSUME Init PROVE TypeOK
    OBVIOUS
  <1>1. th \in [Threads -> Frame]
    BY FrameFacts DEF Init
  <1>2. QED
    BY <1>1, NoneAssumption DEF Init, TypeOK

LEMMA NextTypes == TypeOK /\ [Next]_vars => TypeOK'
  <1> SUFFICES ASSUME TypeOK, [Next]_vars PROVE TypeOK'
    OBVIOUS
  <1> USE NoneAssumption, ThreadAssumption, TimeAssumption, OpsAssumption
      DEF TypeOK, Frame, Labels
  <1>1. ASSUME NEW p \in Callers, NEW k \in Keys, NEW v \in Values, Store(p, k, v)
        PROVE TypeOK'
    BY <1>1 DEF Store, AllOps
  <1>2. ASSUME NEW p \in Callers, NEW o \in {"Load", "SetNX"}, NEW k \in Keys,
               NEW v \in Values \cup {None}, o = "SetNX" => v \in Values,
               Lookup(p, o, k, v)
        PROVE TypeOK'
    <2>1. CASE LookupNone(p, o, k, v)
      <3>1. \/ o = "SetNX" /\ Enter(p, o, "nxStore", k, v)
            \/ Return(p)
        BY ONLY <2>1 DEF LookupNone
      <3>2. res' \in [Callers -> (Keys \X Values) \cup {None}]
        BY <2>1 DEF LookupNone
      <3>3. CASE o = "SetNX" /\ Enter(p, o, "nxStore", k, v)
        BY <1>2, <3>2, <3>3 DEF Lookup, AllOps
      <3>4. CASE Return(p)
        BY <1>2, <3>2, <3>4 DEF Lookup, AllOps
      <3>5. QED
        BY <3>1, <3>3, <3>4
    <2>2. CASE LookupExpired(p, o, k, v)
      BY <1>2, <2>2 DEF Lookup, LookupExpired, AllOps
    <2>3. CASE LookupFresh(p, o, k, v)
      BY <1>2, <2>3 DEF Lookup, LookupFresh, AllOps
    <2>4. QED
      BY <1>2, <2>1, <2>2, <2>3 DEF Lookup
  <1>3. ASSUME NEW p \in Callers, NEW k \in Keys, NEW v \in Values, LoadOrStore(p, k, v)
        PROVE TypeOK'
    BY <1>3 DEF LoadOrStore, AllOps
  <1>4. ASSUME NEW p \in Callers, NEW k \in Keys, Delete(p, k)
        PROVE TypeOK'
    BY <1>4 DEF Delete, AllOps
  <1>5. ASSUME NEW p \in Callers, NEW o \in {"Clear", "Dispose"}, Clear(p, o)
        PROVE TypeOK'
    BY <1>5 DEF Clear, AllOps
  <1>6. ASSUME NEW p \in Callers, StoreExp(p)
        PROVE TypeOK'
    BY <1>6 DEF StoreExp, AllOps
  <1>7. ASSUME NEW p \in Callers, LoadData(p)
        PROVE TypeOK'
    <2>1. th[p].key \in Keys
      BY <1>7 DEF LoadData
    <2>2. res' \in [Callers -> (Keys \X Values) \cup {None}]
      BY <1>7, <2>1 DEF LoadData
    <2>3. \/ th[p].op = "SetNX" /\ Goto(p, "nxStore")
          \/ Return(p)
      BY ONLY <1>7 DEF LoadData
    <2>4. CASE th[p].op = "SetNX" /\ Goto(p, "nxStore")
      BY <1>7, <2>1, <2>2, <2>4, SMTT(30) DEF LoadData, AllOps
    <2>5. CASE Return(p)
      BY <1>7, <2>2, <2>5 DEF LoadData, AllOps
    <2>6. QED
      BY <2>3, <2>4, <2>5
  <1>8. ASSUME NEW p \in Callers, NXStore(p)
        PROVE TypeOK'
    BY <1>8 DEF NXStore, AllOps
  <1>9. ASSUME NEW p \in Callers, LoadOrStoreData(p)
        PROVE TypeOK'
    <2>1. th[p].key \in Keys /\ th[p].val \in Values
      BY <1>9 DEF LoadOrStoreData
    <2>2. /\ data' \in [Keys -> Values \cup {None}]
          /\ born' \in [Keys -> Nat]
          /\ res' \in [Callers -> (Keys \X Values) \cup {None}]
      <3>1. CASE data[th[p].key] = None
        <4>1. /\ Put(th[p].key, th[p].val)
              /\ res' = [res EXCEPT ![p] = <<th[p].key, th[p].val>>]
          BY ONLY <1>9, <3>1 DEF LoadOrStoreData
        <4>2. <<th[p].key, th[p].val>> \in Keys \X Values
          BY <2>1
        <4>3. QED
          BY <4>1, <4>2, <2>1
      <3>2. CASE data[th[p].key] # None
        BY <1>9, <2>1, <3>2 DEF LoadOrStoreData
      <3>3. QED
        BY <3>1, <3>2
    <2>3. QED
      BY <1>9, <2>2 DEF LoadOrStoreData, AllOps
  <1>10. ASSUME NEW t \in Threads, DelData(t)
         PROVE TypeOK'
    BY <1>10 DEF DelData, AllOps
  <1>11. ASSUME NEW t \in Threads, DelExp(t)
         PROVE TypeOK'
    <2>1. \/ th[t].op = "SetNX" /\ Goto(t, "nxStore")
          \/ th[t].op = "Sweep" /\ Goto(t, "sweep")
          \/ Return(t)
      BY ONLY <1>11 DEF DelExp
    <2>2. /\ exp' \in [Keys -> Nat \cup {None}]
          /\ res' \in [Callers -> (Keys \X Values) \cup {None}]
          /\ UNCHANGED <<data, now, kind, live, born>>
      BY <1>11 DEF DelExp
    <2>3. CASE th[t].op = "SetNX" /\ Goto(t, "nxStore")
      BY <1>11, <2>2, <2>3 DEF DelExp, AllOps
    <2>4. CASE th[t].op = "Sweep" /\ Goto(t, "sweep")
      BY <1>11, <2>2, <2>4 DEF DelExp, AllOps
    <2>5. CASE Return(t)
      BY <2>2, <2>5 DEF AllOps
    <2>6. QED
      BY <2>1, <2>3, <2>4, <2>5
  <1>12. ASSUME NEW t \in Threads, ClearData(t)
         PROVE TypeOK'
    <2>1. PICK k \in th[t].todo :
            /\ data' = [data EXCEPT ![k] = None]
            /\ \/ th' = [th EXCEPT ![t].pc = "clearExp", ![t].todo = Keys]
               \/ th' = [th EXCEPT ![t].todo = @ \ {k}]
      BY ONLY <1>12 DEF ClearData
    <2>2. At(t, "clearData") /\ UNCHANGED <<exp, now, res, kind, live, born>>
      BY <1>12 DEF ClearData
    <2>3. CASE th' = [th EXCEPT ![t].pc = "clearExp", ![t].todo = Keys]
      BY <2>1, <2>2, <2>3 DEF AllOps
    <2>4. CASE th' = [th EXCEPT ![t].todo = @ \ {k}]
      BY <2>1, <2>2, <2>4 DEF AllOps
    <2>5. QED
      BY <2>1, <2>3, <2>4
  <1>13. ASSUME NEW t \in Threads, ClearExp(t)
         PROVE TypeOK'
    <2>1. PICK k \in th[t].todo :
            /\ exp' = [exp EXCEPT ![k] = None]
            /\ \/ Return(t) /\ live' \in {None, live}
               \/ th' = [th EXCEPT ![t].todo = @ \ {k}] /\ UNCHANGED live
      BY ONLY <1>13 DEF ClearExp
    <2>2. At(t, "clearExp") /\ UNCHANGED <<data, now, res, kind, born>>
      BY <1>13 DEF ClearExp
    <2>3. CASE Return(t) /\ live' \in {None, live}
      BY <2>1, <2>2, <2>3 DEF AllOps
    <2>4. CASE th' = [th EXCEPT ![t].todo = @ \ {k}] /\ UNCHANGED live
      BY <2>1, <2>2, <2>4 DEF AllOps
    <2>5. QED
      BY <2>1, <2>3, <2>4
  <1>14. ASSUME NEW c \in Cleaners, SweepStart(c) \/ SweepVisit(c) \/ SweepEnd(c)
         PROVE TypeOK'
    <2>1. CASE SweepStart(c)
      BY <2>1 DEF SweepStart, AllOps
    <2>2. CASE SweepVisit(c)
      <3>1. PICK k \in th[c].todo :
              th' = IF Passed(k, th[c].at)
                    THEN [th EXCEPT ![c].pc = "delData", ![c].key = k,
                                    ![c].todo = @ \ {k}]
                    ELSE [th EXCEPT ![c].todo = @ \ {k}]
        BY <2>2 DEF SweepVisit
      <3>2. QED
        BY <2>2, <3>1 DEF SweepVisit, AllOps
    <2>3. CASE SweepEnd(c)
      BY <2>3 DEF SweepEnd, AllOps
    <2>4. QED
      BY <1>14, <2>1, <2>2, <2>3
  <1>15. ASSUME NEW c \in Cleaners, FixedTimeClear(c)
         PROVE TypeOK'
    BY <1>15 DEF FixedTimeClear, AllOps
  <1>16. ASSUME NEW c \in Cleaners, CleanerExit(c)
         PROVE TypeOK'
    BY <1>16 DEF CleanerExit, AllOps
  <1>17. ASSUME NEW kd \in {"ticker", "fixed"}, Switch(kd)
         PROVE TypeOK'
    BY <1>17 DEF Switch, AllOps
  <1>18. CASE Tick
    BY <1>18 DEF Tick, AllOps
  <1>19. CASE UNCHANGED vars
    BY <1>19 DEF vars
  <1>20. QED
    BY <1>1, <1>2, <1>3, <1>4, <1>5, <1>6, <1>7, <1>8, <1>9, <1>10, <1>11,
       <1>12, <1>13, <1>14, <1>15, <1>16, <1>17, <1>18, <1>19
       DEF Next, Call, CallerStep, CleanerStep, Continue

(***************************************************************************)
(* Every variable stays within its type, and a clean-up goroutine that has *)
(* not started or has returned is at rest.                                 *)
(***************************************************************************)
THEOREM TypeCorrect == Spec => []TypeOK
  BY InitTypes, NextTypes, PTL DEF Spec

-----------------------------------------------------------------------------
(* BoundedLife, for the callers that do not use LoadOrStore: the ones of   *)
(* TTLCache. LoadOrStore renews a deadline without writing the value.      *)

LInv == TypeOK /\ BoundedLife /\ LagInv

LEMMA InitLag == Init => BoundedLife /\ LagInv
  BY NoneAssumption, ThreadAssumption, TimeAssumption
     DEF Init, BoundedLife, LagInv

(***************************************************************************)
(* A step that leaves the clock alone, sets no deadline and brings no      *)
(* caller between two writes or two reads keeps the bound.                 *)
(***************************************************************************)
LEMMA QuietStep ==
  ASSUME LInv, UNCHANGED now,
         \A k \in Keys : exp'[k] \in {exp[k], None},
         \A k \in Keys : born'[k] \in {born[k], now},
         \A p \in Callers :
           th'[p].pc \in {"storeExp", "loadData"} =>
             th'[p].pc = th[p].pc /\ th'[p].key = th[p].key /\ th'[p].at = th[p].at
  PROVE  BoundedLife' /\ LagInv'
  <1>1. BoundedLife'
    BY NoneAssumption, TimeAssumption DEF LInv, TypeOK, BoundedLife, LagInv
  <1>2. LagInv'
    <2>1. \A k \in Keys : born'[k] <= now'
      BY DEF LInv, TypeOK, LagInv
    <2>2. ASSUME NEW p \in Callers, th'[p].pc \in {"storeExp", "loadData"}
          PROVE  /\ th[p].key \in Keys /\ th[p].at \in Nat
                 /\ born[th[p].key] \in Nat /\ now \in Nat
                 /\ th'[p].pc = th[p].pc
                 /\ th'[p].key = th[p].key /\ th'[p].at = th[p].at
                 /\ th[p].at <= now /\ now <= th[p].at + MaxLag
                 /\ born'[th[p].key] \in {born[th[p].key], now}
      BY <2>2 DEF LInv, TypeOK, LagInv, Frame
    <2>3. ASSUME NEW p \in Callers, th'[p].pc = "storeExp"
          PROVE  th'[p].at <= born'[th'[p].key]
      BY <2>2, <2>3 DEF LInv, LagInv
    <2>4. ASSUME NEW p \in Callers, th'[p].pc = "loadData"
          PROVE  th'[p].at <= born'[th'[p].key] + MaxTTL + MaxLag
      BY <2>2, <2>4, TimeAssumption DEF LInv, LagInv
    <2>5. QED
      BY <2>1, <2>2, <2>3, <2>4 DEF LagInv
  <1>3. QED
    BY <1>1, <1>2

LEMMA NextLag ==
  ASSUME "LoadOrStore" \notin Ops, LInv, [Next]_vars
  PROVE  BoundedLife' /\ LagInv'
  <1> USE NoneAssumption, ThreadAssumption, TimeAssumption DEF LInv, TypeOK
  <1>1. ASSUME NEW p \in Callers, NEW k \in Keys, NEW v \in Values, Store(p, k, v)
        PROVE BoundedLife' /\ LagInv'
    <2>1. BoundedLife'
      BY <1>1 DEF Store, BoundedLife, LagInv
    <2>2. LagInv'
      BY <1>1 DEF Store, LagInv, Frame
    <2>3. QED
      BY <2>1, <2>2
  <1>2. ASSUME NEW p \in Callers, NXStore(p)
        PROVE BoundedLife' /\ LagInv'
    <2>1. BoundedLife'
      BY <1>2 DEF NXStore, BoundedLife, LagInv
    <2>2. LagInv'
      BY <1>2 DEF NXStore, LagInv, Frame
    <2>3. QED
      BY <2>1, <2>2
  <1>3. ASSUME NEW p \in Callers, StoreExp(p)
        PROVE BoundedLife' /\ LagInv'
    <2>1. PICK ttl \in TTLs : exp' = [exp EXCEPT ![th[p].key] = now + ttl]
      BY <1>3 DEF StoreExp
    <2>2. now + ttl <= born[th[p].key] + MaxTTL + MaxLag
      BY <1>3 DEF StoreExp, LagInv, Frame
    <2>3. BoundedLife'
      BY <1>3, <2>1, <2>2 DEF StoreExp, BoundedLife
    <2>4. LagInv'
      BY <1>3 DEF StoreExp, LagInv, Frame
    <2>5. QED
      BY <2>3, <2>4
  <1>4. ASSUME NEW p \in Callers, NEW o \in {"Load", "SetNX"}, NEW k \in Keys,
               NEW v \in Values \cup {None}, Lookup(p, o, k, v)
        PROVE BoundedLife' /\ LagInv'
    <2>1. CASE LookupFresh(p, o, k, v)
      <3>1. now <= born[k] + MaxTTL + MaxLag
        BY <2>1 DEF LookupFresh, BoundedLife
      <3>2. BoundedLife'
        BY <1>4 DEF Lookup, BoundedLife
      <3>3. LagInv'
        BY <1>4, <2>1, <3>1 DEF Lookup, LookupFresh, LagInv, Frame
      <3>4. QED
        BY <3>2, <3>3
    <2>2. CASE LookupNone(p, o, k, v) \/ LookupExpired(p, o, k, v)
      <3>1. \/ Enter(p, o, "nxStore", k, v)
            \/ Return(p)
            \/ Enter(p, o, "delData", k, v)
        BY ONLY <2>2 DEF LookupNone, LookupExpired
      <3>2. QED
        BY <1>4, <3>1, QuietStep DEF Lookup, Frame
    <2>3. QED
      BY <1>4, <2>1, <2>2 DEF Lookup
  <1>5. ASSUME NEW p \in Callers, LoadData(p)
        PROVE BoundedLife' /\ LagInv'
    <2>1. Goto(p, "nxStore") \/ Return(p)
      BY ONLY <1>5 DEF LoadData
    <2>2. At(p, "loadData") /\ UNCHANGED <<exp, now, born>>
      BY <1>5 DEF LoadData
    <2>3. QED
      BY <2>1, <2>2, QuietStep, SMTT(30) DEF Frame
  <1>6. ASSUME NEW t \in Threads, DelExp(t)
        PROVE BoundedLife' /\ LagInv'
    <2>1. Goto(t, "nxStore") \/ Goto(t, "sweep") \/ Return(t)
      BY ONLY <1>6 DEF DelExp
    <2>2. QED
      BY <1>6, <2>1, QuietStep DEF DelExp, Frame
  <1>7. ASSUME NEW t \in Threads, ClearData(t)
        PROVE BoundedLife' /\ LagInv'
    <2>1. PICK k \in th[t].todo :
            \/ th' = [th EXCEPT ![t].pc = "clearExp", ![t].todo = Keys]
            \/ th' = [th EXCEPT ![t].todo = @ \ {k}]
      BY ONLY <1>7 DEF ClearData
    <2>2. QED
      BY <1>7, <2>1, QuietStep DEF ClearData, Frame
  <1>8. ASSUME NEW t \in Threads, ClearExp(t)
        PROVE BoundedLife' /\ LagInv'
    <2>1. PICK k \in th[t].todo :
            /\ exp' = [exp EXCEPT ![k] = None]
            /\ Return(t) \/ th' = [th EXCEPT ![t].todo = @ \ {k}]
      BY ONLY <1>8 DEF ClearExp
    <2>2. QED
      BY <1>8, <2>1, QuietStep DEF ClearExp, Frame
  <1>9. ASSUME NEW p \in Callers, LoadOrStoreData(p)
        PROVE BoundedLife' /\ LagInv'
    <2>1. born' = born \/ born' = [born EXCEPT ![th[p].key] = now]
      BY ONLY <1>9 DEF LoadOrStoreData
    <2>2. QED
      BY <1>9, <2>1, QuietStep DEF LoadOrStoreData, Frame
  <1>11. ASSUME NEW p \in Callers, NEW o \in {"Clear", "Dispose"}, Clear(p, o)
         PROVE BoundedLife' /\ LagInv'
    BY <1>11, QuietStep DEF Clear, Frame
  <1>12. ASSUME NEW t \in Threads, DelData(t)
         PROVE BoundedLife' /\ LagInv'
    BY <1>12, QuietStep DEF DelData, Frame
  <1>13. ASSUME NEW c \in Cleaners,
                SweepStart(c) \/ SweepVisit(c) \/ SweepEnd(c) \/ FixedTimeClear(c)
         PROVE BoundedLife' /\ LagInv'
    <2>1. \A p \in Callers : th'[p] = th[p]
      BY <1>13 DEF SweepStart, SweepVisit, SweepEnd, FixedTimeClear
    <2>2. UNCHANGED <<exp, born, now>>
      BY <1>13 DEF SweepStart, SweepVisit, SweepEnd, FixedTimeClear
    <2>3. QED
      BY <2>1, <2>2, QuietStep
  <1>15. CASE Tick
    <2>1. BoundedLife'
      BY <1>15 DEF Tick, BoundedLife
    <2>2. ASSUME NEW p \in Callers, th[p].pc \in {"storeExp", "loadData"}
          PROVE  now + 1 <= th[p].at + MaxLag
      BY <1>15, <2>2 DEF Tick, Prompt, Frame
    <2>3. LagInv'
      BY <1>15, <2>2 DEF Tick, LagInv, Frame
    <2>4. QED
      BY <2>1, <2>3
  <1>16. CASE UNCHANGED vars
    BY <1>16, QuietStep DEF vars
  <1>17. CASE \E kd \in {"ticker", "fixed"} : Switch(kd)
    BY <1>17, QuietStep DEF Switch
  <1>18. CASE \E c \in Cleaners : CleanerExit(c)
    BY <1>18, QuietStep DEF CleanerExit
  <1>19. ASSUME NEW p \in Callers, NEW k \in Keys, Delete(p, k)
         PROVE BoundedLife' /\ LagInv'
    BY <1>19, QuietStep DEF Delete, Frame
  <1>20. ASSUME NEW p \in Callers, Call(p)
         PROVE BoundedLife' /\ LagInv'
    BY <1>1, <1>4, <1>11, <1>19, <1>20 DEF Call, LoadOrStore
  <1>21. ASSUME NEW p \in Callers, CallerStep(p)
         PROVE BoundedLife' /\ LagInv'
    BY <1>2, <1>3, <1>5, <1>6, <1>7, <1>8, <1>9, <1>12, <1>21
       DEF CallerStep, Continue
  <1>22. ASSUME NEW c \in Cleaners, CleanerStep(c)
         PROVE BoundedLife' /\ LagInv'
    BY <1>6, <1>7, <1>8, <1>12, <1>13, <1>22 DEF CleanerStep, Continue
  <1>23. QED
    BY <1>15, <1>16, <1>17, <1>18, <1>20, <1>21, <1>22 DEF Next

(***************************************************************************)
(* No deadline keeps a value beyond the largest ttl and one Store's lag.   *)
(***************************************************************************)
THEOREM LifeIsBounded ==
  ASSUME "LoadOrStore" \notin Ops
  PROVE  Spec => []BoundedLife
  <1>1. Init => LInv
    BY InitTypes, InitLag DEF LInv
  <1>2. LInv /\ [Next]_vars => LInv'
    BY NextTypes, NextLag DEF LInv
  <1>3. LInv => BoundedLife
    BY DEF LInv
  <1>4. QED
    BY <1>1, <1>2, <1>3, PTL DEF Spec

-----------------------------------------------------------------------------
(* The step simulation: what each action of TTLMap is to a user of the     *)
(* cache. Removals drop, stores put, answers hit or miss, and everything   *)
(* that touches only deadlines or goroutines is invisible.                 *)

AbsStep == [Abstract!Next]_(Abstract!lvars)

LEMMA DropStep ==
  ASSUME NEW k \in Keys, data' = [data EXCEPT ![k] = None],
         UNCHANGED <<born, res, now>>
  PROVE  AbsStep
  BY DEF AbsStep, Abstract!Next, Abstract!Drop

LEMMA PutStep ==
  ASSUME NEW k \in Keys, NEW v \in Values, Put(k, v), UNCHANGED <<res, now>>
  PROVE  AbsStep
  BY DEF AbsStep, Abstract!Next, Abstract!Put

LEMMA MissStep ==
  ASSUME NEW p \in Callers, res' = [res EXCEPT ![p] = None],
         UNCHANGED <<data, born, now>>
  PROVE  AbsStep
  BY DEF AbsStep, Abstract!Next, Abstract!Miss

LEMMA SilentStep ==
  ASSUME UNCHANGED <<data, born, res, now>>
  PROVE  AbsStep
  BY DEF AbsStep, Abstract!lvars

(* Nobody is inside a LoadOrStore when nobody calls it.                    *)
NotInLoadOrStore == \A t \in Threads : ~At(t, "losData")

LEMMA NextNotInLoadOrStore ==
  ASSUME "LoadOrStore" \notin Ops, TypeOK, NotInLoadOrStore, [Next]_vars
  PROVE  NotInLoadOrStore'
  <1> USE DEF NotInLoadOrStore, TypeOK, Frame
  <1>1. ASSUME NEW p \in Callers, Call(p)
        PROVE NotInLoadOrStore'
    <2>1. ASSUME NEW k \in Keys, NEW v \in Values \cup {None},
                 NEW o \in {"Load", "SetNX"}, Lookup(p, o, k, v)
          PROVE NotInLoadOrStore'
      <3>1. \/ Enter(p, o, "nxStore", k, v) \/ Return(p)
            \/ Enter(p, o, "delData", k, v) \/ Enter(p, o, "loadData", k, v)
        BY ONLY <2>1 DEF Lookup, LookupNone, LookupExpired, LookupFresh
      <3>2. QED
        BY <3>1
    <2>2. QED
      BY <1>1, <2>1 DEF Call, Store, LoadOrStore, Delete, Clear
  <1>2. ASSUME NEW t \in Threads, Continue(t)
        PROVE NotInLoadOrStore'
    <2>1. PICK T \in SUBSET Keys :
            \/ Goto(t, "delExp") \/ Goto(t, "nxStore") \/ Goto(t, "sweep")
            \/ Return(t)
            \/ th' = [th EXCEPT ![t].pc = "clearExp", ![t].todo = Keys]
            \/ th' = [th EXCEPT ![t].todo = T]
      <3>1. CASE DelData(t)
        BY <3>1 DEF DelData
      <3>2. CASE DelExp(t)
        BY ONLY <3>2 DEF DelExp
      <3>3. CASE ClearData(t) \/ ClearExp(t)
        <4>1. PICK k \in th[t].todo :
                \/ Return(t)
                \/ th' = [th EXCEPT ![t].pc = "clearExp", ![t].todo = Keys]
                \/ th' = [th EXCEPT ![t].todo = @ \ {k}]
          BY ONLY <3>3 DEF ClearData, ClearExp
        <4>2. th[t].todo \ {k} \in SUBSET Keys
          OBVIOUS
        <4>3. QED
          BY <4>1, <4>2
      <3>4. QED
        BY <1>2, <3>1, <3>2, <3>3 DEF Continue
    <2>2. QED
      BY <2>1, SMTT(30)
  <1>3. ASSUME NEW p \in Callers, CallerStep(p)
        PROVE NotInLoadOrStore'
    <2>1. CASE LoadData(p)
      <3>1. Goto(p, "nxStore") \/ Return(p)
        BY ONLY <2>1 DEF LoadData
      <3>2. QED
        BY <3>1
    <2>2. QED
      BY <1>2, <1>3, <2>1 DEF CallerStep, StoreExp, NXStore, LoadOrStoreData
  <1>4. ASSUME NEW c \in Cleaners, CleanerStep(c)
        PROVE NotInLoadOrStore'
    <2>1. CASE SweepVisit(c)
      <3>1. PICK k \in th[c].todo :
              \/ th' = [th EXCEPT ![c].pc = "delData", ![c].key = k,
                                  ![c].todo = @ \ {k}]
              \/ th' = [th EXCEPT ![c].todo = @ \ {k}]
        BY ONLY <2>1 DEF SweepVisit
      <3>2. QED
        BY <3>1, SMTT(30)
    <2>2. QED
      BY <1>2, <1>4, <2>1 DEF CleanerStep, SweepStart, SweepEnd, FixedTimeClear
  <1>5. ASSUME UNCHANGED th
        PROVE NotInLoadOrStore'
    BY <1>5
  <1>6. QED
    BY <1>1, <1>3, <1>4, <1>5 DEF Next, CleanerExit, Switch, Tick, vars

LEMMA NextSimulates ==
  ASSUME "LoadOrStore" \notin Ops, LInv, NotInLoadOrStore, [Next]_vars
  PROVE  AbsStep
  <1> USE DEF LInv, TypeOK
  <1>1. ASSUME NEW p \in Callers, Call(p)
        PROVE AbsStep
    <2>1. ASSUME NEW k \in Keys, NEW v \in Values, Store(p, k, v)
          PROVE AbsStep
      BY <2>1, PutStep DEF Store
    <2>2. ASSUME NEW k \in Keys, NEW v, NEW o, Lookup(p, o, k, v)
          PROVE AbsStep
      <3>1. UNCHANGED <<data, born, now>> /\ (res' = res \/ res' = [res EXCEPT ![p] = None])
        BY ONLY <2>2 DEF Lookup, LookupNone, LookupExpired, LookupFresh
      <3>2. QED
        BY <3>1, MissStep, SilentStep
    <2>3. ASSUME NEW k \in Keys, Delete(p, k)
          PROVE AbsStep
      BY <2>3, DropStep DEF Delete
    <2>4. ASSUME NEW o, Clear(p, o)
          PROVE AbsStep
      BY <2>4, SilentStep DEF Clear
    <2>5. QED
      BY <1>1, <2>1, <2>2, <2>3, <2>4 DEF Call, LoadOrStore
  <1>2. ASSUME NEW t \in Threads, Continue(t)
        PROVE AbsStep
    <2>1. CASE DelData(t)
      BY <2>1, DropStep DEF DelData
    <2>2. CASE DelExp(t)
      <3>1. UNCHANGED <<data, born, now>> /\ (res' = res \/ res' = [res EXCEPT ![t] = None])
        BY ONLY <2>2 DEF DelExp
      <3>2. CASE t \in Callers
        BY <3>1, <3>2, MissStep, SilentStep
      <3>3. CASE t \notin Callers
        BY <3>1, <3>3, SilentStep
      <3>4. QED
        BY <3>2, <3>3
    <2>3. CASE ClearData(t)
      <3>1. PICK k \in th[t].todo : data' = [data EXCEPT ![k] = None]
        BY ONLY <2>3 DEF ClearData
      <3>2. k \in Keys
        BY DEF Frame
      <3>3. QED
        BY <2>3, <3>1, <3>2, DropStep DEF ClearData
    <2>4. CASE ClearExp(t)
      BY <2>4, SilentStep DEF ClearExp
    <2>5. QED
      BY <1>2, <2>1, <2>2, <2>3, <2>4 DEF Continue
  <1>3. ASSUME NEW p \in Callers, CallerStep(p)
        PROVE AbsStep
    <2>1. CASE StoreExp(p)
      BY <2>1, SilentStep DEF StoreExp
    <2>2. CASE LoadData(p)
      <3>1. CASE data[th[p].key] = None
        <4>1. res' = [res EXCEPT ![p] = None] /\ UNCHANGED <<data, born, now>>
          BY ONLY <2>2, <3>1 DEF LoadData
        <4>2. QED
          BY <4>1, MissStep
      <3>2. CASE data[th[p].key] # None
        <4>1. /\ res' = [res EXCEPT ![p] = <<th[p].key, data[th[p].key]>>]
              /\ UNCHANGED <<data, born, now>>
          BY ONLY <2>2, <3>2 DEF LoadData
        <4>2. th[p].key \in Keys
          BY <2>2 DEF LoadData
        <4>3. now <= born[th[p].key] + (MaxTTL + 2 * MaxLag)
          BY <2>2, <4>2, TimeAssumption DEF LoadData, LagInv, Frame
        <4>4. Abstract!Hit(p, th[p].key)
          BY <3>2, <4>1, <4>3 DEF Abstract!Hit, Abstract!Available
        <4>5. QED
          BY <4>2, <4>4 DEF AbsStep, Abstract!Next
      <3>3. QED
        BY <3>1, <3>2
    <2>3. CASE NXStore(p)
      BY <2>3, PutStep DEF NXStore
    <2>4. CASE LoadOrStoreData(p)
      BY <2>4 DEF LoadOrStoreData, NotInLoadOrStore
    <2>5. CASE Continue(p)
      BY <1>2, <2>5
    <2>6. QED
      BY <1>3, <2>1, <2>2, <2>3, <2>4, <2>5 DEF CallerStep
  <1>4. ASSUME NEW c \in Cleaners, CleanerStep(c)
        PROVE AbsStep
    BY <1>2, <1>4, SilentStep
       DEF CleanerStep, SweepStart, SweepVisit, SweepEnd, FixedTimeClear
  <1>5. ASSUME NEW c \in Cleaners, CleanerExit(c)
        PROVE AbsStep
    BY <1>5, SilentStep DEF CleanerExit
  <1>6. ASSUME NEW kd, Switch(kd)
        PROVE AbsStep
    BY <1>6, SilentStep DEF Switch
  <1>7. CASE Tick
    BY <1>7 DEF Tick, AbsStep, Abstract!Next, Abstract!Advance
  <1>8. CASE UNCHANGED vars
    BY <1>8, SilentStep DEF vars
  <1>9. QED
    BY <1>1, <1>3, <1>4, <1>5, <1>6, <1>7, <1>8 DEF Next

(***************************************************************************)
(* TTLMap, under the callers TTLCache brings, is an expiring cache: a hit  *)
(* is the value stored under the key as the call answers, and is no older  *)
(* than the largest ttl plus twice the lag.                                *)
(***************************************************************************)
THEOREM TTLMapIsACache ==
  ASSUME "LoadOrStore" \notin Ops
  PROVE  Spec => ImplementsCache
  <1> DEFINE Inv == LInv /\ NotInLoadOrStore
  <1>1. Init => Inv
    <2>1. Init => NotInLoadOrStore
      BY DEF Init, NotInLoadOrStore
    <2>2. QED
      BY <2>1, InitTypes, InitLag DEF LInv
  <1>2. Inv /\ [Next]_vars => Inv'
    BY NextTypes, NextLag, NextNotInLoadOrStore DEF LInv
  <1>3. Init => Abstract!Init
    BY DEF Init, Abstract!Init
  <1>4. Inv /\ [Next]_vars => [Abstract!Next]_(Abstract!lvars)
    BY NextSimulates DEF AbsStep
  <1> HIDE DEF Inv
  <1>5. QED
    BY <1>1, <1>2, <1>3, <1>4, PTL DEF Spec, ImplementsCache, Abstract!Spec

-----------------------------------------------------------------------------
(* What the maps hold under a key nobody else is writing.                  *)

Coherent(k) == (data[k] # None) <=> (exp[k] # None)

(* ... and how far the one goroutine that is writing it has come.          *)
Midway(t, k) ==
  /\ At(t, "storeExp") => data[k] # None
  /\ At(t, "losData") => exp[k] # None
  /\ At(t, "delExp") => data[k] = None
  /\ At(t, "delData") => Passed(k, now)
  /\ At(t, "clearExp") => data[k] = None
  /\ At(t, "clearData") /\ k \notin th[t].todo => data[k] = None
  /\ At(t, "clearExp") /\ k \notin th[t].todo => exp[k] = None
  /\ th[t].pc \in {"loadData", "nxStore", "delData"}
       \/ (At(t, "clearData") /\ k \in th[t].todo) => Coherent(k)

KeyInv(k) ==
  /\ \A t, u \in Threads : Writing(t, k) /\ Writing(u, k) => t = u
  /\ \A t \in Threads : Writing(t, k) => Midway(t, k)
  /\ (\A t \in Threads : ~Writing(t, k)) => Coherent(k)

(* No goroutine entered its operation in the future, only a Clear or a     *)
(* Dispose clears, and a SetNX is at one of its own labels.                *)
FrameInv ==
  \A t \in Threads :
    /\ th[t].at <= now
    /\ th[t].pc \in {"clearData", "clearExp"} => th[t].op \in {"Clear", "Dispose"}
    /\ th[t].op = "SetNX" =>
         th[t].pc \in {"loadData", "nxStore", "storeExp", "delData", "delExp"}

RaceInv == FrameInv /\ \A k \in Keys \ raced : KeyInv(k)

(***************************************************************************)
(* One goroutine t moves: the others stay where they are, t itself reaches *)
(* a point it may be at, and it changes the entry under k only while it is *)
(* writing k, and leaves it whole when it is done.                         *)
(***************************************************************************)
Moved(t) == now' = now /\ \A u \in Threads : u # t => th'[u] = th[u]

Goes(t, k) ==
  /\ Writing(t, k)' => Midway(t, k)'
  /\ \/ Writing(t, k)'
     \/ Writing(t, k) /\ Coherent(k)'
     \/ ~Writing(t, k) /\ data'[k] = data[k] /\ exp'[k] = exp[k]

(* What t can rely on under k when no other goroutine is writing k.        *)
Ground(t, k) ==
  /\ Writing(t, k) => Midway(t, k)
  /\ ~Writing(t, k) /\ Writing(t, k)' => Coherent(k)

Alone(k) == \A t, u \in Threads : Writing(t, k)' /\ Writing(u, k)' => t = u

LEMMA SoleWriterGround ==
  ASSUME NEW t \in Threads, NEW k \in Keys, KeyInv(k), Alone(k), Moved(t)
  PROVE  Ground(t, k)
  <1>1. Writing(t, k) => Midway(t, k)
    BY DEF KeyInv
  <1>2. ASSUME ~Writing(t, k), Writing(t, k)', NEW u \in Threads, Writing(u, k)
        PROVE  FALSE
    <2>1. u # t
      BY <1>2
    <2>2. th'[u] = th[u]
      BY <2>1 DEF Moved
    <2>3. Writing(u, k)'
      BY <1>2, <2>2 DEF Writing
    <2>4. QED
      BY <1>2, <2>1, <2>3 DEF Alone
  <1>3. QED
    BY <1>1, <1>2 DEF Ground, KeyInv

LEMMA MoveKeepsKey ==
  ASSUME NEW t \in Threads, NEW k \in Keys,
         KeyInv(k), Alone(k), Moved(t), Goes(t, k)
  PROVE  KeyInv(k)'
  <1>1. \A u \in Threads : u # t => (Writing(u, k)' <=> Writing(u, k))
    BY DEF Moved, Writing
  <1>2. ASSUME NEW u \in Threads, Writing(u, k)'
        PROVE  Midway(u, k)'
    <2>1. CASE u = t
      BY <1>2, <2>1 DEF Goes
    <2>2. CASE u # t
      <3>1. Writing(u, k) /\ th'[u] = th[u] /\ now' = now
        BY <1>1, <1>2, <2>2 DEF Moved
      <3>2. ~Writing(t, k) /\ ~Writing(t, k)'
        BY <1>2, <2>2, <3>1 DEF Alone, KeyInv
      <3>3. data'[k] = data[k] /\ exp'[k] = exp[k]
        BY <3>2 DEF Goes
      <3>4. Midway(u, k)
        BY <3>1 DEF KeyInv
      <3>5. QED
        BY <3>1, <3>3, <3>4 DEF Midway, Coherent
    <2>3. QED
      BY <2>1, <2>2
  <1>3. ASSUME \A u \in Threads : ~Writing(u, k)'
        PROVE  Coherent(k)'
    <2>1. CASE Writing(t, k)
      BY <1>3, <2>1 DEF Goes
    <2>2. CASE ~Writing(t, k)
      <3>1. data'[k] = data[k] /\ exp'[k] = exp[k]
        BY <1>3, <2>2 DEF Goes
      <3>2. Coherent(k)
        BY <1>1, <1>3, <2>2 DEF KeyInv
      <3>3. QED
        BY <3>1, <3>2 DEF Coherent
    <2>3. QED
      BY <2>1, <2>2
  <1>4. QED
    BY <1>2, <1>3 DEF KeyInv, Alone

(* The steps of one goroutine, and those of none.                          *)
Acts(t) ==
  \/ t \in Callers /\ (Call(t) \/ CallerStep(t))
  \/ t \in Cleaners /\ CleanerStep(t)

LEMMA NextActs ==
  [Next]_vars =>
    \/ \E t \in Threads : Acts(t)
    \/ UNCHANGED <<data, exp, th>> /\ now' \in {now, now + 1}
  BY DEF Next, Acts, CleanerExit, Switch, Tick, vars

(***************************************************************************)
(* Where a step may take its goroutine, whatever the maps hold.            *)
(***************************************************************************)
LEMMA ActsMoves ==
  ASSUME TypeOK, FrameInv, NEW t \in Threads, Acts(t)
  PROVE  Moved(t) /\ FrameInv'
  <1> USE NoneAssumption, ThreadAssumption DEF TypeOK, Frame, FrameInv, Moved
  <1>1. ASSUME t \in Callers, Call(t)
        PROVE  Moved(t) /\ FrameInv'
    <2>1. ASSUME NEW k \in Keys, NEW v \in Values \cup {None},
                 NEW o \in {"Load", "SetNX"}, o = "SetNX" \/ v = None,
                 Lookup(t, o, k, v)
          PROVE  Moved(t) /\ FrameInv'
      <3>1. \/ o = "SetNX" /\ Enter(t, o, "nxStore", k, v)
            \/ Return(t)
            \/ Enter(t, o, "delData", k, v)
            \/ Enter(t, o, "loadData", k, v)
        BY ONLY <2>1 DEF Lookup, LookupNone, LookupExpired, LookupFresh
      <3>2. now' = now
        BY <2>1 DEF Lookup
      <3>3. QED
        BY <3>1, <3>2, SMTT(30)
    <2>2. ASSUME NEW k \in Keys, NEW v \in Values,
                 Store(t, k, v) \/ LoadOrStore(t, k, v) \/ Delete(t, k)
          PROVE  Moved(t) /\ FrameInv'
      BY <2>2 DEF Store, LoadOrStore, Delete
    <2>3. ASSUME NEW o \in {"Clear", "Dispose"}, Clear(t, o)
          PROVE  Moved(t) /\ FrameInv'
      BY <2>3 DEF Clear
    <2>4. ASSUME NEW k \in Keys, Delete(t, k)
          PROVE  Moved(t) /\ FrameInv'
      BY <2>4 DEF Delete
    <2>5. QED
      BY <1>1, <2>1, <2>2, <2>3, <2>4 DEF Call
  <1>2. ASSUME Continue(t)
        PROVE  Moved(t) /\ FrameInv'
    <2>1. CASE DelData(t)
      BY <2>1 DEF DelData
    <2>2. CASE DelExp(t)
      <3>1. \/ th[t].op = "SetNX" /\ Goto(t, "nxStore")
            \/ th[t].op = "Sweep" /\ Goto(t, "sweep")
            \/ Return(t)
        BY ONLY <2>2 DEF DelExp
      <3>2. now' = now
        BY <2>2 DEF DelExp
      <3>3. QED
        BY <3>1, <3>2, SMTT(30)
    <2>3. CASE ClearData(t) \/ ClearExp(t)
      <3>1. PICK k \in th[t].todo :
              \/ Return(t)
              \/ At(t, "clearData") /\ th' = [th EXCEPT ![t].pc = "clearExp", ![t].todo = Keys]
              \/ th' = [th EXCEPT ![t].todo = @ \ {k}]
        BY ONLY <2>3 DEF ClearData, ClearExp
      <3>2. now' = now
        BY <2>3 DEF ClearData, ClearExp
      <3>3. QED
        BY <3>1, <3>2, SMTT(30)
    <2>4. QED
      BY <1>2, <2>1, <2>2, <2>3 DEF Continue
  <1>3. ASSUME t \in Callers, CallerStep(t)
        PROVE  Moved(t) /\ FrameInv'
    <2>1. CASE LoadData(t)
      <3>1. \/ th[t].op = "SetNX" /\ Goto(t, "nxStore")
            \/ Return(t)
        BY ONLY <2>1 DEF LoadData
      <3>2. now' = now
        BY <2>1 DEF LoadData
      <3>3. CASE th[t].op = "SetNX" /\ Goto(t, "nxStore")
        BY <3>2, <3>3
      <3>4. CASE Return(t)
        BY <3>2, <3>4
      <3>5. QED
        BY <3>1, <3>3, <3>4
    <2>2. CASE StoreExp(t) \/ LoadOrStoreData(t)
      <3>1. Return(t) /\ now' = now
        BY ONLY <2>2 DEF StoreExp, LoadOrStoreData
      <3>2. QED
        BY <3>1
    <2>3. CASE NXStore(t)
      BY <2>3 DEF NXStore
    <2>4. QED
      BY <1>2, <1>3, <2>1, <2>2, <2>3 DEF CallerStep
  <1>4. ASSUME t \in Cleaners, CleanerStep(t)
        PROVE  Moved(t) /\ FrameInv'
    <2>1. CASE SweepVisit(t)
      <3>1. PICK k \in th[t].todo :
              \/ th' = [th EXCEPT ![t].pc = "delData", ![t].key = k,
                                  ![t].todo = @ \ {k}]
              \/ th' = [th EXCEPT ![t].todo = @ \ {k}]
        BY ONLY <2>1 DEF SweepVisit
      <3>2. At(t, "sweep") /\ now' = now
        BY <2>1 DEF SweepVisit
      <3>3. QED
        BY <3>1, <3>2, SMTT(30)
    <2>2. CASE SweepStart(t) \/ SweepEnd(t) \/ FixedTimeClear(t)
      BY <2>2 DEF SweepStart, SweepEnd, FixedTimeClear
    <2>3. QED
      BY <1>2, <1>4, <2>1, <2>2 DEF CleanerStep
  <1>5. QED
    BY <1>1, <1>3, <1>4 DEF Acts

(***************************************************************************)
(* Each operation, step by step, keeps its half of the bargain.            *)
(***************************************************************************)
LEMMA ActsGo ==
  ASSUME TypeOK, FrameInv, NEW t \in Threads, NEW k \in Keys, Acts(t),
         Ground(t, k)
  PROVE  Goes(t, k)
  <1> USE NoneAssumption, TimeAssumption
      DEF TypeOK, Frame, FrameInv, Ground, Goes, Writing, Midway, Coherent
  <1>1. ASSUME t \in Callers, NEW q \in Keys, NEW v \in Values, Store(t, q, v)
        PROVE  Goes(t, k)
    BY <1>1 DEF Store
  <1>2. ASSUME t \in Callers, StoreExp(t)
        PROVE  Goes(t, k)
    <2>1. PICK ttl \in TTLs : exp' = [exp EXCEPT ![th[t].key] = now + ttl]
      BY <1>2 DEF StoreExp
    <2>2. now + ttl # None
      OBVIOUS
    <2>3. QED
      BY <1>2, <2>1, <2>2 DEF StoreExp
  <1>3. ASSUME t \in Callers, NEW q \in Keys, NEW o \in {"Load", "SetNX"},
               NEW v \in Values \cup {None}, Lookup(t, o, q, v)
        PROVE  Goes(t, k)
    <2>1. CASE LookupNone(t, o, q, v)
      BY <1>3, <2>1 DEF Lookup, LookupNone
    <2>2. CASE LookupExpired(t, o, q, v)
      BY <1>3, <2>2 DEF Lookup, LookupExpired
    <2>3. CASE LookupFresh(t, o, q, v)
      BY <1>3, <2>3 DEF Lookup, LookupFresh
    <2>4. QED
      BY <1>3, <2>1, <2>2, <2>3 DEF Lookup
  <1>4. ASSUME t \in Callers, LoadData(t)
        PROVE  Goes(t, k)
    <2>1. \/ th[t].op = "SetNX" /\ data[th[t].key] = None /\ Goto(t, "nxStore")
          \/ Return(t)
      BY ONLY <1>4 DEF LoadData
    <2>2. At(t, "loadData") /\ UNCHANGED <<data, exp, now>>
      BY <1>4 DEF LoadData
    <2>3. QED
      BY <2>1, <2>2
  <1>5. ASSUME t \in Callers, NXStore(t)
        PROVE  Goes(t, k)
    BY <1>5 DEF NXStore
  <1>6. ASSUME t \in Callers, NEW q \in Keys, NEW v \in Values, LoadOrStore(t, q, v)
        PROVE  Goes(t, k)
    <2>1. PICK ttl \in TTLs : exp' = [exp EXCEPT ![q] = now + ttl]
      BY <1>6 DEF LoadOrStore
    <2>2. now + ttl # None
      OBVIOUS
    <2>3. QED
      BY <1>6, <2>1, <2>2 DEF LoadOrStore
  <1>7. ASSUME t \in Callers, LoadOrStoreData(t)
        PROVE  Goes(t, k)
    <2>1. th[t].key \in Keys /\ th[t].val \in Values
      BY <1>7 DEF LoadOrStoreData
    <2>2. data' = IF data[th[t].key] = None
                  THEN [data EXCEPT ![th[t].key] = th[t].val] ELSE data
      BY <1>7 DEF LoadOrStoreData
    <2>3. QED
      BY <1>7, <2>1, <2>2 DEF LoadOrStoreData
  <1>8. ASSUME t \in Callers, NEW q \in Keys, Delete(t, q)
        PROVE  Goes(t, k)
    BY <1>8 DEF Delete
  <1>9. ASSUME DelData(t)
        PROVE  Goes(t, k)
    BY <1>9 DEF DelData
  <1>10. ASSUME DelExp(t)
         PROVE  Goes(t, k)
    <2>1. \/ th[t].op = "SetNX" /\ Goto(t, "nxStore")
          \/ th[t].op = "Sweep" /\ Goto(t, "sweep")
          \/ th[t].op # "SetNX" /\ Return(t)
      BY ONLY <1>10 DEF DelExp
    <2>2. /\ At(t, "delExp") /\ UNCHANGED <<data, now>>
          /\ exp' = [exp EXCEPT ![th[t].key] = None]
      BY <1>10 DEF DelExp
    <2>3. QED
      BY <2>1, <2>2
  <1>11. ASSUME t \in Callers, NEW o \in {"Clear", "Dispose"}, Clear(t, o)
         PROVE  Goes(t, k)
    BY <1>11 DEF Clear
  <1>12. ASSUME ClearData(t)
         PROVE  Goes(t, k)
    <2>1. PICK q \in th[t].todo :
            /\ data' = [data EXCEPT ![q] = None]
            /\ \/ th[t].todo = {q}
                    /\ th' = [th EXCEPT ![t].pc = "clearExp", ![t].todo = Keys]
               \/ th' = [th EXCEPT ![t].todo = @ \ {q}]
      BY ONLY <1>12 DEF ClearData
    <2>2. At(t, "clearData") /\ UNCHANGED <<exp, now>>
      BY <1>12 DEF ClearData
    <2>3. QED
      BY <2>1, <2>2
  <1>13. ASSUME ClearExp(t)
         PROVE  Goes(t, k)
    <2>1. PICK q \in th[t].todo :
            /\ exp' = [exp EXCEPT ![q] = None]
            /\ \/ th[t].todo = {q} /\ Return(t)
               \/ th' = [th EXCEPT ![t].todo = @ \ {q}]
      BY ONLY <1>13 DEF ClearExp
    <2>2. At(t, "clearExp") /\ UNCHANGED <<data, now>>
      BY <1>13 DEF ClearExp
    <2>3. QED
      BY <2>1, <2>2
  <1>14. ASSUME t \in Cleaners, SweepStart(t)
         PROVE  Goes(t, k)
    BY <1>14 DEF SweepStart
  <1>15. ASSUME t \in Cleaners, SweepVisit(t)
         PROVE  Goes(t, k)
    <2>1. PICK q \in th[t].todo :
            \/ Passed(q, th[t].at)
                 /\ th' = [th EXCEPT ![t].pc = "delData", ![t].key = q,
                                     ![t].todo = @ \ {q}]
            \/ th' = [th EXCEPT ![t].todo = @ \ {q}]
      BY ONLY <1>15 DEF SweepVisit
    <2>2. At(t, "sweep") /\ UNCHANGED <<data, exp, now>>
      BY <1>15 DEF SweepVisit
    <2>3. QED
      BY <2>1, <2>2
  <1>16. ASSUME t \in Cleaners, SweepEnd(t)
         PROVE  Goes(t, k)
    BY <1>16 DEF SweepEnd
  <1>17. ASSUME t \in Cleaners, FixedTimeClear(t)
         PROVE  Goes(t, k)
    BY <1>17 DEF FixedTimeClear
  <1>18. QED
    BY ONLY <1>1, <1>2, <1>3, <1>4, <1>5, <1>6, <1>7, <1>8, <1>9, <1>10, <1>11,
       <1>12, <1>13, <1>14, <1>15, <1>16, <1>17, Acts(t)
       DEF Acts, Call, CallerStep, CleanerStep, Continue

LEMMA InitRace == RInit => RaceInv
  BY NoneAssumption DEF RInit, Init, RaceInv, FrameInv, KeyInv, Writing, Coherent

LEMMA NextRace == TypeOK /\ RaceInv /\ [RNext]_rvars => RaceInv'
  <1> SUFFICES ASSUME TypeOK, RaceInv, [RNext]_rvars PROVE RaceInv'
    OBVIOUS
  <1>1. CASE UNCHANGED rvars
    BY <1>1 DEF rvars, RaceInv, FrameInv, KeyInv, Writing, Midway, Coherent
  <1>2. CASE RNext
    <2>1. [Next]_vars /\ raced \subseteq raced'
      BY <1>2 DEF RNext
    <2>2. ASSUME NEW k \in Keys \ raced'
          PROVE  Alone(k) /\ k \in Keys \ raced
      BY <1>2, <2>2 DEF RNext, Alone
    <2>3. CASE \E t \in Threads : Acts(t)
      <3>1. PICK t \in Threads : Acts(t)
        BY <2>3
      <3>2. Moved(t) /\ FrameInv'
        BY <3>1, ActsMoves DEF RaceInv
      <3>3. ASSUME NEW k \in Keys \ raced'
            PROVE  KeyInv(k)'
        <4>1. Ground(t, k)
          BY <2>2, <3>2, SoleWriterGround DEF RaceInv
        <4>2. Goes(t, k)
          BY <3>1, <4>1, ActsGo DEF RaceInv
        <4>3. QED
          BY <2>2, <3>2, <4>2, MoveKeepsKey DEF RaceInv
      <3>4. QED
        BY <3>2, <3>3 DEF RaceInv
    <2>4. CASE UNCHANGED <<data, exp, th>> /\ now' \in {now, now + 1}
      <3>1. FrameInv'
        BY <2>4 DEF RaceInv, FrameInv, TypeOK, Frame
      <3>2. ASSUME NEW k \in Keys \ raced'
            PROVE  KeyInv(k)'
        BY <2>2, <2>4, NoneAssumption
           DEF RaceInv, KeyInv, Writing, Midway, Coherent, TypeOK
      <3>3. QED
        BY <3>1, <3>2 DEF RaceInv
    <2>5. QED
      BY <2>1, <2>3, <2>4, NextActs
  <1>3. QED
    BY <1>1, <1>2

LEMMA RaceAlways == RSpec => [](TypeOK /\ RaceInv)
  <1>1. RInit => TypeOK /\ RaceInv
    BY InitTypes, InitRace DEF RInit
  <1>2. [RNext]_rvars => [Next]_vars
    BY DEF RNext, rvars, vars
  <1>3. TypeOK /\ RaceInv /\ [RNext]_rvars => (TypeOK /\ RaceInv)'
    BY <1>2, NextTypes, NextRace
  <1>4. QED
    BY <1>1, <1>3, PTL DEF RSpec

(***************************************************************************)
(* Whoever keeps the writers of a key apart gets a value exactly when      *)
(* there is a deadline, although Store, Delete, Clear, Load and the sweep  *)
(* write the two maps one after the other and lock nothing.                *)
(***************************************************************************)
THEOREM ApartIsCoherent == RSpec => []RaceFreeCoherent
  <1>1. RaceInv => RaceFreeCoherent
    BY DEF RaceInv, RaceFreeCoherent, KeyInv, Coherent, Writers
  <1>2. QED
    BY <1>1, RaceAlways, PTL

(* Only Delete, an expired entry's removal and Clear take a value away.    *)
LEMMA KeptStep ==
  ASSUME TypeOK, RaceInv, RaceInv', RNext, NEW k \in Keys \ raced',
         data[k] # None, data'[k] = None
  PROVE  \/ Passed(k, now)
         \/ \E t \in Threads :
              th'[t] # th[t] /\ th'[t].op \in {"Delete", "Clear", "Dispose"}
  <1> USE DEF TypeOK, Frame
  <1>1. \A t \in Threads : Writing(t, k) => Midway(t, k)
    BY DEF RNext, RaceInv, KeyInv
  <1>2. PICK t \in Threads : Acts(t)
    BY NextActs DEF RNext
  <1>3. \/ \E q \in Keys : Delete(t, q)
        \/ DelData(t)
        \/ ClearData(t)
    <2>1. ASSUME NEW q, NEW o, NEW v, Lookup(t, o, q, v)
          PROVE  FALSE
      BY <2>1 DEF Lookup
    <2>2. ASSUME NEW q \in Keys, NEW v \in Values,
                 Store(t, q, v) \/ LoadOrStore(t, q, v) \/ Clear(t, "Clear")
                   \/ Clear(t, "Dispose")
          PROVE  FALSE
      BY <2>2, NoneAssumption DEF Store, LoadOrStore, Clear
    <2>3. ASSUME Clear(t, "Clear") \/ Clear(t, "Dispose") \/ StoreExp(t)
                   \/ LoadData(t) \/ DelExp(t) \/ ClearExp(t) \/ SweepStart(t)
                   \/ SweepVisit(t) \/ SweepEnd(t) \/ FixedTimeClear(t)
          PROVE  FALSE
      BY <2>3 DEF Clear, StoreExp, LoadData, DelExp, ClearExp, SweepStart,
                  SweepVisit, SweepEnd, FixedTimeClear
    <2>4. ASSUME NXStore(t) \/ LoadOrStoreData(t)
          PROVE  FALSE
      <3>1. th[t].val \in Values
        BY <2>4 DEF NXStore, LoadOrStoreData
      <3>2. data' = data \/ data' = [data EXCEPT ![th[t].key] = th[t].val]
        BY ONLY <2>4 DEF NXStore, LoadOrStoreData
      <3>3. QED
        BY <3>1, <3>2, NoneAssumption
    <2>5. QED
      BY ONLY <1>2, <2>1, <2>2, <2>3, <2>4
         DEF Acts, Call, CallerStep, CleanerStep, Continue
  <1>4. ASSUME NEW q \in Keys, Delete(t, q)
        PROVE  th'[t] # th[t] /\ th'[t].op = "Delete"
    BY <1>4 DEF Delete
  <1>5. CASE DelData(t)
    <2>1. th[t].key = k
      BY <1>5 DEF DelData
    <2>2. QED
      BY <1>1, <1>5, <2>1 DEF DelData, Writing, Midway
  <1>6. ASSUME ClearData(t)
        PROVE  th'[t] # th[t] /\ th'[t].op \in {"Clear", "Dispose"}
    <2>1. PICK q \in th[t].todo :
            \/ th' = [th EXCEPT ![t].pc = "clearExp", ![t].todo = Keys]
            \/ th' = [th EXCEPT ![t].todo = @ \ {q}]
      BY ONLY <1>6 DEF ClearData
    <2>2. At(t, "clearData") /\ th[t].op \in {"Clear", "Dispose"}
      BY <1>6 DEF ClearData, RaceInv, FrameInv
    <2>3. QED
      BY <2>1, <2>2
  <1>7. QED
    BY <1>3, <1>4, <1>5, <1>6

(***************************************************************************)
(* ... and such a value leaves before its deadline only because it was     *)
(* deleted or everything was cleared: no sweep and no Load removes it on   *)
(* the strength of a deadline that has been replaced.                      *)
(***************************************************************************)
THEOREM ApartIsKept == RSpec => RaceFreeKept
  <1> DEFINE Kept(k) ==
        data[k] # None /\ data'[k] = None =>
          \/ Passed(k, now)
          \/ \E t \in Threads :
               th'[t] # th[t] /\ th'[t].op \in {"Delete", "Clear", "Dispose"}
  <1>1. ASSUME TypeOK, RaceInv, RaceInv', [RNext]_rvars
        PROVE  [\A k \in Keys \ raced' : Kept(k)]_rvars
    <2>1. CASE UNCHANGED rvars
      BY <2>1
    <2>2. CASE RNext
      BY <1>1, <2>2, KeptStep
    <2>3. QED
      BY <1>1, <2>1, <2>2
  <1>2. [][\A k \in Keys \ raced' : Kept(k)]_rvars => RaceFreeKept
    BY DEF RaceFreeKept
  <1> HIDE DEF Kept
  <1>3. QED
    BY <1>1, <1>2, RaceAlways, PTL DEF RSpec
=============================================================================
