----------------------------- MODULE SSEProofs -----------------------------
(***************************************************************************)
(* Proofs about SSE for any number of publishers, any events and any       *)
(* length of the channel: the mutex keeps every send before the close, and *)
(* what was accepted is what the client has got and what waits in the      *)
(* channel.                                                                *)
(***************************************************************************)
EXTENDS SSE, SequenceTheorems, TLAPS

(* A handler that ended because the channel was closed and empty left both *)
(* that way.                                                               *)
DrainedStays == handler = "drained" => closed /\ stream = <<>>

IInv == TypeOK /\ SendsOnOpen /\ DrainedStays /\ NothingLost

LEMMA InitInv == Init => IInv
<1> SUFFICES ASSUME Init PROVE IInv
  OBVIOUS
<1> USE DEF Init, Rest
<1>1. TypeOK
  <2>1. stream \in Seq(Events) /\ sent \in Seq(Events) /\ out \in Seq(Events)
    BY EmptySeq
  <2>2. th \in [Procs -> [pc : {"idle", "publish", "send", "close"},
                         ev : Events \cup {None}]]
    OBVIOUS
  <2> QED
    BY <2>1, <2>2 DEF TypeOK
<1>2. SendsOnOpen
  BY DEF SendsOnOpen, At
<1>3. out \o stream = sent
  OBVIOUS
<1> QED
  BY <1>1, <1>2, <1>3 DEF IInv, DrainedStays, NothingLost

LEMMA NextTypes == TypeOK /\ [Next]_vars => TypeOK'
<1> SUFFICES ASSUME TypeOK, [Next]_vars PROVE TypeOK'
  OBVIOUS
<1> USE DEF TypeOK, Rest, At, Endings
<1>1. ASSUME NEW p \in Procs, NEW e \in Events, Publish(p, e) PROVE TypeOK'
  BY <1>1 DEF Publish, Enter
<1>2. ASSUME NEW p \in Procs, PublishLock(p) PROVE TypeOK'
  <2>1. UNCHANGED <<stream, closed, handler, done, sent, out>>
    BY <1>2 DEF PublishLock
  <2>2. \/ Return(p) /\ lock' = lock
        \/ Enter(p, "send", th[p].ev) /\ lock' = p /\ th[p].pc = "publish"
    BY ONLY <1>2 DEF PublishLock, At
  <2>3. CASE Return(p) /\ lock' = lock
    BY <2>1, <2>3 DEF Return
  <2>4. CASE Enter(p, "send", th[p].ev) /\ lock' = p /\ th[p].pc = "publish"
    BY <2>1, <2>4 DEF Enter
  <2> QED
    BY <2>2, <2>3, <2>4
<1>3. ASSUME NEW p \in Procs, PublishSend(p) PROVE TypeOK'
  <2>1. th[p].ev \in Events
    BY <1>3 DEF PublishSend
  <2>2. stream' \in Seq(Events) /\ sent' \in Seq(Events)
    BY <1>3, <2>1 DEF PublishSend
  <2> QED
    BY <1>3, <2>2 DEF PublishSend, Return
<1>4. ASSUME NEW p \in Procs, Close(p) PROVE TypeOK'
  BY <1>4 DEF Close, Enter
<1>5. ASSUME NEW p \in Procs, CloseLocked(p) PROVE TypeOK'
  BY <1>5 DEF CloseLocked, Return
<1>6. ASSUME NEW p \in Procs, Stop(p) PROVE TypeOK'
  BY <1>6 DEF Stop
<1>7. CASE Disconnect
  BY <1>7 DEF Disconnect
<1>8. CASE ServeHTTP
  BY <1>8 DEF ServeHTTP
<1>9. CASE Cancelled \/ Drained
  BY <1>9 DEF Cancelled, Drained, End
<1>10. CASE Receive
  <2>1. stream' \in Seq(Events) /\ Head(stream) \in Events
    BY <1>10, HeadTailProperties DEF Receive
  <2>2. UNCHANGED <<closed, lock, th, done, sent>>
    BY <1>10 DEF Receive, End
  <2>3. out' \in Seq(Events)
    <3>1. out' = out \/ out' = Append(out, Head(stream))
      BY ONLY <1>10 DEF Receive
    <3>2. Append(out, Head(stream)) \in Seq(Events)
      BY <2>1
    <3> QED
      BY <3>1, <3>2
  <2>4. handler' \in {"serving", "emptied", "failed"}
    <3>1. handler = "serving" /\ handler' \in {handler, "emptied", "failed"}
      BY ONLY <1>10 DEF Receive, End
    <3> QED
      BY ONLY <3>1
  <2> QED
    BY <2>1, <2>2, <2>3, <2>4
<1>11. CASE UNCHANGED vars
  BY <1>11 DEF vars
<1> QED
  BY <1>1, <1>2, <1>3, <1>4, <1>5, <1>6, <1>7, <1>8, <1>9, <1>10, <1>11
  DEF Next, Loop

LEMMA NextSendsOnOpen ==
  TypeOK /\ SendsOnOpen /\ [Next]_vars => SendsOnOpen'
<1> SUFFICES ASSUME TypeOK, SendsOnOpen, [Next]_vars PROVE SendsOnOpen'
  OBVIOUS
<1> USE NoneAssumption DEF TypeOK, SendsOnOpen, Rest, At
<1>1. ASSUME NEW p \in Procs, NEW e \in Events, Publish(p, e)
      PROVE SendsOnOpen'
  BY <1>1 DEF Publish, Enter
<1>2. ASSUME NEW p \in Procs, PublishLock(p) PROVE SendsOnOpen'
  <2>1. lock = None /\ closed' = closed
    BY <1>2 DEF PublishLock
  <2>2. \A q \in Procs : th[q].pc # "send"
    BY <2>1
  <2>3. \/ Return(p)
        \/ Enter(p, "send", th[p].ev) /\ lock' = p /\ ~closed
    BY ONLY <1>2 DEF PublishLock
  <2>4. CASE Return(p)
    BY <2>2, <2>4 DEF Return
  <2>5. CASE Enter(p, "send", th[p].ev) /\ lock' = p /\ ~closed
    BY <2>1, <2>2, <2>5 DEF Enter
  <2> QED
    BY <2>3, <2>4, <2>5
<1>3. ASSUME NEW p \in Procs, PublishSend(p) PROVE SendsOnOpen'
  BY <1>3 DEF PublishSend, Return
<1>4. ASSUME NEW p \in Procs, Close(p) PROVE SendsOnOpen'
  BY <1>4 DEF Close, Enter
<1>5. ASSUME NEW p \in Procs, CloseLocked(p) PROVE SendsOnOpen'
  BY <1>5 DEF CloseLocked, Return
<1>6. ASSUME NEW p \in Procs, Stop(p) PROVE SendsOnOpen'
  BY <1>6 DEF Stop
<1>7. CASE Disconnect \/ ServeHTTP \/ Loop
  BY <1>7 DEF Disconnect, ServeHTTP, Loop, Cancelled, Receive, Drained, End
<1>8. CASE UNCHANGED vars
  BY <1>8 DEF vars
<1> QED
  BY <1>1, <1>2, <1>3, <1>4, <1>5, <1>6, <1>7, <1>8 DEF Next

LEMMA NextDrainedStays == IInv /\ [Next]_vars => DrainedStays'
<1> SUFFICES ASSUME IInv, [Next]_vars PROVE DrainedStays'
  OBVIOUS
<1> USE DEF IInv, TypeOK, DrainedStays
<1>1. ASSUME NEW p \in Procs, PublishSend(p) PROVE DrainedStays'
  BY <1>1 DEF PublishSend, SendsOnOpen
<1>2. ASSUME NEW p \in Procs, CloseLocked(p) PROVE DrainedStays'
  BY <1>2 DEF CloseLocked
<1>3. CASE Loop
  BY <1>3 DEF Loop, Cancelled, Receive, Drained, End
<1>4. CASE UNCHANGED <<stream, closed>> /\ handler' \in {handler, "serving"}
  BY <1>4
<1> QED
  BY <1>1, <1>2, <1>3, <1>4
  DEF Next, Publish, PublishLock, Close, Stop, Disconnect, ServeHTTP, vars

LEMMA NextNothingLost == IInv /\ [Next]_vars => NothingLost'
<1> SUFFICES ASSUME IInv, [Next]_vars PROVE NothingLost'
  OBVIOUS
<1> USE DEF IInv, TypeOK, NothingLost, Ended, Endings
<1>1. ASSUME NEW p \in Procs, PublishSend(p) PROVE NothingLost'
  <2>1. th[p].ev \in Events /\ ~closed
    BY <1>1 DEF PublishSend, SendsOnOpen, At
  <2>2. out \o Append(stream, th[p].ev) = Append(out \o stream, th[p].ev)
    BY <2>1, ConcatProperties, AppendProperties
  <2>3. handler' # "drained"
    BY <1>1, <2>1 DEF PublishSend, DrainedStays
  <2> QED
    BY <1>1, <2>2, <2>3 DEF PublishSend
<1>2. CASE Receive
  <2>1. /\ Head(stream) \in Events /\ Tail(stream) \in Seq(Events)
        /\ handler = "serving" /\ stream # <<>>
    BY <1>2, HeadTailProperties DEF Receive, End
  <2>2. Append(out, Head(stream)) \o Tail(stream) = out \o stream
    BY <2>1, ConcatProperties, AppendProperties, HeadTailProperties
  <2> QED
    BY <1>2, <2>1, <2>2 DEF Receive, End
<1>3. CASE Drained
  <2>1. out \o stream = out
    BY <1>3, ConcatEmptySeq DEF Drained
  <2> QED
    BY <1>3, <2>1 DEF Drained, End
<1>4. CASE Cancelled
  BY <1>4 DEF Cancelled, End
<1>5. CASE /\ UNCHANGED <<stream, out, sent>>
           /\ handler' = handler \/ (handler = "new" /\ handler' = "serving")
  BY <1>5
<1> QED
  BY <1>1, <1>2, <1>3, <1>4, <1>5
  DEF Next, Loop, Publish, PublishLock, Close, CloseLocked, Stop, Disconnect,
      ServeHTTP, vars

LEMMA Inductive == Spec => []IInv
<1>1. IInv /\ [Next]_vars => IInv'
  BY NextTypes, NextSendsOnOpen, NextDrainedStays, NextNothingLost DEF IInv
<1> QED
  BY InitInv, <1>1, PTL DEF Spec

(* No send ever meets a closed channel, for any number of goroutines that  *)
(* publish and close.                                                      *)
THEOREM SendsAreSafe == Spec => []SendsOnOpen
  BY Inductive, PTL DEF IInv

(* What was accepted reaches the client in that order, or waits to; after  *)
(* a normal end nothing waits.                                             *)
THEOREM EventsAreKept == Spec => []NothingLost
  BY Inductive, PTL DEF IInv
=============================================================================
