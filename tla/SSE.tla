-------------------------------- MODULE SSE --------------------------------
(***************************************************************************)
(* web.SSE: one handler writes to a client the events that any number of   *)
(* goroutines publish. Publish holds the mutex while it waits for room in  *)
(* the channel; Close takes the same mutex; Stop takes none.               *)
(***************************************************************************)
EXTENDS Naturals, Sequences

CONSTANTS
  Procs,    \* the goroutines that publish, close and stop
  Events,   \* the events published, each at most once
  Empty,    \* an Event with no id, no name and no data
  Length,   \* capacity of the channel
  None,
  Faults    \* which of the things that end a stream early may happen

AllFaults == {"stop", "disconnect", "flush"}

ASSUME LengthAssumption == Length \in Nat \ {0}
ASSUME NoneAssumption == None \notin Procs \cup Events
ASSUME FaultsAssumption == Faults \subseteq AllFaults

VARIABLES
  stream,   \* the channel
  closed,   \* s.closed; the channel is closed with it
  lock,     \* the holder of s.m, or None
  th,       \* th[p]: the call p is in, where it stands and its event
  handler,  \* "new", "serving", or what ended it
  done,     \* the context of the handler is cancelled
  sent,     \* history: what Publish put into the channel
  out       \* history: what reached the client

vars == <<stream, closed, lock, th, handler, done, sent, out>>

Rest == [pc |-> "idle", ev |-> None]
At(p, l) == th[p].pc = l
Enter(p, l, e) == th' = [th EXCEPT ![p] = [pc |-> l, ev |-> e]]
Return(p) == th' = [th EXCEPT ![p] = Rest]

Endings == {"cancelled", "emptied", "failed", "drained"}
Ended == handler \in Endings

InSeq(e, s) == \E i \in 1..Len(s) : s[i] = e
Fresh(e) == ~InSeq(e, sent) /\ \A p \in Procs : th[p].ev # e

Init ==
  /\ stream = <<>> /\ sent = <<>> /\ out = <<>>
  /\ closed = FALSE /\ done = FALSE
  /\ lock = None
  /\ th = [p \in Procs |-> Rest]
  /\ handler = "new"

-----------------------------------------------------------------------------
Publish(p, e) ==
  /\ At(p, "idle") /\ Fresh(e)
  /\ Enter(p, "publish", e)
  /\ UNCHANGED <<stream, closed, lock, handler, done, sent, out>>

\* With the mutex: a closed stream takes nothing more.
PublishLock(p) ==
  /\ At(p, "publish") /\ lock = None
  /\ IF closed THEN Return(p) /\ UNCHANGED lock
               ELSE Enter(p, "send", th[p].ev) /\ lock' = p
  /\ UNCHANGED <<stream, closed, handler, done, sent, out>>

\* Mutant: nobody unlocks the mutex after the send.
LockKept(p) ==
  /\ At(p, "send") /\ Len(stream) < Length
  /\ stream' = Append(stream, th[p].ev)
  /\ sent' = Append(sent, th[p].ev)
  /\ Return(p)
  /\ UNCHANGED <<closed, lock, handler, done, out>>

\* The send waits for room, the mutex being held.
PublishSend(p) ==
  /\ At(p, "send") /\ Len(stream) < Length
  /\ stream' = Append(stream, th[p].ev)
  /\ sent' = Append(sent, th[p].ev)
  /\ lock' = None
  /\ Return(p)
  /\ UNCHANGED <<closed, handler, done, out>>

Close(p) ==
  /\ At(p, "idle")
  /\ Enter(p, "close", None)
  /\ UNCHANGED <<stream, closed, lock, handler, done, sent, out>>

\* Mutant: Close does not take the mutex.
CloseUnlocked(p) ==
  /\ At(p, "close")
  /\ closed' = TRUE
  /\ Return(p)
  /\ UNCHANGED <<stream, lock, handler, done, sent, out>>

CloseLocked(p) ==
  /\ At(p, "close") /\ lock = None
  /\ closed' = TRUE
  /\ Return(p)
  /\ UNCHANGED <<stream, lock, handler, done, sent, out>>

\* Stop cancels the handler's context, if there is one by now.
Stop(p) ==
  /\ "stop" \in Faults /\ At(p, "idle")
  /\ done' = (done \/ handler # "new")
  /\ UNCHANGED <<stream, closed, lock, th, handler, sent, out>>

Disconnect ==
  /\ "disconnect" \in Faults
  /\ ~done /\ done' = TRUE
  /\ UNCHANGED <<stream, closed, lock, th, handler, sent, out>>

-----------------------------------------------------------------------------
\* The handler: it registers its cancel function and enters the loop.
ServeHTTP ==
  /\ handler = "new" /\ handler' = "serving"
  /\ UNCHANGED <<stream, closed, lock, th, done, sent, out>>

End(how) ==
  /\ handler = "serving" /\ handler' = how
  /\ UNCHANGED <<closed, lock, th, done, sent>>

\* The select picks any of its ready cases: the context,
Cancelled ==
  /\ done
  /\ End("cancelled")
  /\ UNCHANGED <<stream, out>>

\* an event, which is written and flushed, or fails to be; an empty one ends
\* the stream;
Receive ==
  /\ stream # <<>> /\ stream' = Tail(stream)
  /\ LET ev == Head(stream) IN
     \/ ev = Empty /\ End("emptied") /\ UNCHANGED out
     \/ /\ ev # Empty /\ handler = "serving"
        /\ out' = Append(out, ev)
        /\ UNCHANGED <<closed, lock, th, handler, done, sent>>
     \/ ev # Empty /\ "flush" \in Faults /\ End("failed") /\ UNCHANGED out

\* Mutants: the handler looks at the flag instead of the channel; it takes
\* the zero value of a closed channel for an event without content.
EndOnFlag ==
  /\ closed
  /\ End("drained")
  /\ UNCHANGED <<stream, out>>

SpinOnClosed ==
  /\ closed /\ stream = <<>>
  /\ End("serving")
  /\ UNCHANGED <<stream, out>>

\* or the channel closed and empty, whose zero value is an empty event too.
Drained ==
  /\ closed /\ stream = <<>>
  /\ End("drained")
  /\ UNCHANGED <<stream, out>>

Loop == Cancelled \/ Receive \/ Drained

Next ==
  \/ \E p \in Procs :
       \/ \E e \in Events : Publish(p, e)
       \/ PublishLock(p) \/ PublishSend(p)
       \/ Close(p) \/ CloseLocked(p) \/ Stop(p)
  \/ Disconnect \/ ServeHTTP \/ Loop

Spec == Init /\ [][Next]_vars

(***************************************************************************)
(* The stream is served, its goroutines run, and a mutex that is free      *)
(* again and again is not withheld for ever: Go's hands it over to a       *)
(* waiter that has starved for a millisecond.                              *)
(***************************************************************************)
FairSpec ==
  /\ Spec
  /\ WF_vars(ServeHTTP) /\ WF_vars(Loop)
  /\ \A p \in Procs :
       /\ WF_vars(PublishSend(p))
       /\ SF_vars(PublishLock(p)) /\ SF_vars(CloseLocked(p))

-----------------------------------------------------------------------------
TypeOK ==
  /\ stream \in Seq(Events) /\ sent \in Seq(Events) /\ out \in Seq(Events)
  /\ closed \in BOOLEAN /\ done \in BOOLEAN
  /\ lock \in Procs \cup {None}
  /\ th \in [Procs -> [pc : {"idle", "publish", "send", "close"},
                      ev : Events \cup {None}]]
  /\ \A p \in Procs : th[p].pc \in {"publish", "send"} => th[p].ev \in Events
  /\ handler \in {"new", "serving"} \cup Endings

(* No goroutine stands before a send on a closed channel, which would take *)
(* the whole process down, however Close and Publish race: and the mutex   *)
(* is what sees to it.                                                     *)
SendsOnOpen ==
  \A p \in Procs : At(p, "send") => ~closed /\ lock = p

(* Nothing that Publish accepted is lost, doubled or reordered while the   *)
(* handler runs; a handler that ends because the stream is closed has      *)
(* written all of it, and nothing comes after.                             *)
NothingLost ==
  /\ ~Ended => out \o stream = sent
  /\ handler = "drained" => out = sent

(* A Publish or Close that waits is let go, as long as the handler runs.   *)
CallsReturn ==
  \A p \in Procs : ~At(p, "idle") ~> (At(p, "idle") \/ Ended)

(* A closed stream is worked off and its handler ends.                     *)
ClosedEnds == closed ~> Ended

(* "After Stop, Close should be called": and it comes back.                *)
CloseReturns == \A p \in Procs : At(p, "close") ~> At(p, "idle")
=============================================================================
