------------------------------- MODULE Server -------------------------------
(***************************************************************************)
(* app.Run and pkg/server: the goroutine that listens, the signals, and    *)
(* the shutdown that waits a while for the requests in flight. What        *)
(* net/http does (Listen, Serve, Shutdown) is external. A request has a    *)
(* connection of its own; one that spoke HTTP/2 over cleartext was         *)
(* hijacked by h2c, and net/http's Shutdown does not know of it.           *)
(***************************************************************************)
EXTENDS Sequences

CONSTANTS Conns

VARIABLES
  starter,    \* where Start stands
  notify,     \* what is in the channel of capacity 1
  main,       \* where Run stands
  inShutdown, \* net/http: Shutdown was called
  conn,       \* conn[c]: the state of c's request
  h2c,        \* the hijacked connections
  signal,     \* a SIGINT or SIGTERM waits in the channel interrupt
  late        \* the shutdown timeout has passed

servervars == <<starter, notify, main, inShutdown, conn, h2c, signal, late>>

ServerInit ==
  /\ starter = "new" /\ notify = <<>> /\ main = "boot"
  /\ conn = [c \in Conns |-> "none"] /\ h2c = {}
  /\ inShutdown = FALSE /\ signal = FALSE /\ late = FALSE

InFlight == {c \in Conns : conn[c] = "active"}
Exited == main \in {"exit", "killed"}
\* The end of the process cuts off what is in flight.
Exit(how) ==
  /\ main' = how
  /\ conn' = [c \in Conns |-> IF c \in InFlight THEN "cut" ELSE conn[c]]

-----------------------------------------------------------------------------
(* The goroutine of Start.                                                 *)

\* Mutant: the error is not sent.
Forget(err) == starter' = err /\ UNCHANGED notify

\* What ListenAndServe returned is sent, and the channel closed.
Report(err) == starter' = err /\ notify' = Append(notify, err)

\* ListenAndServe: refuses after a Shutdown, may find the port in use.
Start ==
  /\ starter = "new" /\ ~Exited
  /\ \/ ~inShutdown /\ starter' = "listening" /\ UNCHANGED notify
     \/ ~inShutdown /\ Report("in use")
     \/ inShutdown /\ Report("closed")
  /\ UNCHANGED <<main, inShutdown, conn, h2c, signal, late>>

\* The listener is taken on, unless Shutdown came first.
Serve ==
  /\ starter = "listening" /\ ~Exited
  /\ \/ inShutdown /\ Report("closed")
     \/ ~inShutdown /\ starter' = "serving" /\ UNCHANGED notify
  /\ UNCHANGED <<main, inShutdown, conn, h2c, signal, late>>

\* Serve returns because Shutdown closed the listener.
ServeEnds ==
  /\ starter = "serving" /\ inShutdown /\ ~Exited /\ Report("closed")
  /\ UNCHANGED <<main, inShutdown, conn, h2c, signal, late>>

-----------------------------------------------------------------------------
(* Requests.                                                               *)

Accept(c, hijacked) ==
  /\ starter = "serving" /\ ~inShutdown /\ ~Exited /\ conn[c] = "none"
  /\ conn' = [conn EXCEPT ![c] = "active"]
  /\ h2c' = IF hijacked THEN h2c \cup {c} ELSE h2c
  /\ UNCHANGED <<starter, notify, main, inShutdown, signal, late>>

Answer(c) ==
  /\ conn[c] = "active"
  /\ conn' = [conn EXCEPT ![c] = "done"]
  /\ UNCHANGED <<starter, notify, main, inShutdown, h2c, signal, late>>

-----------------------------------------------------------------------------
(* Run.                                                                    *)

\* signal.Notify comes after go svc.Start(): a signal before it kills.
NotifySignals ==
  /\ main = "boot" /\ main' = "select"
  /\ UNCHANGED <<starter, notify, inShutdown, conn, h2c, signal, late>>

Signal ==
  /\ ~signal /\ ~Exited
  /\ \/ main = "boot" /\ Exit("killed") /\ UNCHANGED signal
     \/ main # "boot" /\ signal' = TRUE /\ UNCHANGED <<main, conn>>
  /\ UNCHANGED <<starter, notify, inShutdown, h2c, late>>

\* The select: a signal, or what Start sent.
Run ==
  /\ main = "select"
  /\ signal \/ notify # <<>>
  /\ main' = "shutdown" /\ inShutdown' = TRUE
  /\ UNCHANGED <<starter, notify, conn, h2c, signal, late>>

Timeout ==
  /\ main = "shutdown" /\ ~late /\ late' = TRUE
  /\ UNCHANGED <<starter, notify, main, inShutdown, conn, h2c, signal>>

\* Mutant: Close instead of Shutdown.
CloseNow ==
  /\ main = "shutdown" /\ Exit("exit")
  /\ UNCHANGED <<starter, notify, inShutdown, h2c, signal, late>>

\* Shutdown returns when no connection it knows of is active, or in the end;
\* the deferred calls and the end of main follow.
Shutdown ==
  /\ main = "shutdown"
  /\ late \/ InFlight \subseteq h2c
  /\ Exit("exit")
  /\ UNCHANGED <<starter, notify, inShutdown, h2c, signal, late>>

\* These run on, and the timer fires; a request need never end.
ServerSystem ==
  Start \/ Serve \/ ServeEnds \/ NotifySignals \/ Run \/ Timeout \/ Shutdown

ServerNext ==
  \/ ServerSystem \/ Signal
  \/ \E c \in Conns : Accept(c, TRUE) \/ Accept(c, FALSE) \/ Answer(c)

-----------------------------------------------------------------------------
(* Shutdown before, while or after Start begins to listen: an HTTP/1       *)
(* request is answered unless it outlasts the shutdown timeout or the      *)
(* signal came before Run had asked for signals.                           *)
Graceful ==
  \A c \in Conns \ h2c : conn[c] = "cut" => late \/ main = "killed"

(* A signal, or a port in use, ends the process, whatever the requests in  *)
(* flight do.                                                              *)
RunEnds == (signal \/ starter = "in use") ~> Exited
=============================================================================
