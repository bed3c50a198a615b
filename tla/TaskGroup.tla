----------------------------- MODULE TaskGroup -----------------------------
(***************************************************************************)
(* conc.G: goroutines counted by a WaitGroup, a panic in one recovered,    *)
(* and two ways to wait for them all. The tasks may start further ones.    *)
(***************************************************************************)
EXTENDS Naturals, FiniteSets

CONSTANTS Tasks

ASSUME TasksAssumption == IsFiniteSet(Tasks)

VARIABLES
  count,     \* the counter of g.wg
  task,      \* task[t]: where the goroutine of t stands
  caller,    \* the goroutine that starts the first tasks, and waits
  helper,    \* the goroutine of UnsafeWaitWithContext
  endless    \* the tasks whose function never returns

groupvars == <<count, task, caller, helper, endless>>

GroupInit ==
  /\ count = 0 /\ task = [t \in Tasks |-> "none"]
  /\ caller = "starts" /\ helper = "none"
  /\ endless \in SUBSET Tasks

Running(t) == task[t] \in {"added", "running"}
May(t) == caller = "starts" \/ \E u \in Tasks : task[u] = "running" /\ u # t

\* Mutant: the goroutine counts itself.
RunUncounted(t) ==
  /\ task[t] = "none" /\ May(t)
  /\ task' = [task EXCEPT ![t] = "added"]
  /\ UNCHANGED <<count, caller, helper, endless>>

\* GoRun, by the caller or by a task: counted before the goroutine exists.
GoRun(t) ==
  /\ task[t] = "none" /\ May(t)
  /\ task' = [task EXCEPT ![t] = "added"] /\ count' = count + 1
  /\ UNCHANGED <<caller, helper, endless>>

Begin(t) ==
  /\ task[t] = "added" /\ task' = [task EXCEPT ![t] = "running"]
  /\ UNCHANGED <<count, caller, helper, endless>>

\* fn returns, or panics and the panic is recovered and traced.
Ends(t) ==
  /\ task[t] = "running" /\ t \notin endless
  /\ \E how \in {"returned", "panicked"} : task' = [task EXCEPT ![t] = how]
  /\ UNCHANGED <<count, caller, helper, endless>>

Done(t) ==
  /\ task' = [task EXCEPT ![t] = "done"] /\ count' = count - 1
  /\ UNCHANGED <<caller, helper, endless>>

\* Mutant: Done is called after fn and not deferred.
DoneAfter(t) == task[t] = "returned" /\ Done(t)

\* The deferred call of Done.
DoneDeferred(t) == task[t] \in {"returned", "panicked"} /\ Done(t)

Waits(how) ==
  /\ caller = "starts" /\ caller' = how
  /\ helper' = IF how = "unsafe" THEN "waits" ELSE "none"
  /\ UNCHANGED <<count, task, endless>>

Wait ==
  /\ caller = "wait" /\ count = 0 /\ caller' = "all done"
  /\ UNCHANGED <<count, task, helper, endless>>

HelperWait ==
  /\ helper = "waits" /\ count = 0 /\ helper' = "closed"
  /\ UNCHANGED <<count, task, caller, endless>>

UnsafeWaitWithContext ==
  /\ caller = "unsafe"
  /\ \/ helper = "closed" /\ caller' = "all done"
     \/ caller' = "gave up"
  /\ UNCHANGED <<count, task, helper, endless>>

GroupSystem ==
  \/ \E t \in Tasks : Begin(t) \/ Ends(t) \/ DoneDeferred(t)
  \/ Wait \/ HelperWait \/ UnsafeWaitWithContext

GroupNext ==
  \/ GroupSystem \/ Waits("wait") \/ Waits("unsafe")
  \/ \E t \in Tasks : GoRun(t)

-----------------------------------------------------------------------------
(* When a wait returns without an error, every task has ended: those the   *)
(* caller started, and those that tasks started meanwhile.                 *)
WaitSeesAll ==
  [][caller' = "all done" /\ caller # "all done" => \A t \in Tasks : ~Running(t)]_groupvars

(* A wait ends once the functions do, although they panic; the one with a  *)
(* context ends whatever they do.                                          *)
WaitReturns ==
  caller = "unsafe" \/ (caller = "wait" /\ endless = {}) ~> caller \in {"all done", "gave up"}
=============================================================================
