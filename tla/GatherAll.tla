------------------------------- MODULE GatherAll -------------------------------
(***************************************************************************)
(* gather_all of tools/_base.py: the queries a read tool runs side by side *)
(* (get_health_summary, get_system_info, list_plugins).  The caller awaits *)
(* asyncio.gather; on any exception it cancels the tasks that still run,   *)
(* awaits them all with a second gather, and re-raises.                    *)
(*                                                                         *)
(* A task lets its own cancellation through: the queries catch the HTTP    *)
(* client's exceptions and nothing wider (client.py).  Closing the         *)
(* connection on the way out may take as long as it likes.                 *)
(***************************************************************************)
EXTENDS FiniteSets

CONSTANTS
  Tasks,        \* the awaitables
  Cancelled     \* the exception asyncio.CancelledError

ASSUME TasksType == Tasks # {} /\ IsFiniteSet(Tasks)
ASSUME CancelledType == Cancelled \notin Tasks \cup {"none", "results"}
ASSUME NamesType == {"none", "results"} \cap Tasks = {}

VARIABLES
  task,      \* where each task is
  caller,    \* where the caller is
  outer,     \* the first gather: pending ("none"), "results" or an exception,
             \*   an error being named by the task that raised it
  raised,    \* the exception the caller is going to raise
  asked,     \* the caller has been cancelled
  first      \* history: the first task that raised an error

vars == <<task, caller, outer, raised, asked, first>>

Over == {"ok", "failed", "cancelled"}
AllOver == \A t \in Tasks : task[t] \in Over

Init ==
  /\ task = [t \in Tasks |-> "running"]
  /\ caller = "gathering"
  /\ outer = "none"
  /\ raised = "none"
  /\ asked = FALSE
  /\ first = "none"

(* What task.cancel() does to every task.                                   *)
CancelAll == [t \in Tasks |-> IF task[t] = "running" THEN "cancelling" ELSE task[t]]

-----------------------------------------------------------------------------
(* The first gather: the first exception settles it, or the last result.    *)
Settle(t, s) ==
  \/ outer # "none" /\ outer' = outer
  \/ outer = "none" /\ s = "failed" /\ outer' = t
  \/ outer = "none" /\ s = "cancelled" /\ outer' = Cancelled
  \/ /\ outer = "none" /\ s = "ok"
     /\ outer' = IF \A u \in Tasks \ {t} : task[u] = "ok" THEN "results" ELSE "none"

Succeeds(t) ==
  /\ task[t] = "running"
  /\ task' = [task EXCEPT ![t] = "ok"]
  /\ Settle(t, "ok")
  /\ UNCHANGED <<caller, raised, asked, first>>

Fails(t) ==
  /\ task[t] = "running"
  /\ task' = [task EXCEPT ![t] = "failed"]
  /\ Settle(t, "failed")
  /\ first' = IF first = "none" THEN t ELSE first
  /\ UNCHANGED <<caller, raised, asked>>

Unwinds(t) ==
  /\ task[t] = "cancelling"
  /\ task' = [task EXCEPT ![t] = "cancelled"]
  /\ Settle(t, "cancelled")
  /\ UNCHANGED <<caller, raised, asked, first>>

Return ==
  /\ caller = "gathering" /\ outer = "results" /\ ~asked
  /\ caller' = "returned"
  /\ UNCHANGED <<task, outer, raised, asked, first>>

(* The await raises: a cancellation that arrived once the gather was        *)
(* settled overrides what it was settled with.                              *)
Catch ==
  /\ caller = "gathering" /\ outer # "none"
  /\ asked \/ outer # "results"
  /\ raised' = IF asked THEN Cancelled ELSE outer
  /\ task' = CancelAll
  /\ caller' = "draining"
  /\ UNCHANGED <<outer, asked, first>>

(* Mutants: the cancelled siblings are not awaited; the second gather       *)
(* raises what a sibling raised (no return_exceptions).                     *)
Reraise_AtOnce ==
  /\ caller = "draining"
  /\ caller' = "raised"
  /\ UNCHANGED <<task, outer, raised, asked, first>>
Reraise_SiblingsError ==
  /\ caller = "draining"
  /\ AllOver
  /\ caller' = "raised"
  /\ raised' = IF \E t \in Tasks : task[t] = "cancelled" THEN Cancelled ELSE raised
  /\ UNCHANGED <<task, outer, asked, first>>

(* The second gather is over when every task is.                            *)
Reraise ==
  /\ caller = "draining"
  /\ AllOver
  /\ caller' = "raised"
  /\ UNCHANGED <<task, outer, raised, asked, first>>

(* The caller is cancelled, in either await.  A gather passes a             *)
(* cancellation on to its tasks and, unless an exception of theirs has      *)
(* settled it, raises it when they are over.                                *)
Cancel ==
  \/ /\ caller = "gathering"
     /\ asked' = TRUE
     /\ task' = IF outer = "none" THEN CancelAll ELSE task
     /\ UNCHANGED <<caller, outer, raised, first>>
  \/ /\ caller = "draining"
     /\ asked' = TRUE
     /\ raised' = Cancelled
     /\ UNCHANGED <<task, caller, outer, first>>

Next ==
  \/ \E t \in Tasks : Succeeds(t) \/ Fails(t) \/ Unwinds(t)
  \/ Return \/ Catch \/ Reraise \/ Cancel

(* Nothing makes the server answer; a cancelled query closes its connection *)
(* and ends, and the event loop resumes whoever can go on.                  *)
Fairness ==
  /\ \A t \in Tasks : WF_vars(Unwinds(t))
  /\ WF_vars(Return) /\ WF_vars(Catch) /\ WF_vars(Reraise)

Spec == Init /\ [][Next]_vars /\ Fairness

-----------------------------------------------------------------------------
Done == caller \in {"returned", "raised"}

(* The variables keep their types. *)
TypeOK ==
  /\ task \in [Tasks -> {"running", "cancelling"} \cup Over]
  /\ caller \in {"gathering", "draining", "returned", "raised"}
  /\ outer \in Tasks \cup {"none", "results", Cancelled}
  /\ raised \in Tasks \cup {"none", Cancelled}
  /\ asked \in BOOLEAN
  /\ first \in Tasks \cup {"none"}

(* gather_all's promise: however it ends, no task is left running, and a    *)
(* caller cancelled twice makes no difference.                              *)
NothingLeftRunning == Done => AllOver

(* The exception that comes out is the first task's to fail, unwrapped and  *)
(* not one the clean-up brought about (a sibling's cancellation), unless    *)
(* the caller itself was cancelled.                                         *)
OriginalErrorRaised == caller = "raised" => IF asked THEN raised = Cancelled ELSE raised = first

(* Results are returned only if every task gave one and nobody cancelled.   *)
ResultsAreComplete == caller = "returned" => (\A t \in Tasks : task[t] = "ok") /\ ~asked
=============================================================================
