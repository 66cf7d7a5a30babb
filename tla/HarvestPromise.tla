--------------------------- MODULE HarvestPromise ---------------------------
(***************************************************************************)
(* What a caller of harvest() or harvest_results() may rely on, without    *)
(* timers, retries and cancellation requests: the call reaches one         *)
(* verdict, and it ends either joined, with every task done, or broken,    *)
(* with a task still running. A broken end is never reported as a normal   *)
(* return, as a list of results or as a timeout.                           *)
(***************************************************************************)
CONSTANTS Task, Error

VARIABLES
  tasks,       \* the awaited tasks
  status,      \* state of each task
  verdict,     \* why the call stops waiting, "none" while it waits
  end,         \* "no", "joined" or "broken"
  report       \* what the caller gets

vars == <<tasks, status, verdict, end, report>>

Finished == {"ok", "cancelled"} \cup Error
Running == {t \in tasks : status[t] = "running"}

\* The reports that each verdict can lead to when all the tasks are done; the
\* cancellation of a call that is already ending may take over the report...
JoinedReports(v) ==
  CASE v = "completed" -> {"return", "results", "raise"}
    [] v = "failed"    -> {"results", "raise", "cancelled", "cancelled_results"}
    [] v = "timeout"   -> {"timeout", "cancelled", "cancelled_results", "raise"}
    [] v = "cancelled" -> {"cancelled", "cancelled_results", "raise"}

\* ... and those of a call that leaves a task running.
BrokenReports == {"cancelled", "runtime", "invalid_state", "raise"}

Init ==
  /\ tasks \subseteq Task
  /\ status = [t \in Task |-> "running"]
  /\ verdict = "none" /\ end = "no" /\ report = "none"

TaskEnds(t, s) ==
  /\ t \in Running
  /\ status' = [status EXCEPT ![t] = s]
  /\ UNCHANGED <<tasks, verdict, end, report>>

\* All the tasks have ended: the call ends with them.
Complete ==
  /\ verdict = "none" /\ Running = {}
  /\ verdict' = "completed"
  /\ end' = "joined"
  /\ report' \in JoinedReports("completed")
  /\ UNCHANGED <<tasks, status>>

\* The call stops waiting; "failed" needs a failed task, and as long as no task
\* has failed, tasks that are still running make it a timeout.
Decide(v) ==
  /\ verdict = "none"
  /\ v \in {"failed", "timeout", "cancelled"}
  /\ v = "failed" => \E t \in tasks : status[t] \in Error
  /\ v = "timeout" => \A t \in tasks : status[t] \notin Error
  /\ verdict' = v
  /\ UNCHANGED <<tasks, status, end, report>>

Join ==
  /\ verdict # "none" /\ end = "no"
  /\ Running = {}
  /\ end' = "joined"
  /\ report' \in JoinedReports(verdict)
  /\ UNCHANGED <<tasks, status, verdict>>

Break ==
  /\ verdict # "none" /\ end = "no"
  /\ Running # {}
  /\ end' = "broken"
  /\ report' \in BrokenReports
  /\ UNCHANGED <<tasks, status, verdict>>

Next ==
  \/ \E t \in Task, s \in Finished : TaskEnds(t, s)
  \/ Complete
  \/ \E v \in {"failed", "timeout", "cancelled"} : Decide(v)
  \/ Join
  \/ Break

Spec == Init /\ [][Next]_vars

============================================================================
