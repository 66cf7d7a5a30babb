------------------------------ MODULE Harvest ------------------------------
(***************************************************************************)
(* One call of harvest() or harvest_results() (shellous/harvest.py), seen  *)
(* from the event loop: the coroutine runs without interruption from one   *)
(* `await` to the next, and between two of its steps the awaited tasks     *)
(* finish, a timer fires, or somebody cancels the task that runs the call. *)
(*                                                                         *)
(* The awaits are those of asyncio.wait: the first one in harvest_wait     *)
(* (phase "wait"), the one of _cancel_waiter called from _cancel_wait      *)
(* (phase "settle"), and the one of the retry after _cancel_wait was       *)
(* cancelled itself (phase "retry").                                       *)
(***************************************************************************)
EXTENDS Naturals

CONSTANTS
  Task,        \* places in the list of awaited tasks
  Error,       \* kinds of exception that a task can fail with
  Fatal,       \* the kinds that harvest_results raises instead of returning
  Calls,       \* the calls made: records of Call
  MaxCancels   \* bound: how often the calling task is cancelled

VARIABLES
  call,        \* arguments of the call
  phase,       \* where the call is suspended: "wait", "settle", "retry"; "over"
  why,         \* why it stopped waiting
  settling,    \* tasks given to _cancel_waiter
  expired,     \* the timer of the current asyncio.wait has fired
  status,      \* state of each task
  asked,       \* tasks the call has asked to cancel
  outcome,     \* how the call ended
  cancelReq,   \* a cancellation of the calling task waits to be delivered
  cancels,     \* history: cancellations requested so far
  left,        \* history: tasks that were running when the call ended
  own          \* history: tasks that failed without having been asked

callVars == <<call, phase, why, settling, expired, outcome, left>>
taskVars == <<status, asked>>
history == <<cancels, own>>
vars == <<callVars, taskVars, cancelReq, history>>

\* `finish` is the cancel_finish argument, `timed` a timeout that is not None.
Call == [api : {"harvest", "results"}, tasks : SUBSET Task,
         timed : BOOLEAN, finish : BOOLEAN]

Finished == {"ok", "cancelled"} \cup Error
Status == {"running"} \cup Finished
Reason == {"none", "completed", "failed", "timeout", "cancelled"}
Kind == {"none", "return", "raise", "results", "cancelled_results", "timeout",
         "cancelled", "runtime", "invalid_state"}

ASSUME TaskAssumption == Task \subseteq Nat \ {0}
ASSUME ErrorAssumption ==
  /\ Fatal \subseteq Error
  /\ Error \cap {"running", "ok", "cancelled"} = {}
ASSUME CallsAssumption ==
  /\ Calls \subseteq Call
  \* asyncio.wait refuses an empty set, and only harvest has cancel_finish.
  /\ \A c \in Calls : /\ c.tasks # {}
                      /\ c.finish => c.api = "harvest"
ASSUME MaxCancelsAssumption == MaxCancels \in Nat

----------------------------------------------------------------------------
(* Operators on the state of the tasks.                                    *)

Running(S) == {t \in S : status[t] = "running"}
\* Mutant: a cancelled task counts as failed.
FailedOrCancelledIn(S, errors) ==
  {t \in S : status[t] \in errors \cup {"cancelled"}}

FailedIn(S, errors) == {t \in S : status[t] \in errors}
First(S) == CHOOSE t \in S : \A u \in S : t <= u

\* asyncio.wait(FIRST_EXCEPTION) or asyncio.wait(ALL_COMPLETED) is to return.
WaitOver == \/ expired
            \/ Running(call.tasks) = {}
            \/ FailedIn(call.tasks, Error) # {}

\* Mutant: _cancel_waiter waits without its cancel_timeout.
SettleOverWhenDone == Running(settling) = {}

\* _cancel_waiter's asyncio.wait is to return.
SettleOver == expired \/ Running(settling) = {}

----------------------------------------------------------------------------
(* How the call ends once harvest_wait has ended in the way `how`.         *)

Ended(kind, t) == [kind |-> kind, task |-> t]

\* Mutant: the exceptions of the tasks are not raised.
HarvestEndAsIs(how) == Ended(how, 0)

\* harvest: raise the first exception in list order, or return.
HarvestEnd(how) ==
  LET failed == FailedIn(call.tasks, Error)
  IN  IF how # "completed" THEN Ended(how, 0)
      ELSE IF failed = {} THEN Ended("return", 0)
      ELSE Ended("raise", First(failed))

\* harvest_results: CancelledError becomes a flag; _to_result raises the fatal
\* exceptions, and fails for a task that is not done.
ResultsEnd(how) ==
  LET bad == FailedIn(call.tasks, Fatal) \cup Running(call.tasks)
  IN  IF how \notin {"completed", "cancelled"} THEN Ended(how, 0)
      ELSE IF bad # {} THEN
        Ended(IF status[First(bad)] = "running" THEN "invalid_state" ELSE "raise",
              First(bad))
      ELSE Ended(IF how = "cancelled" THEN "cancelled_results" ELSE "results", 0)

End(how) == /\ phase' = "over"
            /\ outcome' = IF call.api = "harvest" THEN HarvestEnd(how)
                                                  ELSE ResultsEnd(how)
            /\ left' = Running(call.tasks)

----------------------------------------------------------------------------
(* The call.                                                               *)

\* The tasks S are asked to cancel and the call waits for all of W to end.
Settle(reason, S, W) ==
  /\ phase' = "settle"
  /\ why' = reason
  /\ asked' = asked \cup S
  /\ settling' = W
  /\ expired' = FALSE
  /\ UNCHANGED <<call, status, outcome, left, history>>

\* Mutant: cancel_finish is ignored.
CancelledInWaitAlways ==
  /\ phase = "wait" /\ cancelReq
  /\ cancelReq' = FALSE
  /\ Settle("cancelled", Running(call.tasks), call.tasks)

\* CancelledError at the first asyncio.wait.
CancelledInWait ==
  /\ phase = "wait" /\ cancelReq
  /\ cancelReq' = FALSE
  /\ Settle("cancelled", IF call.finish THEN {} ELSE Running(call.tasks),
            call.tasks)

\* The first asyncio.wait returns with every task done.
WaitCompletes ==
  /\ phase = "wait" /\ ~cancelReq
  /\ Running(call.tasks) = {}
  /\ why' = "completed"
  /\ End("completed")
  /\ UNCHANGED <<call, settling, expired, taskVars, cancelReq, history>>

\* Mutant: pending tasks are taken for a timeout whenever the call has one.
WaitLeavesPendingTimed ==
  LET pending == Running(call.tasks)
  IN  /\ phase = "wait" /\ ~cancelReq
      /\ WaitOver /\ pending # {}
      /\ UNCHANGED cancelReq
      /\ Settle(IF call.timed THEN "timeout" ELSE "failed", pending, pending)

\* The first asyncio.wait returns with tasks pending: when none of the done
\* tasks has failed, only the timeout explains it.
WaitLeavesPending ==
  LET pending == Running(call.tasks)
  IN  /\ phase = "wait" /\ ~cancelReq
      /\ WaitOver /\ pending # {}
      /\ UNCHANGED cancelReq
      /\ Settle(IF FailedIn(call.tasks, Error) = {} THEN "timeout" ELSE "failed",
                pending, pending)

\* Mutant: no retry.
CancelledInSettleRaises ==
  /\ phase = "settle" /\ cancelReq
  /\ cancelReq' = FALSE
  /\ End("cancelled")
  /\ UNCHANGED <<call, why, settling, expired, taskVars, history>>

\* CancelledError in _cancel_wait: retry once, without cancelling again.
CancelledInSettle ==
  /\ phase = "settle" /\ cancelReq
  /\ phase' = "retry"
  /\ cancelReq' = FALSE
  /\ expired' = FALSE
  /\ UNCHANGED <<call, why, settling, outcome, left, taskVars, history>>

\* CancelledError in the retry: it leaves harvest_wait.
CancelledInRetry ==
  /\ phase = "retry" /\ cancelReq
  /\ cancelReq' = FALSE
  /\ End("cancelled")
  /\ UNCHANGED <<call, why, settling, expired, taskVars, history>>

\* Mutant: the call cancels its tasks and does not wait for them.
SettledAtOnce ==
  /\ phase \in {"settle", "retry"} /\ ~cancelReq
  /\ End(IF why = "failed" THEN "completed" ELSE why)
  /\ UNCHANGED <<call, why, settling, expired, taskVars, cancelReq, history>>

\* Mutant: the CancelledError that was caught is not raised again.
SettledSilently ==
  /\ phase \in {"settle", "retry"} /\ ~cancelReq
  /\ Running(settling) = {}
  /\ End(IF why = "timeout" THEN why ELSE "completed")
  /\ UNCHANGED <<call, why, settling, expired, taskVars, cancelReq, history>>

\* _cancel_waiter returns: everything awaited is done.
Settled ==
  /\ phase \in {"settle", "retry"} /\ ~cancelReq
  /\ Running(settling) = {}
  /\ End(IF why = "failed" THEN "completed" ELSE why)
  /\ UNCHANGED <<call, why, settling, expired, taskVars, cancelReq, history>>

\* _cancel_waiter gives up on tasks that have not ended within cancel_timeout.
SettleGivesUp ==
  /\ phase \in {"settle", "retry"} /\ ~cancelReq
  /\ SettleOver /\ Running(settling) # {}
  /\ asked' = asked \cup Running(settling)
  /\ End("runtime")
  /\ UNCHANGED <<call, why, settling, expired, status, cancelReq, history>>

Resume == \/ CancelledInWait \/ WaitCompletes \/ WaitLeavesPending
          \/ CancelledInSettle \/ CancelledInRetry \/ Settled \/ SettleGivesUp

----------------------------------------------------------------------------
(* Timers of the event loop.                                               *)

TimeoutFires ==
  /\ phase = "wait" /\ call.timed /\ ~expired
  /\ expired' = TRUE
  /\ UNCHANGED <<call, phase, why, settling, outcome, left, taskVars, cancelReq,
                 history>>

CancelTimeoutFires ==
  /\ phase \in {"settle", "retry"} /\ ~expired
  /\ expired' = TRUE
  /\ UNCHANGED <<call, phase, why, settling, outcome, left, taskVars, cancelReq,
                 history>>

----------------------------------------------------------------------------
(* The environment: the tasks and the canceller of the calling task.       *)

\* A task ends in any way it likes, whether asked to cancel or not: it may end
\* by itself first, answer the request with another exception, or ignore it.
TaskEnds(t, s) ==
  /\ t \in call.tasks /\ status[t] = "running"
  /\ status' = [status EXCEPT ![t] = s]
  /\ own' = IF s \in Error /\ t \notin asked THEN own \cup {t} ELSE own
  /\ UNCHANGED <<callVars, asked, cancelReq, cancels>>

\* A second request before the first is delivered changes nothing.
Cancel ==
  /\ phase # "over" /\ ~cancelReq
  /\ cancels < MaxCancels
  /\ cancelReq' = TRUE
  /\ cancels' = cancels + 1
  /\ UNCHANGED <<callVars, taskVars, own>>

Stopped ==
  /\ phase = "over" /\ Running(call.tasks) = {}
  /\ UNCHANGED vars

----------------------------------------------------------------------------

Init ==
  /\ call \in Calls
  /\ phase = "wait" /\ why = "none" /\ settling = {} /\ expired = FALSE
  /\ status = [t \in Task |-> "running"] /\ asked = {}
  /\ outcome = Ended("none", 0) /\ left = {}
  /\ cancelReq = FALSE /\ cancels = 0
  /\ own = {}

Next ==
  \/ Resume
  \/ TimeoutFires
  \/ CancelTimeoutFires
  \/ \E t \in Task, s \in Finished : TaskEnds(t, s)
  \/ Cancel
  \/ Stopped

Spec == Init /\ [][Next]_vars

\* The event loop resumes a coroutine that is ready and fires its timers. The
\* tasks promise nothing: they may ignore their cancellation for ever.
FairSpec ==
  Spec /\ WF_vars(Resume) /\ WF_vars(TimeoutFires) /\ WF_vars(CancelTimeoutFires)

----------------------------------------------------------------------------
(* Properties.                                                             *)

\* Every variable has its type.
TypeOK ==
  /\ call \in Calls
  /\ phase \in {"wait", "settle", "retry", "over"}
  /\ why \in Reason
  /\ settling \subseteq call.tasks /\ asked \subseteq call.tasks
  /\ left \subseteq call.tasks /\ own \subseteq call.tasks
  /\ expired \in BOOLEAN /\ cancelReq \in BOOLEAN
  /\ status \in [Task -> Status]
  /\ outcome \in [kind : Kind, task : Task \cup {0}]
  /\ cancels \in 0..MaxCancels

\* "After the harvest returns, all of the awaitables are guaranteed to be done"
\* (harvest.py, all three docstrings): it holds for every end but RuntimeError,
\* InvalidStateError, CancelledError and an exception of harvest_results.
JoinedUnlessBroken ==
  \/ outcome.kind \in {"none", "cancelled", "runtime", "invalid_state"}
  \/ outcome.kind = "raise" /\ call.api = "results"
  \/ left = {}

\* A task is left running only if it ignored its cancellation for all of
\* cancel_timeout, or if the caller was cancelled again and again: three times
\* when the first cancellation interrupted the wait, twice when the call was
\* already cancelling its tasks. One retry (_cancel_wait) buys exactly that.
LeavesOnlyWhenForced ==
  left # {} => \/ outcome.kind = "runtime" /\ expired
               \/ cancels >= IF why = "cancelled" THEN 3 ELSE 2

\* A task that fails by itself is never hidden behind a normal return or a
\* TimeoutError, whatever timer or cancellation races with it.
FailureSurfaces ==
  phase = "over" /\ own # {} => outcome.kind \notin {"return", "timeout"}

\* Tasks are told to cancel only because the caller was cancelled, the call had a
\* timeout, or a task failed: a task that merely ends cancelled stops nothing.
CancelsOnlyWithReason == asked # {} => cancels > 0 \/ call.timed \/ own # {}

\* With cancel_finish, a cancelled harvest lets its tasks finish: it cancels none,
\* unless they outlast cancel_timeout.
CancelFinishSpares ==
  call.finish /\ why = "cancelled" /\ outcome.kind # "runtime" => asked = {}

\* A cancellation that arrives while the call waits for its tasks is reported:
\* harvest raises CancelledError, harvest_results never returns a normal list.
WaitCancelReported ==
  phase = "over" /\ why = "cancelled" =>
    IF call.api = "harvest" THEN outcome.kind \in {"cancelled", "runtime"}
    ELSE outcome.kind # "results"

\* Once the call is cancelled, timed, ready or tearing down, it ends, even if its
\* tasks never do: cancel_timeout bounds every wait of _cancel_waiter.
CallEnds ==
  (cancelReq \/ call.timed \/ WaitOver \/ phase # "wait") ~> (phase = "over")

\* The promise to the caller, with the reason as the verdict.
Promise == INSTANCE HarvestPromise WITH
  tasks <- call.tasks,
  verdict <- why,
  end <- IF phase # "over" THEN "no" ELSE IF left = {} THEN "joined" ELSE "broken",
  report <- outcome.kind

PromiseKept == Promise!Spec

----------------------------------------------------------------------------
(* What the docstrings say and the code does not do.                       *)

\* "If `harvest` is cancelled itself, all awaitables are cancelled and consumed
\* before raising `CancelledError`" (harvest.py:32): a cancellation that was
\* delivered inside the call is what its caller gets.
CancelRaisesCancelled ==
  phase = "over" /\ cancels > (IF cancelReq THEN 1 ELSE 0) =>
    outcome.kind \notin {"return", "raise", "timeout"}

\* "... before raising the first exception seen" (harvest.py:26): the exception
\* harvest raises is at least that of a task that failed by itself, not one that
\* another task raised later, in answer to its cancellation.
RaisesFirstSeen ==
  outcome.kind = "raise" /\ call.api = "harvest" => outcome.task \in own

============================================================================
