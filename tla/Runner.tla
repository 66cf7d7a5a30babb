------------------------------- MODULE Runner -------------------------------
(***************************************************************************)
(* One `async with Runner(command) as run` (shellous/runner.py): launch of *)
(* the process, body, _wait or _kill, _close, exit. The main task runs     *)
(* without interruption from one await to the next; `pc` names the await   *)
(* where it is suspended. Most of these awaits are calls of harvest: their *)
(* steps are those of Harvest, with `phase` = "over" when the call has     *)
(* ended and the main task goes on with its outcome.                       *)
(*                                                                         *)
(* The code between two awaits is a chain of operators (Kill, KillProc,    *)
(* KillWait, Killed, Close, Exit, LeaveEnter), each taking the record of   *)
(* the Runner's fields as the code before has left them. They read proc',  *)
(* which every action fixes first.                                         *)
(*                                                                         *)
(* Left out: pseudo-terminals on BSD, where _wait polls the process, and   *)
(* the exit code, of which only the moment when it is known is kept.       *)
(***************************************************************************)
EXTENDS Naturals, FiniteSets

CONSTANTS
  Helper,      \* redirection and process substitution tasks
  Options,     \* the commands that are run: records of Option
  MaxCancels   \* bound: how often the main task is cancelled

\* The tasks by name: `waiter` of self._tasks, the harvests of _waiter() in
\* _kill and in _kill_wait, and stdin.wait_closed() in _close.
Waiter == 1
KillWaiter == 2
ReapWaiter == 3
Closer == 4
Waiters == {Waiter, KillWaiter, ReapWaiter}
Task == {Waiter, KillWaiter, ReapWaiter, Closer} \cup Helper

\* io: tasks that the redirections and process substitutions need; timeout: there
\* is one; stdin: the process has a stdin pipe; hard: cancel_signal is None.
Option == [io : SUBSET Helper, timeout : BOOLEAN, stdin : BOOLEAN,
           hard : BOOLEAN, catch : BOOLEAN]

ASSUME HelperAssumption == Helper \subseteq Nat \ 0..4
ASSUME OptionsAssumption == Options \subseteq Option
ASSUME MaxCancelsAssumption == MaxCancels \in Nat

VARIABLES
  opt,         \* the command's options
  pc,          \* the await of the main task
  run,         \* the fields of the Runner and of its unwinding
  exec,        \* the task of _subprocess_exec; "ok": it has set self._proc
  proc,        \* the process: "none", "alive", "dead"; "known": returncode is set
  \* one call of harvest (see Harvest)
  call, phase, why, settling, expired, outcome, left,
  status, asked, cancelReq, cancels

harvestVars == <<call, phase, why, settling, expired, outcome, left>>
taskVars == <<status, asked>>
vars == <<opt, pc, run, exec, proc, harvestVars, taskVars, cancelReq, cancels>>

Error == {"exc", "interrupt"}
Harvested == (SUBSET Task) \ {{}}
HarvestCalls == [api : {"harvest"}, tasks : Harvested, timed : BOOLEAN,
                 finish : BOOLEAN]

\* "interrupt" stands for redirect.OutputInterrupted. There is no history of the
\* tasks' failures here.
H == INSTANCE Harvest WITH Fatal <- {}, Calls <- HarvestCalls, own <- {}

----------------------------------------------------------------------------
(* Where the main task is suspended next.                                  *)

\* The record run: tasks (self._tasks), timer (self._timer is armed), timedOut,
\* cancelled, ignore (_ignore_cancel_signal), sigs (signals sent), audit; origin:
\* who called _kill; cause: the exception of _start or of the body; raise: the
\* exception that leaves _kill, _wait or _start once the process is dealt with; exit.
Fields == [tasks : SUBSET Task, timer : BOOLEAN, timedOut : BOOLEAN,
           cancelled : BOOLEAN, ignore : BOOLEAN, sigs : SUBSET {"cancel", "kill"},
           audit : {"none", "started", "stopped"},
           origin : {"start", "wait", "finish"},
           cause : {"none", "exc", "cancelled"},
           raise : {"none", "exc", "interrupt", "cancelled", "runtime"},
           exit : {"none", "normal", "exc", "interrupt", "cancelled", "runtime",
                   "timeout", "result_error", "type_error"}]

Idle == /\ phase' = "idle"
        /\ call' = [api |-> "harvest", tasks |-> {Waiter}, timed |-> FALSE,
                    finish |-> FALSE]
        /\ why' = "none" /\ settling' = {} /\ expired' = FALSE
        /\ outcome' = H!Ended("none", 0) /\ left' = {}

\* await of anything but harvest.
Await(at, r) == /\ pc' = at /\ run' = r
                /\ Idle
                /\ UNCHANGED taskVars

\* await harvest(*S, ...): coroutines become tasks.
Harvest(at, r, S, timed, finish) ==
  /\ pc' = at /\ run' = r
  /\ phase' = "wait"
  /\ call' = [api |-> "harvest", tasks |-> S, timed |-> timed, finish |-> finish]
  /\ why' = "none" /\ settling' = {} /\ expired' = FALSE
  /\ outcome' = H!Ended("none", 0) /\ left' = {}
  /\ status' = [t \in Task |-> IF t \in S \cup r.tasks /\ status[t] = "absent"
                               THEN "running" ELSE status[t]]
  /\ UNCHANGED asked

Over(at) == pc = at /\ phase = "over"

\* What the harvest that is over did: "return", or the exception it raised.
Thrown == IF outcome.kind = "raise" THEN status[outcome.task] ELSE outcome.kind

----------------------------------------------------------------------------
(* The way out: __aenter__ that fails, __aexit__, _close.                  *)

\* Mutant: _set_cancelled leaves the timer alone.
CancelledKeepsTimer(r) == [r EXCEPT !.cancelled = TRUE]

Cancelled(r) == [r EXCEPT !.cancelled = TRUE, !.timer = FALSE]
Signal(r, s) == [r EXCEPT !.sigs = @ \cup {s}]

\* The failure paths of __aenter__: its finally clause may turn the exception
\* into that of result(), which knows no process before self._proc is set.
LeaveEnter(r) ==
  Await("done",
        [r EXCEPT !.timer = FALSE, !.audit = "stopped",
                  !.exit = IF ~ (r.cancelled /\ opt.catch) THEN r.raise
                           ELSE IF exec # "ok" \/ proc' = "known" THEN "result_error"
                           ELSE "type_error"])

\* Mutant: the exception of the body is always suppressed.
ExitSuppresses(r) ==
  Await("done",
        [r EXCEPT !.timer = FALSE, !.audit = "stopped",
                  !.exit = IF r.raise \notin {"none", "cancelled"} THEN r.raise
                           ELSE "normal"])

\* The end of _finish and of __aexit__.
Exit(r) ==
  LET suppress == r.origin = "finish" /\ r.raise = "none" /\ r.cancelled
      cancelled == r.cancelled \/ r.raise = "cancelled"
  IN  Await("done",
            [r EXCEPT !.timer = FALSE, !.audit = "stopped", !.cancelled = cancelled,
                      !.exit = IF r.raise \notin {"none", "cancelled"} THEN r.raise
                               ELSE IF cancelled /\ r.timedOut /\ ~opt.catch
                                 THEN "timeout"
                               ELSE IF suppress \/ r.cause = "none" THEN "normal"
                               ELSE r.cause])

\* The transport's close kills a process that has not been reaped.
Close(r) ==
  IF proc' # "known"
  THEN Exit(IF proc' = "alive" THEN Signal(r, "kill") ELSE r)
  ELSE IF opt.stdin THEN Harvest("closing", r, {Closer}, TRUE, TRUE)
  ELSE Exit(r)

----------------------------------------------------------------------------
(* _kill and _kill_wait.                                                   *)

\* _kill is left: by its return, or with r.raise.
Killed(r) == IF r.origin = "start" THEN LeaveEnter(r) ELSE Close(r)

\* Mutant: the wait for a killed process has no timeout.
KillWaitUntimed(r) ==
  IF proc' = "known" THEN Killed(r)
  ELSE Harvest("reap", Signal(r, "kill"), {ReapWaiter}, FALSE, FALSE)

KillWait(r) ==
  IF proc' = "known" THEN Killed(r)
  ELSE Harvest("reap", Signal(r, "kill"), {ReapWaiter}, TRUE, FALSE)

KillProc(r) ==
  IF proc' = "known" THEN Killed(r)
  ELSE Harvest("killproc", r, {KillWaiter}, TRUE, FALSE)

\* Mutant: _kill does not end the tasks.
KillProcOnly(r) ==
  KillProc(IF proc' = "known" THEN r
           ELSE Signal(r, IF opt.hard THEN "kill" ELSE "cancel"))

Kill(r) ==
  LET k == IF proc' = "known" THEN r
           ELSE Signal(r, IF opt.hard THEN "kill" ELSE "cancel")
  IN  IF k.tasks # {} THEN Harvest("killtasks", k, k.tasks, TRUE, FALSE)
      ELSE KillProc(k)

\* Mutant: a process that outlasts cancel_timeout is not killed.
KillEndsGently ==
  /\ Over("killtasks") \/ Over("killproc")
  /\ proc' = proc
  /\ \/ Thrown = "return" /\ pc = "killtasks" /\ KillProc(run)
     \/ Thrown \in {"return", "timeout"} /\ Killed(run)
     \/ Thrown = "cancelled" /\ Killed(Cancelled(run))
     \/ Thrown = "exc" /\ pc = "killtasks" /\ Killed(run)
     \/ /\ Thrown \in {"exc", "interrupt", "runtime"}
        /\ Killed([run EXCEPT !.raise = Thrown])
  /\ UNCHANGED <<opt, exec, cancelReq, cancels>>

\* Harvest of the tasks, or of the process, in _kill. A task may fail with a
\* TimeoutError of its own, which is taken for that of the harvest.
KillEnds ==
  /\ Over("killtasks") \/ Over("killproc")
  /\ proc' = proc
  /\ \/ Thrown = "return" /\ pc = "killtasks" /\ KillProc(run)
     \/ Thrown = "return" /\ pc = "killproc" /\ Killed(run)
     \/ Thrown = "cancelled" /\ KillWait(Cancelled(run))
     \/ Thrown = "timeout" /\ KillWait(run)
     \/ Thrown = "exc" /\ pc = "killtasks" /\ KillWait(run)
     \/ /\ Thrown \in {"exc", "interrupt", "runtime"}
        /\ KillWait([run EXCEPT !.raise = Thrown])
  /\ UNCHANGED <<opt, exec, cancelReq, cancels>>

\* Harvest of the process in _kill_wait; on a timeout the process is polled.
ReapEnds ==
  /\ Over("reap")
  /\ \/ /\ Thrown = "return"
        /\ proc' = proc
        /\ Killed(run)
     \/ /\ Thrown = "timeout" /\ proc # "alive"
        /\ proc' = "known"
        /\ Killed(run)
     \/ /\ Thrown = "timeout" /\ proc = "alive"
        /\ proc' = proc
        /\ Killed([run EXCEPT !.raise = "runtime"])
     \/ /\ Thrown \in {"cancelled", "runtime"}
        /\ proc' = proc
        /\ Killed([run EXCEPT !.raise = Thrown])
  /\ UNCHANGED <<opt, exec, cancelReq, cancels>>

----------------------------------------------------------------------------
(* _start.                                                                 *)

\* An exception in _start. _kill is called only if self._proc is set.
StartFails(r, ex) ==
  LET f == [(IF ex = "cancelled" THEN Cancelled(r) ELSE r) EXCEPT
              !.cause = ex, !.raise = ex, !.origin = "start"]
  IN  IF exec = "ok" THEN Kill(f) ELSE LeaveEnter(f)

\* __aenter__ up to the sleep(0) before the launch.
Enter ==
  /\ pc = "new"
  /\ proc' = proc
  /\ \/ Await("yield", [run EXCEPT !.audit = "started"])
     \/ StartFails([run EXCEPT !.audit = "started"], "exc")
  /\ UNCHANGED <<opt, exec, cancelReq, cancels>>

\* The launch, in a task of its own that is shielded from cancellation.
Launch ==
  /\ pc = "yield" /\ ~cancelReq
  /\ exec' = "running"
  /\ proc' = proc
  /\ Await("spawn", run)
  /\ UNCHANGED <<opt, cancelReq, cancels>>

CancelledBeforeLaunch ==
  /\ pc = "yield" /\ cancelReq
  /\ cancelReq' = FALSE
  /\ proc' = proc
  /\ StartFails(run, "cancelled")
  /\ UNCHANGED <<opt, exec, cancels>>

\* uninterrupted() is cancelled: it waits for the launch to end.
CancelledInSpawn ==
  /\ pc = "spawn" /\ cancelReq
  /\ cancelReq' = FALSE
  /\ proc' = proc
  /\ IF exec = "running" THEN Await("respawn", run)
     ELSE StartFails(run, IF exec = "failed" THEN "exc" ELSE "cancelled")
  /\ UNCHANGED <<opt, exec, cancels>>

\* A second cancellation reaches the task of the launch, which has forked the process:
\* create_subprocess_exec closes the transport, whose close() kills it, and waits for
\* it to exit. A third one ends that wait.
CancelledInRespawn ==
  /\ pc = "respawn" /\ cancelReq
  /\ cancelReq' = FALSE
  /\ \/ /\ exec = "running" /\ exec' = "cancelling" /\ proc' = "alive"
        /\ Await("respawn", Signal(run, "kill"))
     \/ /\ exec = "cancelling" /\ exec' = "cancelled" /\ proc' = proc
        /\ Await("respawn", run)
     \/ /\ exec \in {"ok", "failed", "cancelled"} /\ UNCHANGED exec /\ proc' = proc
        /\ StartFails(run, "cancelled")
  /\ UNCHANGED <<opt, cancels>>

\* Mutant: a process launched in spite of a cancellation is forgotten.
RespawnedForgets ==
  /\ pc = "respawn" /\ ~cancelReq /\ exec \in {"ok", "failed", "cancelled"}
  /\ proc' = proc
  /\ LeaveEnter([Cancelled(run) EXCEPT !.raise = "cancelled"])
  /\ UNCHANGED <<opt, exec, cancelReq, cancels>>

Respawned ==
  /\ pc = "respawn" /\ ~cancelReq /\ exec \in {"ok", "failed", "cancelled"}
  /\ proc' = proc
  /\ StartFails(run, IF exec = "failed" THEN "exc" ELSE "cancelled")
  /\ UNCHANGED <<opt, exec, cancelReq, cancels>>

\* The launch fails, or a redirection cannot be set up after the tasks of S.
SpawnFails ==
  /\ pc = "spawn" /\ ~cancelReq
  /\ proc' = proc
  /\ \/ exec = "failed" /\ StartFails(run, "exc")
     \/ /\ exec = "ok"
        /\ \E S \in SUBSET opt.io : StartFails([run EXCEPT !.tasks = S], "exc")
  /\ UNCHANGED <<opt, exec, cancelReq, cancels>>

\* The tasks are created and the timer is armed: the body runs.
Started ==
  /\ pc = "spawn" /\ ~cancelReq /\ exec = "ok"
  /\ pc' = "body"
  /\ run' = [run EXCEPT !.tasks = opt.io \cup {Waiter}, !.timer = opt.timeout]
  /\ status' = [t \in Task |-> IF t \in opt.io \cup {Waiter} THEN "running"
                               ELSE status[t]]
  /\ UNCHANGED <<opt, exec, proc, harvestVars, asked, cancelReq, cancels>>

----------------------------------------------------------------------------
(* The body, _wait and the end of _close.                                  *)

\* The body ends: a cancellation that it did not notice meets the harvest.
BodyEnds ==
  /\ pc = "body"
  /\ proc' = proc
  /\ Harvest("wait", [run EXCEPT !.origin = "wait"], run.tasks, FALSE, FALSE)
  /\ UNCHANGED <<opt, exec, cancelReq, cancels>>

BodyRaises ==
  /\ pc = "body"
  /\ proc' = proc
  /\ Kill([run EXCEPT !.origin = "finish", !.cause = "exc"])
  /\ UNCHANGED <<opt, exec, cancelReq, cancels>>

BodyCancelled ==
  /\ pc = "body" /\ cancelReq
  /\ cancelReq' = FALSE
  /\ proc' = proc
  /\ Kill([Cancelled(run) EXCEPT !.origin = "finish", !.cause = "cancelled"])
  /\ UNCHANGED <<opt, exec, cancels>>

\* The body calls run.cancel().
BodySignals ==
  /\ pc = "body" /\ proc # "known"
  /\ run' = Signal(run, IF opt.hard THEN "kill" ELSE "cancel")
  /\ UNCHANGED <<opt, pc, exec, proc, harvestVars, taskVars, cancelReq, cancels>>

\* Mutant: _wait forgets that it was cancelled.
WaitEndsForgetful ==
  /\ Over("wait")
  /\ proc' = proc
  /\ \/ Thrown = "return" /\ Close(run)
     \/ Thrown # "return" /\ Kill([run EXCEPT !.tasks = {}])
  /\ UNCHANGED <<opt, exec, cancelReq, cancels>>

\* Mutant: _wait passes a failure on without _kill.
WaitEndsWithoutKill ==
  /\ Over("wait")
  /\ proc' = proc
  /\ \/ Thrown = "return" /\ Close(run)
     \/ Thrown = "cancelled" /\ Kill([Cancelled(run) EXCEPT !.tasks = {}])
     \/ /\ Thrown \in {"exc", "interrupt", "runtime"}
        /\ Close([run EXCEPT !.tasks = {}, !.raise = Thrown])
  /\ UNCHANGED <<opt, exec, cancelReq, cancels>>

\* The tasks are forgotten before _kill: harvest has ended them all.
WaitEnds ==
  /\ Over("wait")
  /\ proc' = proc
  /\ \/ Thrown = "return" /\ Close(run)
     \/ /\ Thrown = "cancelled"
        /\ Kill([Cancelled(run) EXCEPT !.tasks = {}])
     \/ /\ Thrown = "interrupt"
        /\ Kill([run EXCEPT !.tasks = {}, !.ignore = TRUE])
     \/ /\ Thrown \in {"exc", "runtime"}
        /\ Kill([run EXCEPT !.tasks = {}, !.raise = Thrown])
  /\ UNCHANGED <<opt, exec, cancelReq, cancels>>

\* Mutant: the timeout of wait_closed() is not caught.
CloseEndsRaising ==
  /\ Over("closing")
  /\ proc' = proc
  /\ \/ Thrown = "return" /\ Exit(run)
     \/ Thrown # "return" /\ Exit([run EXCEPT !.raise = Thrown])
  /\ UNCHANGED <<opt, exec, cancelReq, cancels>>

\* Harvest of stdin.wait_closed(): its timeout is only logged.
CloseEnds ==
  /\ Over("closing")
  /\ proc' = proc
  /\ \/ Thrown \in {"return", "timeout"} /\ Exit(run)
     \/ /\ Thrown \in {"exc", "cancelled", "runtime"}
        /\ Exit([run EXCEPT !.raise = Thrown])
  /\ UNCHANGED <<opt, exec, cancelReq, cancels>>

\* A step of the harvest in progress.
HarvestStep == /\ H!Resume
               /\ UNCHANGED <<opt, pc, run, exec, proc>>

\* The steps of the main task that are due without anybody's help.
Main == \/ Enter \/ Launch \/ CancelledBeforeLaunch \/ CancelledInSpawn
        \/ CancelledInRespawn \/ Respawned \/ SpawnFails \/ Started
        \/ BodyCancelled \/ WaitEnds \/ KillEnds \/ ReapEnds \/ CloseEnds
        \/ HarvestStep

Body == BodyEnds \/ BodyRaises \/ BodySignals

----------------------------------------------------------------------------
(* What happens while the main task is suspended.                          *)

\* Leftovers are not followed once the main task is done.
Suspended == phase # "over" /\ pc # "done"

\* self._timer fires.
TimerFires ==
  /\ Suspended /\ run.timer
  /\ run' = [run EXCEPT !.timer = FALSE, !.timedOut = TRUE]
  /\ cancelReq' = TRUE
  /\ UNCHANGED <<opt, pc, exec, proc, harvestVars, taskVars, cancels>>

\* Timers of asyncio.wait. What awaits a plain future ends in the iteration of the
\* loop after its cancellation, long before the seconds of cancel_timeout.
HarvestTimer ==
  /\ \/ H!TimeoutFires
     \/ /\ H!CancelTimeoutFires
        /\ \A t \in H!Running(settling) \cap asked : t \in Helper
  /\ UNCHANGED <<opt, pc, run, exec, proc>>

Cancel == /\ Suspended
          /\ H!Cancel
          /\ UNCHANGED <<opt, pc, run, exec, proc>>

\* create_subprocess_exec ends; if it was cancelled, when the process has exited.
ExecEnds ==
  /\ \/ exec = "running" /\ exec' = "ok" /\ proc' = "alive"
     \/ exec = "running" /\ exec' = "failed" /\ UNCHANGED proc
     \/ exec = "cancelling" /\ proc = "known" /\ exec' = "cancelled" /\ UNCHANGED proc
  /\ UNCHANGED <<opt, pc, run, harvestVars, taskVars, cancelReq, cancels>>

\* The process exits, by itself or from a signal...
ProcExits ==
  /\ Suspended /\ proc = "alive"
  /\ proc' = "dead"
  /\ UNCHANGED <<opt, pc, run, exec, harvestVars, taskVars, cancelReq, cancels>>

\* ... and the event loop's child watcher learns of it.
ProcReaped ==
  /\ Suspended /\ proc = "dead"
  /\ proc' = "known"
  /\ UNCHANGED <<opt, pc, run, exec, harvestVars, taskVars, cancelReq, cancels>>

Ends(t, s) == /\ Suspended
              /\ status[t] = "running"
              /\ s = "cancelled" => t \in asked
              /\ status' = [status EXCEPT ![t] = s]
              /\ UNCHANGED <<opt, pc, exec, proc, harvestVars, asked, cancelReq,
                             cancels>>

\* _waiter ends with the process or with its cancellation, and stops the timer.
WaiterEnds(t, s) ==
  /\ t \in Waiters
  /\ s \in {"ok", "cancelled"}
  /\ s = "ok" => proc = "known"
  /\ run' = [run EXCEPT !.timer = FALSE]
  /\ Ends(t, s)

\* A redirection, a process substitution command or stdin.wait_closed() ends.
HelperEnds(t, s) ==
  /\ t \in Helper \/ (t = Closer /\ s # "interrupt")
  /\ UNCHANGED run
  /\ Ends(t, s)

TaskEnds(S) == \E t \in S, s \in {"ok", "cancelled"} \cup Error :
                 WaiterEnds(t, s) \/ HelperEnds(t, s)

Outside == \/ TimerFires \/ HarvestTimer \/ Cancel \/ ExecEnds
           \/ ProcExits \/ ProcReaped \/ TaskEnds(Task)

----------------------------------------------------------------------------

Init ==
  /\ opt \in Options
  /\ pc = "new" /\ exec = "none" /\ proc = "none"
  /\ run = [tasks |-> {}, timer |-> FALSE, timedOut |-> FALSE, cancelled |-> FALSE,
            ignore |-> FALSE, sigs |-> {}, audit |-> "none", origin |-> "start",
            cause |-> "none", raise |-> "none", exit |-> "none"]
  /\ phase = "idle"
  /\ call = [api |-> "harvest", tasks |-> {Waiter}, timed |-> FALSE, finish |-> FALSE]
  /\ why = "none" /\ settling = {} /\ expired = FALSE
  /\ outcome = H!Ended("none", 0) /\ left = {}
  /\ status = [t \in Task |-> "absent"] /\ asked = {}
  /\ cancelReq = FALSE /\ cancels = 0

Stopped == pc = "done" /\ UNCHANGED vars

Next == Main \/ Body \/ Outside \/ Stopped

Spec == Init /\ [][Next]_vars

\* The event loop resumes the main task, fires timers and delivers a cancellation to
\* what awaits a plain future, and a launch ends. The process and the other tasks
\* promise nothing, and neither does the body.
FairSpec ==
  /\ Spec
  /\ WF_vars(Main) /\ WF_vars(TimerFires) /\ WF_vars(HarvestTimer)
  /\ WF_vars(ExecEnds) /\ WF_vars(TaskEnds(asked \ Helper))

----------------------------------------------------------------------------
(* Properties.                                                             *)

\* Every variable has its type.
TypeOK ==
  /\ opt \in Options
  /\ pc \in {"new", "yield", "spawn", "respawn", "body", "wait", "killtasks",
             "killproc", "reap", "closing", "done"}
  /\ run \in Fields
  /\ exec \in {"none", "running", "cancelling", "ok", "failed", "cancelled"}
  /\ proc \in {"none", "alive", "dead", "known"}
  /\ call \in HarvestCalls
  /\ phase \in {"idle", "wait", "settle", "retry", "over"}
  /\ why \in H!Reason
  /\ settling \subseteq call.tasks /\ left \subseteq call.tasks
  /\ asked \subseteq Task
  /\ status \in [Task -> {"absent"} \cup H!Status]
  /\ expired \in BOOLEAN /\ cancelReq \in BOOLEAN
  /\ outcome \in [kind : H!Kind, task : Task \cup {0}]
  /\ cancels \in 0..MaxCancels

\* How often the main task was told to stop, by its canceller or by its timer.
Stops == cancels + (IF run.timedOut THEN 1 ELSE 0)

\* Something failed that is not a cancellation: the set-up, the body or a task.
Trouble == run.cause = "exc" \/ \E t \in Task : status[t] \in Error

\* However it ends, a run leaves no process behind that has not been killed.
NeverAbandoned == pc = "done" => proc # "alive" \/ "kill" \in run.sigs

\* "A command is not considered fully cancelled until the process exits"
\* (README.md): it holds of a run that is told to stop once and where nothing else
\* fails; the second cancellation ends the wait for a killed process.
CancelOnceReaps ==
  pc = "done" /\ Stops <= 1 /\ ~Trouble /\ run.exit \notin {"runtime", "type_error"}
    => proc \in {"none", "known"}

\* A process is never killed that was not asked to end first, unless cancel_signal
\* is None, or asyncio does it to a process whose launch was cancelled twice.
KillNeedsCancel ==
  "kill" \in run.sigs /\ ~opt.hard =>
    "cancel" \in run.sigs \/ exec \in {"cancelling", "cancelled"}

\* A run that ends in a documented way leaves no task behind, unless it was told
\* to stop more than once.
NoTaskLeft ==
  pc = "done" /\ Stops <= 1 /\ ~Trouble /\ run.exit # "runtime"
    => \A t \in Task : status[t] # "running"

\* The timer can only fire while it has something to stop: it is off when the run
\* is cancelled, timed out or over.
TimerWindow ==
  run.timer => /\ pc \in {"body", "wait", "killtasks", "killproc", "reap"}
               /\ ~run.cancelled /\ ~run.timedOut

\* A timeout that fired, and a cancellation that was delivered, are told to the
\* caller, by the exit or by the flag that makes result() raise. They get lost only
\* in a harvest that is ending its tasks already: the one of _wait after an
\* OutputInterrupted, or the one of _close after its timeout.
StopTold ==
  pc = "done" /\ run.exit = "normal" /\ ~cancelReq =>
    /\ run.timedOut => opt.catch \/ run.ignore
    /\ cancels > 0 => run.cancelled \/ run.ignore \/ Closer \in asked

\* A failure of the body, or of a task that failed by itself, makes the run fail;
\* only a cancellation or an OutputInterrupted may replace it.
FailureTold ==
  pc = "done" /\ run.exit = "normal" /\ Stops = 0 /\ ~run.ignore =>
    /\ run.cause = "none"
    /\ \A t \in Task \ asked : status[t] # "exc"

\* From the moment when a run must end, it ends, whatever the process and the tasks
\* do: every wait of the way out has a timer. Only a launch that is cancelled twice
\* waits in asyncio, without one, for the process that was killed.
StopEnds ==
  \/ pc \in {"killtasks", "killproc", "reap", "closing"}
  \/ pc \in {"body", "wait"} /\ cancelReq
  \/ pc = "respawn"
    ~> (pc = "done" \/ exec = "cancelling")

----------------------------------------------------------------------------
(* What the documentation says and the code does not do.                   *)

\* OutputInterrupted is an "internal exception raised and caught" (redirect.py:138):
\* it never leaves the run.
InterruptCaught == run.exit # "interrupt"

=============================================================================
