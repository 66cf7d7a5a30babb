----------------------------- MODULE PipeRunner -----------------------------
(***************************************************************************)
(* One run of a pipeline by PipeRunner (shellous/runner.py), either awaited *)
(* (run_pipeline) or entered with `async with`, where the first and the    *)
(* last command must announce their streams before the body runs. The main *)
(* task, the tasks of the commands and the canceller of the main task are  *)
(* interleaved; the steps of harvest_results are those of Harvest.         *)
(*                                                                         *)
(* A command is Runner.run_command in a task of its own, reduced to the    *)
(* stages that the pipeline can tell apart: no process yet, process        *)
(* running, asked to end (cancel_timeout runs), killed, over. Runner has   *)
(* the details of these stages.                                            *)
(***************************************************************************)
EXTENDS Naturals

CONSTANTS
  N,           \* number of commands
  Options,     \* the pipelines that are run: records of Option
  MaxCancels   \* bound: how often the main task is cancelled

Commands == 1..N
Ends == {1, N}
Error == {"result_error", "exc", "fatal"}

\* timed: commands with a timeout; any: the last command has the .result modifier,
\* which accepts every exit code.
Option == [capturing : BOOLEAN, timed : SUBSET Commands, any : BOOLEAN]

ASSUME NAssumption == N \in Nat /\ N > 1
ASSUME OptionsAssumption == Options \subseteq Option
ASSUME MaxCancelsAssumption == MaxCancels \in Nat

VARIABLES
  opt,         \* the pipeline
  pc,          \* where the main task is suspended
  run,         \* fields of the PipeRunner and of its unwinding
  cmd,         \* the commands
  fut,         \* _run_future of the first and of the last command
  made, shut,  \* pipe descriptors created; how often each was closed
  req,         \* commands with a cancellation that waits to be delivered
  \* the call of harvest_results (see Harvest)
  call, phase, why, settling, expired, outcome, left,
  status, asked, cancelReq, cancels

harvestVars == <<call, phase, why, settling, expired, outcome, left, asked>>
mainVars == <<pc, run, cancelReq, cancels>>
cmdVars == <<cmd, fut, shut, req, status>>
vars == <<opt, mainVars, cmdVars, made, harvestVars>>

HarvestCall == [api |-> "results", tasks |-> Commands, timed |-> FALSE,
                finish |-> FALSE]

H == INSTANCE Harvest WITH
       Task <- Commands, Fatal <- {"fatal"}, Calls <- {HarvestCall}, own <- {}

\* `entering`: __aenter__ has failed; kill: argument of _wait; cause: the exception of
\* _start or of the body; exit: how the `async with` ended.
Fields == [cancelled : BOOLEAN, entering : BOOLEAN, kill : BOOLEAN,
           cause : {"none", "exc", "cancelled"},
           exit : {"none", "normal", "exc", "cancelled", "raise", "runtime",
                   "invalid_state"}]

\* why: what stopped the command; code and cancelled: its Result.
Command == [stage : {"absent", "starting", "running", "stopping", "killing", "over"},
            why : {"none", "cancel", "timeout", "exc"},
            code : {0, 1}, cancelled : BOOLEAN]

Fd == (1..(N - 1)) \X {"r", "w"}
OwnFds(i) == Fd \cap {<<i - 1, "r">>, <<i, "w">>}
CloseAgain(S) == [f \in Fd |-> IF f \in S THEN shut[f] + 1 ELSE shut[f]]

----------------------------------------------------------------------------
(* The result of the pipeline.                                             *)

\* _compare_result and the early return of _find_key_result: the keys that are compared
\* differ in `cancelled` only, since the exit code of `acc` is taken for both.
Failed(result) == ~result.cancelled /\ result.code # 0
Keeps(acc, item) == Failed(acc) \/ (item.cancelled /\ ~acc.cancelled)

\* _find_key_result: the place of `acc` after the first i results.
KeyPlace[i \in Commands] ==
  IF i = 1 THEN 1
  ELSE LET acc == KeyPlace[i - 1] IN IF Keeps(cmd[acc], cmd[i]) THEN acc ELSE i

\* Mutant: a cancelled result replaces one that is not.
LastResult == cmd[N]

KeyResult == cmd[KeyPlace[N]]

Reported == KeyResult.code

\* PipeRunner.result() once the `async with` has ended without an exception.
Verdict ==
  IF \E i \in Commands : status[i] = "exc" THEN "exc"
  ELSE IF run.cancelled THEN "cancelled"
  ELSE IF Reported # 0 /\ ~opt.any THEN "result_error"
  ELSE "success"

----------------------------------------------------------------------------
(* The main task.                                                          *)

\* Mutant: kill is ignored.
WaitGently(r, kill) ==
  /\ pc' = "harvest" /\ run' = [r EXCEPT !.kill = kill]
  /\ UNCHANGED req
  /\ phase' = "wait" /\ why' = "none" /\ settling' = {} /\ expired' = FALSE
  /\ outcome' = H!Ended("none", 0) /\ left' = {} /\ asked' = {}
  /\ UNCHANGED call

\* _wait: the tasks are cancelled if `kill`, and harvested.
Wait(r, kill) ==
  /\ pc' = "harvest" /\ run' = [r EXCEPT !.kill = kill]
  /\ req' = IF kill THEN req \cup {i \in Commands : cmd[i].stage # "over"} ELSE req
  /\ phase' = "wait" /\ why' = "none" /\ settling' = {} /\ expired' = FALSE
  /\ outcome' = H!Ended("none", 0) /\ left' = {} /\ asked' = {}
  /\ UNCHANGED call

Created == cmd' = [i \in Commands |-> [cmd[i] EXCEPT !.stage = "starting"]]

\* run_pipeline: the tasks are created and harvested without an await between.
Start ==
  /\ pc = "new" /\ ~opt.capturing
  /\ Created /\ made' = Fd
  /\ Wait(run, FALSE)
  /\ UNCHANGED <<opt, fut, shut, status, cancelReq, cancels>>

\* `async with`: the tasks are created, and gather waits for both futures. A
\* cancellation that is pending by then cancels the futures.
StartCapturing ==
  /\ pc = "new" /\ opt.capturing
  /\ Created /\ made' = Fd
  /\ pc' = "starting"
  /\ fut' = [i \in Ends |-> IF cancelReq THEN "cancelled" ELSE "pending"]
  /\ UNCHANGED <<opt, run, shut, req, status, cancelReq, cancels, harvestVars>>

\* os.pipe fails: the pipes made so far are closed. _wait then raises ValueError for
\* its empty set of tasks.
PipeFails ==
  /\ pc = "new"
  /\ \E k \in 0..(N - 2) : made' = (1..k) \X {"r", "w"}
  /\ shut' = CloseAgain(made')
  /\ pc' = "done"
  /\ run' = [run EXCEPT !.cause = "exc", !.exit = "exc", !.entering = TRUE]
  /\ UNCHANGED <<opt, cmd, fut, req, status, cancelReq, cancels, harvestVars>>

\* Both commands have announced their streams: the body runs.
Gathered ==
  /\ pc = "starting" /\ ~cancelReq
  /\ \A i \in Ends : fut[i] = "set"
  /\ pc' = "body"
  /\ UNCHANGED <<opt, run, cmdVars, made, cancelReq, cancels, harvestVars>>

\* CancelledError in gather: _start closes all pipes, __aenter__ kills the commands.
GatherCancelled ==
  /\ pc = "starting" /\ cancelReq
  /\ cancelReq' = FALSE
  /\ shut' = CloseAgain(made)
  /\ Wait([run EXCEPT !.cancelled = TRUE, !.cause = "cancelled", !.entering = TRUE],
          TRUE)
  /\ UNCHANGED <<opt, cmd, fut, made, status, cancels>>

BodyEnds ==
  /\ pc = "body"
  /\ Wait(run, FALSE)
  /\ UNCHANGED <<opt, cmd, fut, made, shut, status, cancelReq, cancels>>

BodyRaises ==
  /\ pc = "body"
  /\ Wait([run EXCEPT !.cause = "exc"], TRUE)
  /\ UNCHANGED <<opt, cmd, fut, made, shut, status, cancelReq, cancels>>

BodyCancelled ==
  /\ pc = "body" /\ cancelReq
  /\ cancelReq' = FALSE
  /\ Wait([run EXCEPT !.cancelled = TRUE, !.cause = "cancelled"], TRUE)
  /\ UNCHANGED <<opt, cmd, fut, made, shut, status, cancels>>

\* Mutant: each step of the harvest cancels the tasks again.
HarvestStepRepeats ==
  /\ pc = "harvest" /\ H!Resume
  /\ req' = req \cup (asked' \cap H!Running(Commands))
  /\ UNCHANGED <<opt, pc, run, cmd, fut, made, shut>>

\* A step of harvest_results. It cancels the tasks when it stops waiting for them,
\* and those that are left when it gives up.
HarvestStep ==
  /\ pc = "harvest" /\ H!Resume
  /\ req' = IF phase = "wait" \/ outcome'.kind = "runtime"
            THEN req \cup (asked' \cap H!Running(Commands)) ELSE req
  /\ UNCHANGED <<opt, pc, run, cmd, fut, made, shut>>

\* How the `async with` ends: _finish suppresses the exception of the body if the
\* run was cancelled, __aenter__ does not.
ExitOf(r) ==
  IF outcome.kind \notin {"results", "cancelled_results"} THEN outcome.kind
  ELSE IF r.cause = "none" \/ (r.cancelled /\ ~r.entering) THEN "normal"
  ELSE r.cause

WaitOver == pc = "harvest" /\ phase = "over"

Finished(r) == /\ pc' = "done"
               /\ run' = [r EXCEPT !.exit = ExitOf(r)]
               /\ UNCHANGED <<opt, cmdVars, made, cancelReq, cancels, harvestVars>>

\* Mutant: _wait returns with the first exception.
WaitEndsEarly == /\ pc = "harvest" /\ phase # "wait"
                 /\ Finished(run)

\* Mutant: the flag that harvest_results returns is ignored.
WaitEndsForgetful == WaitOver /\ Finished(run)

\* Mutant: the exception of the body is always suppressed.
WaitEndsSuppressing == /\ WaitOver /\ pc' = "done"
                       /\ run' = [run EXCEPT !.exit = "normal"]
                       /\ UNCHANGED <<opt, cmdVars, made, cancelReq, cancels,
                                      harvestVars>>

\* Mutant: the outcome of the harvest is the exit.
WaitEndsRaw == /\ WaitOver /\ pc' = "done"
               /\ run' = [run EXCEPT !.exit = outcome.kind]
               /\ UNCHANGED <<opt, cmdVars, made, cancelReq, cancels, harvestVars>>

\* harvest_results is over.
WaitEnds ==
  /\ WaitOver
  /\ Finished([run EXCEPT !.cancelled = @ \/ outcome.kind = "cancelled_results"])

Main == \/ Start \/ StartCapturing \/ PipeFails \/ Gathered \/ GatherCancelled
        \/ BodyCancelled \/ HarvestStep \/ WaitEnds

Body == BodyEnds \/ BodyRaises

----------------------------------------------------------------------------
(* The commands.                                                           *)

\* Leftovers are not followed once the main task is done.
Suspended == phase # "over" /\ pc # "done"

At(i, stages) == Suspended /\ cmd[i].stage \in stages

Becomes(i, stage, reason) ==
  /\ cmd' = [cmd EXCEPT ![i].stage = stage, ![i].why = reason]
  /\ UNCHANGED status

\* The task of a command ends in state s with a Result.
CommandOver(i, s, code, cancelled) ==
  /\ cmd' = [cmd EXCEPT ![i].stage = "over", ![i].code = code,
                        ![i].cancelled = cancelled]
  /\ status' = [status EXCEPT ![i] = s]

\* A command without a Result: what has stopped it is of no consequence.
Fresh(stage) == [stage |-> stage, why |-> "none", code |-> 0, cancelled |-> FALSE]

Raises(i, s) == /\ cmd' = [cmd EXCEPT ![i] = Fresh("over")]
                /\ status' = [status EXCEPT ![i] = s]

\* check_result for an exit code.
Checked(i, code) == IF code = 0 \/ (i = N /\ opt.any) THEN "ok" ELSE "result_error"

\* The process is launched, the command's own pipe ends are closed, and the command
\* announces its streams: on a future that was cancelled, that raises.
Launched(i) ==
  /\ At(i, {"starting"}) /\ i \notin req
  /\ shut' = CloseAgain(OwnFds(i))
  /\ IF opt.capturing /\ i \in Ends
     THEN IF fut[i] = "pending"
          THEN fut' = [fut EXCEPT ![i] = "set"] /\ Becomes(i, "running", "none")
          ELSE UNCHANGED fut /\ Becomes(i, "stopping", "exc")
     ELSE UNCHANGED fut /\ Becomes(i, "running", "none")
  /\ UNCHANGED <<req>>

\* Mutant: a command that cannot start keeps its pipe ends.
LaunchFailsOpen(i) ==
  /\ At(i, {"starting"}) /\ i \notin req
  /\ Raises(i, "exc")
  /\ UNCHANGED <<fut, shut, req>>

\* The set-up or the launch fails: nothing is announced.
LaunchFails(i) ==
  /\ At(i, {"starting"}) /\ i \notin req
  /\ shut' = CloseAgain(OwnFds(i))
  /\ Raises(i, "exc")
  /\ UNCHANGED <<fut, req>>

\* The process exits by itself.
Exits(i) ==
  /\ At(i, {"running"}) /\ i \notin req
  /\ \E code \in {0, 1} : CommandOver(i, Checked(i, code), code, FALSE)
  /\ UNCHANGED <<fut, shut, req>>

\* A redirection fails, or the command's own timeout expires: the process is asked
\* to end.
Breaks(i) ==
  /\ At(i, {"running"}) /\ i \notin req
  /\ \/ Becomes(i, "stopping", "exc")
     \/ i \in opt.timed /\ Becomes(i, "stopping", "timeout")
  /\ UNCHANGED <<fut, shut, req>>

\* The Result of a command whose Runner knows that it was cancelled, which the command
\* reports unless its own timeout was first (check_result).
CancelledResult(i, code) ==
  CommandOver(i, IF cmd[i].why = "timeout" THEN Checked(i, code) ELSE "result_error",
              code, TRUE)

\* A cancellation is delivered: before the launch, while the process runs, in the
\* grace period, or while the killed process is awaited. __aexit__ drops the last one
\* and makes a Result of it, if the process was reaped (else TypeError in result()) and
\* the body, that is the future's set_result, has not failed.
Delivered(i) ==
  /\ i \in req
  /\ req' = req \ {i}
  /\ \/ /\ At(i, {"starting"})
        /\ CommandOver(i, "result_error", 1, TRUE) \/ Becomes(i, "stopping", "cancel")
     \/ At(i, {"running"}) /\ Becomes(i, "stopping", "cancel")
     \/ At(i, {"stopping"}) /\ Becomes(i, "killing", cmd[i].why)
     \/ At(i, {"killing"}) /\ Raises(i, "exc")
     \/ /\ At(i, {"killing"}) /\ (i \in Ends => fut[i] # "cancelled")
        /\ \E code \in {0, 1} : CancelledResult(i, code)
  /\ shut' = IF At(i, {"starting"}) THEN CloseAgain(OwnFds(i)) ELSE shut
  /\ UNCHANGED fut

\* cancel_timeout is over.
GraceOver(i) ==
  /\ At(i, {"stopping"}) /\ i \notin req
  /\ Becomes(i, "killing", cmd[i].why)
  /\ UNCHANGED <<fut, shut, req>>

\* The process that was told to end has ended. _catch_cancelled_error makes the
\* command a cancelled Result, and a ResultError unless it was its own timeout.
Stops(i) ==
  /\ At(i, {"stopping", "killing"}) /\ i \notin req
  /\ \/ /\ cmd[i].why \in {"cancel", "timeout"}
        /\ \E code \in {0, 1} : CancelledResult(i, code)
     \/ \E s \in {"exc", "fatal"} : Raises(i, s)
  /\ UNCHANGED <<fut, shut, req>>

CommandStep(i) == /\ \/ Launched(i) \/ LaunchFails(i) \/ Exits(i) \/ Breaks(i)
                     \/ Delivered(i) \/ GraceOver(i) \/ Stops(i)
                  /\ UNCHANGED <<opt, mainVars, made, harvestVars>>

\* What the event loop and Runner promise: a command that was cancelled ends.
Stopping(i) == /\ Delivered(i) \/ GraceOver(i) \/ Stops(i)
               /\ UNCHANGED <<opt, mainVars, made, harvestVars>>

----------------------------------------------------------------------------
(* The environment.                                                        *)

\* The timer of _cancel_waiter: a delivery takes no time in comparison.
HarvestTimer ==
  /\ pc = "harvest" /\ H!CancelTimeoutFires
  /\ req \cap settling = {}
  /\ UNCHANGED <<opt, pc, run, cmd, fut, made, shut, req>>

\* The main task is cancelled. In gather, that cancels the futures at once.
Cancel ==
  /\ Suspended /\ ~cancelReq /\ cancels < MaxCancels
  /\ cancelReq' = TRUE /\ cancels' = cancels + 1
  /\ fut' = IF pc # "starting" THEN fut
            ELSE [i \in Ends |-> IF fut[i] = "pending" THEN "cancelled" ELSE fut[i]]
  /\ UNCHANGED <<opt, pc, run, cmd, made, shut, req, status, harvestVars>>

Stopped == pc = "done" /\ UNCHANGED vars

\* gather waits for a future that no command is left to set (see AnnouncesOrRaises).
Hung == /\ pc = "starting" /\ \A i \in Commands : cmd[i].stage = "over"
        /\ UNCHANGED vars

----------------------------------------------------------------------------

Init ==
  /\ opt \in Options
  /\ pc = "new"
  /\ run = [cancelled |-> FALSE, entering |-> FALSE, kill |-> FALSE,
            cause |-> "none", exit |-> "none"]
  /\ cmd = [i \in Commands |-> Fresh("absent")]
  /\ fut = [i \in Ends |-> "none"]
  /\ made = {} /\ shut = [f \in Fd |-> 0] /\ req = {}
  /\ call = HarvestCall /\ phase = "idle" /\ why = "none" /\ settling = {}
  /\ expired = FALSE /\ outcome = H!Ended("none", 0) /\ left = {} /\ asked = {}
  /\ status = [i \in Commands |-> "running"]
  /\ cancelReq = FALSE /\ cancels = 0

Next == \/ Main \/ Body \/ HarvestTimer \/ Cancel \/ Stopped \/ Hung
        \/ \E i \in Commands : CommandStep(i)

Spec == Init /\ [][Next]_vars

\* The event loop resumes the main task and fires the timer of the harvest. Commands
\* need not end by themselves, but a Runner that is told to stop does (StopEnds of
\* Runner). The body promises nothing.
FairSpec == /\ Spec
            /\ WF_vars(Main) /\ WF_vars(HarvestTimer)
            /\ \A i \in Commands : WF_vars(Stopping(i))

----------------------------------------------------------------------------
(* Properties.                                                             *)

\* Every variable has its type.
TypeOK ==
  /\ opt \in Options
  /\ pc \in {"new", "starting", "body", "harvest", "done"}
  /\ run \in Fields /\ cmd \in [Commands -> Command]
  /\ fut \in [Ends -> {"none", "pending", "set", "cancelled"}]
  /\ made \subseteq Fd /\ shut \in [Fd -> 0..2]
  /\ req \subseteq Commands
  /\ status \in [Commands -> {"running", "ok"} \cup Error]
  /\ phase \in {"idle", "wait", "settle", "retry", "over"}
  /\ cancels \in 0..MaxCancels

\* A command is over exactly when its task is; the pipeline leaves one behind only if
\* cancel_timeout of the harvest was not enough, or the caller was cancelled again and
\* again while the commands were being ended (PipeRunner._wait).
NoCommandLeft ==
  pc = "done" /\ made = Fd /\ (\E i \in Commands : cmd[i].stage # "over") =>
    \/ run.exit = "runtime" /\ expired
    \/ cancels >= IF run.cause = "cancelled" THEN 3 ELSE 2

\* Every pipe end is closed by the command that owns it, launched or not, once; only
\* a failing _start closes it a second time (runner.py:1245).
PipesClosed ==
  pc = "done" /\ left = {} =>
    \A f \in made : shut[f] = 1 \/ (run.entering /\ shut[f] = 2)

\* A command that the pipeline cancels is given its cancel_timeout, however the
\* harvest is disturbed; but a pipeline that is killed cancels its commands twice.
GraceKept ==
  [][\A i \in req : /\ cmd[i].stage = "stopping" /\ cmd[i].why = "cancel"
                    /\ cmd'[i].stage = "killing"
                    => run.kill]_vars

\* The exit code 0 is reported only if every command has exited with 0 by itself, as
\* long as no command had a timeout: one that was stopped because another failed is
\* outvoted by the one that failed (_find_key_result).
ZeroMeansAllZero ==
  pc = "done" /\ run.exit = "normal" /\ Verdict # "exc" /\ ~run.cancelled
    /\ (\A i \in Commands : cmd[i].why # "timeout") /\ Reported = 0
  => \A i \in Commands : cmd[i].code = 0 /\ ~cmd[i].cancelled

\* Cancellations of the caller that have reached the pipeline; one that is still
\* requested reaches the caller at its next await.
Received == cancels - (IF cancelReq THEN 1 ELSE 0)

\* A cancellation that the pipeline received is never answered by a success with exit
\* code 0. The harvest may drop it (see CancelRaisesCancelled of Harvest): then a command
\* has failed before, and without .result that is raised; with .result, for which every
\* exit code is a success, `await` returns and only the exit code tells of a failure.
CancelNeverSuccess ==
  pc = "done" /\ run.exit = "normal" /\ Verdict = "success" /\ Reported = 0
    /\ (\A i \in Commands : cmd[i].why # "timeout")
  => Received = 0

\* A body that raises leaves no trace in the result only if the run was cancelled.
BodyFailureTold == pc = "done" /\ run.cause = "exc" => run.exit # "normal" \/ run.cancelled

\* From the moment when the pipeline must end, it ends.
StopEnds ==
  \/ pc = "starting" /\ cancelReq
  \/ pc = "harvest" /\ (run.kill \/ cancelReq \/ H!FailedIn(Commands, Error) # {})
    ~> (pc = "done")

----------------------------------------------------------------------------
(* What the documentation says and the code does not do.                   *)

\* "Pipelines support the same await/async for/async with operations that work on a
\* single command" (README.md:437), whose `async with` raises what its launch raised:
\* the caller does not go on waiting for commands that are all over.
AnnouncesOrRaises ==
  pc = "starting" /\ ~cancelReq /\ (\A i \in Commands : cmd[i].stage = "over") =>
    \A i \in Ends : fut[i] = "set"

\* "TimeoutError: Triggered when process execution exceeds `timeout`" (README.md:618),
\* and errors of a pipeline are reported as with pipefail (README.md:435): a pipeline
\* does not succeed if one of its commands was stopped by its timeout.
TimeoutReported ==
  pc = "done" /\ run.exit = "normal" /\ Verdict = "success" =>
    \A i \in Commands : cmd[i].why # "timeout"

=============================================================================
