# A TLA+ model of shellous

shellous runs programs from asyncio. What is hard in it is not the running but the
end: a command, its redirection tasks, its timers and the task of its caller all end
in some order, each may fail or be cancelled while another one is being cleaned up,
and the library promises that nothing is left behind. These modules model that part
of the code, check it with TLC and prove the core of it with TLAPS.

- [Inventory](#inventory)
- [What is modelled](#what-is-modelled)
- [What is checked](#what-is-checked)
- [What is proved](#what-is-proved)
- [Where the code and its documentation disagree](#where-the-code-and-its-documentation-disagree)
- [Plan](#plan)

## Inventory

| component | source | state | operations | what is hard |
| --- | --- | --- | --- | --- |
| harvest | `harvest.py` | the awaited tasks, the timer of one `asyncio.wait` | `harvest`, `harvest_results`, `harvest_wait`, `_cancel_wait`, `_cancel_waiter` | tasks that ignore or answer their cancellation; the caller cancelled during the teardown; timeout racing the last task |
| runner | `runner.py` `Runner`, `util.py` | process, `_tasks`, `_timer`, `_cancelled`, `_timed_out`, `_ignore_cancel_signal`, `_last_signal` | `__aenter__`/`_start`, `cancel`, `send_signal`, `_wait`, `_kill`, `_kill_wait`, `_close`, `__aexit__`/`_finish`, `result` | cancellation at every await; a launch that cannot be interrupted; failures during clean-up; a process that ignores signals |
| run options | `runner.py` `_RunOptions`, `_cleanup` | `open_fds`, `subcmds`, `pty_fds` | `__enter__`, `__exit__`, the `_setup_*` methods | each descriptor closed exactly once on every path |
| pipe runner | `runner.py` `PipeRunner`, `pipeline.py` | a task per command, `_results`, pipes | `__aenter__`/`_start`, `_setup_capturing`, `_wait`, `__aexit__`/`_finish`, `result` | first and last command announce themselves through futures; one failure cancels all |
| command, pipeline | `command.py`, `pipeline.py` | none: immutable values | building, merging options | nothing for a model checker |
| prompt | `prompt.py` | `_pending`, `_at_eof`, decoder | `send`, `expect`, `read_all`, `read_pending`, `command`, `close` | a write and a read that run concurrently; time-outs that must not lose data |
| redirect | `redirect.py` | a stream and its sink | `write_*`, `copy_*`, `_check_eof` | partial chunks, limits, end of file on a pty, `OutputInterrupted` |
| result | `result.py` | none | `check_result`, `convert_result_list`, `_find_key_result` | which command's failure a pipeline reports |
| pty | `pty_util.py` | `parent_fd`, `child_fd` | `open_pty`, `open_streams`, `close` | descriptor ownership; BSD only: polling `waitpid` |
| context stacks | `util.py` | `_CONTEXT_STACKS` | `context_aenter`, `context_aexit` | the same command entered twice, or in two tasks |
| log | `log.py` | none | decorators | nothing |

How they interact: `Command` and `Pipeline` create a `Runner` or a `PipeRunner`; a
`PipeRunner` is a harvest of one `Runner.run_command` per command. A `Runner` enters
its `_RunOptions`, launches the process in a task shielded by `uninterrupted`, and
creates one task per redirection (`redirect.py`), one per process substitution, and
the waiter. It awaits these tasks, the process and the closing of stdin only through
`harvest`. A timer of the event loop cancels the task that runs the `Runner`. `Prompt`
works on the streams of a `Runner`, also through `harvest_results`.

What makes each of them correct:

- *harvest*: all the tasks are done when it ends, or the caller is told otherwise; no
  failure and no cancellation of the caller is lost; it always ends once it must.
- *runner*: the process and the tasks never outlive the run unnoticed; a process is
  killed only after it was asked to end; the timer never fires too late; failures,
  timeouts and cancellations reach the caller.
- *run options, pty*: every descriptor is closed once, on every path.
- *pipe runner*: every command is started or cleaned up, the start cannot hang, and
  the result is that of the key command.
- *prompt*: no byte is lost, duplicated or reordered between `send`s and `expect`s.
- *redirect*: sinks get a prefix of the output, limits and end of file are exact.
- *result*: the key result is the first error that is not a consequence of another.
- *context stacks*: a block exits the runner that it entered.

`PROJECT.json` lists the hazards of the code line by line, with the properties that
watch them or the reason why none does.

## What is modelled

### `Harvest`: one call of `harvest()` or `harvest_results()`

A coroutine runs without interruption from one `await` to the next, so an action is
what the code does when one await returns. `phase` says in which `asyncio.wait` the
call is suspended: the first one of `harvest_wait` ("wait"), the one of
`_cancel_waiter` ("settle"), or its second one after `_cancel_wait` was cancelled
("retry"). `why` is the reason why it stopped waiting, `settling` the set given to
`_cancel_waiter`, `expired` the timer of the current `asyncio.wait`.

| action | code |
| --- | --- |
| `CancelledInWait` | the `except` clause of `harvest_wait`, with or without `cancel_finish` |
| `WaitCompletes`, `WaitLeavesPending` | the rest of `harvest_wait`; the second one decides between timeout and failure as the code does, from the failures of the done tasks |
| `CancelledInSettle`, `CancelledInRetry` | the `except` clause of `_cancel_wait`, and a cancellation that finds it there |
| `Settled`, `SettleGivesUp` | the two ends of `_cancel_waiter` and what follows up to the caller |
| `TimeoutFires`, `CancelTimeoutFires` | the timers of `asyncio.wait` |
| `TaskEnds` | a task ends with a result, an exception, or cancelled, at any time, asked or not, or never |
| `Cancel` | somebody cancels the calling task; two requests before the delivery are one |

How the call ends is computed by `HarvestEnd` (the first exception in list order) and
`ResultsEnd` (`_to_result` of every task). `GeneratorExit` takes the same path as
`CancelledError`; values and log messages are left out. `cancels`, `left` and `own`
are history variables: the number of cancellations, the tasks that were running at the
end, and the tasks that failed without having been asked to cancel.

### `HarvestPromise`: what a caller may rely on

No timers, no retries, no cancellation requests: tasks end; the call reaches one
verdict (completed, failed, timeout, cancelled); it ends *joined* (every task done)
with a report that fits the verdict, or *broken* (a task still running) with a report
that is never a return, a list of results or a timeout. `Harvest` implements it
under the mapping in `Promise`: the verdict is `why`, the end is derived from `phase`
and `left`.

### `Runner`: one `async with Runner(command) as run`

`pc` is the await where the main task is suspended: the `sleep(0)` before the launch
("yield"), the two awaits of `uninterrupted` ("spawn", "respawn"), the body, and the
five calls of harvest ("wait" in `_wait`, "killtasks" and "killproc" in `_kill`, "reap"
in `_kill_wait`, "closing" in `_close`). Those calls are steps of `Harvest`, which is
instantiated on the same variables: `HarvestStep` moves the call, and when its phase
is "over" the main task goes on with the outcome, before anything else can happen.

The code from one await to the next is a chain of operators named after the methods
(`Kill`, `KillProc`, `KillWait`, `Killed`, `Close`, `Exit`, `LeaveEnter`, `StartFails`),
each taking the fields of the `Runner` as the code before has left them. The fields
are one record, `run`, with `raise` for the exception in flight and `exit` for how
the `async with` statement ends. `proc` goes from "none" to "alive" at the launch, to
"dead" when the process exits, and to "known" when the child watcher (or
`poll_wait_pid` after a failed `_kill_wait`) has set `returncode`.

Around the main task: its timer, the timers of harvest, its canceller, the task of the
launch, the process, the child watcher, the `_waiter()` tasks (which end with the
process or when cancelled, and stop the timer), and the redirections and process
substitutions (which end as they like, with `OutputInterrupted` as an outcome of its
own, and may ignore their cancellation for ever).

Abstractions: entering `_RunOptions` works or fails; a set-up failure after the launch
leaves any subset of the tasks created; the exit code is not kept, only when it is known. A
second cancellation during the launch cancels `create_subprocess_exec` after the fork:
asyncio closes the transport, which kills the process (the only SIGKILL without a
`cancel_signal` before it), and waits for it, without a timer; a third cancellation ends
this wait (`CancelledInRespawn`, `ExecEnds`). A redirection that fails with a TimeoutError
of its own is taken for the timeout of the harvest in `_kill`, as there (`KillEnds`). Not
modelled: the pseudo-terminals of BSD, where `_wait` polls the process and there is no
waiter task; `send_signal` with other signals; tasks that the body adds with `add_task`.

### `PipeRunner`: one pipeline, awaited or entered

Three commands connected by pipes. `pc` is where the main task is: "starting" (in the
`gather` of `_setup_capturing`), the body, or "harvest" (in `_wait`, awaiting
`harvest_results`, which is again `Harvest` on shared variables; the tasks of the harvest
are the commands). `run` holds the fields of the `PipeRunner`, the exception in flight and
the exit. `cmd[i]` is a task running `Runner.run_command`, seen through what `Runner`
promises: it starts; it fails to start, or announces itself by its future (first and last
command); its process exits; it breaks; once a cancellation is delivered it is "stopping"
with a grace period, then "killing"; it ends with a result, a `ResultError`, another
exception, or a fatal one. `req` are the cancellations on their way to a task. A command
that is cancelled once more while its killed process is awaited ends with CancelledError, or
with a cancelled result if the process was reaped meanwhile. `shut` counts the closes of
each end of each pipe: the launch of its command closes the two ends it uses, `_start`
closes all of them after a failure.

| action | code |
| --- | --- |
| `Start`, `StartCapturing`, `PipeFails` | `_start` with `_setup_pipeline`; `os.pipe` fails |
| `Gathered`, `GatherCancelled` | the two ends of `gather(first_fut, last_fut)` |
| `BodyEnds`, `BodyRaises`, `BodyCancelled`, `Wait` | `_finish` and `_wait(kill=...)` |
| `WaitEnds`, `Verdict`, `KeyResult`, `KeyPlace`, `Keeps` | `__aexit__`, then `result()`: `convert_result_list`, `_find_key_result`, `check_result` |
| `Launched`, `LaunchFails`, `Exits`, `Breaks`, `Delivered`, `GraceOver`, `Stops` | a command |
| `HarvestStep`, `HarvestTimer`, `Cancel` | `Harvest`; the canceller of the main task |

What the commands write, and the pid, are left out.

### `Descriptors`: who closes what

One command with two places for a process substitution, three redirections, `pass_fds`
and a terminal, each in every variant the code tells apart. `at` counts the stages of
`__enter__`; `made` are the descriptors that the run created, `openFds` is `open_fds`,
`pty` is `pty_fds` (no terminal, bare descriptors, or streams), `closed` counts the
closes of each descriptor and `later` are those that a closing transport will close in
the next turn of the event loop. The main task is followed to the end of `_close`.

| action | code |
| --- | --- |
| `SetUp`, `SetUpFails`, `AdapterRaises`, `TtynameFails` | `__enter__` stage by stage, and each of its failures, with `_cleanup` and `PtyFds.close` |
| `ReadConnected`, `WriteConnected` | the two awaits of `_open_pty_streams` |
| `WriteFails`, `SpawnFails` | `connect_write_pipe` fails; an exception or a cancellation before or in the launch: `__exit__` and the `except` clause of `_start` |
| `Launched`, `RunEnds` | `__exit__` after the launch; `_close`, or a failure of `_start` after the launch |
| `ClosesTerminal` | the end of that `except` clause: the terminal is not closed if `_kill` raises (a task failed, the process cannot be killed, another cancellation) |
| `SubCloses`, `SubFails` | a process substitution that takes its pipe; a pipeline that fails before any command of it owns the pipe |
| `DataReceived`, `TransportCloses` | BSD's `_close_child_fd` (data, or FreeBSD's timer); asyncio |

### `Redirect`: the two tasks that move the data

A process that writes back what it reads, with a bounded channel on either side, a
writing task and a copying task. `wpc` and `cpc` are their awaits; `sent`, `taken`,
`put`, `got` say how far the data have come, `buf` and `dest` where they end. Data are
sequences of bytes: characters of one byte, newlines, and the two bytes of one more character,
which a read or a cancellation can cut; the EOF character of a terminal is an item of its own.
`WriteStream`, `WriteChunk`, `SourceEnds`, `SourceFails`, `WriteDrained`, `CheckEof`,
`EofDrained` are `write_stream`, `write_reader`, `write_asyncgen` and `_check_eof` from
await to await; `Copy`, `Consume`, `Discard`, `CopyEnds`, `SinkTakes`, `SinkStops`, `SinkFails`,
`SinkCloses` the `copy_*` functions. A StreamWriter and an async generator are awaited after
each chunk, once more at the end (`wait_closed()`, `aclose()`), and the generator also to begin
with. `Flush` is the `finally` clause of `copy_stringio`: the bytes are converted when the
task ends, however it ends, and bytes that are no text (encoding "utf-8", strict, the
default) raise UnicodeDecodeError instead. Both tasks can be cancelled at each await, the process
can die, an async generator can stop or raise, as a source and as a sink, and the peer of a StreamWriter
can be gone. Not modelled: `copy_logger`, which is `copy_stringio` line by line without the
flush, and `read_lines`.

### `Prompt` and `PromptStream`: send and expect

`PromptStream` is what a user of `Prompt` may rely on: the output is one text, read from
front to back; a call that succeeds returns the text from the reading position on, a match
the first there is; a call that fails leaves the text to the next call. Two losses are part
of it because the code has them: the match found by a call that is cancelled in the same
turn of the event loop, and a chunk from the first byte on that cannot be decoded.

`Prompt` has the chunks, the decoder (`held` is half a character), the buffer `pending`,
`atEof`, and the tasks: the caller (`pc`), the `job` that `harvest_results` runs for it, and the
`reader` that `_drain` starts. `found` is a match on its way to the caller. Bytes are known by
their position in `said`, so that a loss, a repetition or a reordering shows. `rest` of
`PromptStream` is `found`, `pending`, `held` and `stream` in this order. What the process writes
for a line is text up to the first byte that cannot be decoded (`AnswersAssumption`): the two
halves of a character come together, and every byte that no decoder accepts is a `"bad"` one.

| action | code |
| --- | --- |
| `StartSend`, `EchoOff`, `EchoStays`, `Write` | `send` and `command` up to the wait, `_wait_no_echo` |
| `StartExpect`, `StartReadAll`, `ReadPending`, `Close`, `Expect` | the other calls up to their wait; `expect` searches first |
| `DrainAtOnce`, `DrainWaits`, `DrainEnds`, `LeaveDrain`, `ReaderCancelled` | `_drain` and its `finally` clause |
| `ReaderReads`, `AllReads`, `ExpectReads` | `_read_some` in its two uses, `_read_to_pattern` |
| `Sent`, `WaitEnds`, `TimesOut`, `Cancel`, `Settled`, `JobCancelled` | `harvest_results` with one job, and what the call makes of its outcome |
| `ProcReads`, `ProcWrites`, `ProcBreaks`, `ProcEnds` | the process |

`harvest_results` is taken at its word here, for one job that ends as soon as it is
cancelled: it returns the job's outcome, raises TimeoutError after the timeout, and reports
a cancellation unless it is in a teardown already. What is written to stdin is only counted.

## What is checked

The `MC...` module of each model defines the values of its constants.

| run | instance | shows |
| --- | --- | --- |
| `harvest` (`MCHarvest.cfg`) | 3 tasks, 2 kinds of exception, all 6 kinds of call, up to 3 cancellations | the properties of `Harvest`, and that it implements `HarvestPromise` |
| `runner` (`MCRunner.cfg`) | 4 kinds of command with 1 or 2 tasks besides the waiter, up to 3 cancellations and the timer | the properties of `Runner` |
| `pipe` (`MCPipeRunner.cfg`) | 3 commands, 3 kinds of pipeline, 2 cancellations | the properties of `PipeRunner` |
| `descriptors` (`MCDescriptors.cfg`) | 2 process substitutions, every kind of output, the kinds of the other redirections that the code treats differently | the properties of `Descriptors` |
| `redirect` (`MCRedirect.cfg`) | every pair of a writing task and a sink, channels of 2, inputs of up to 4 | the properties of `Redirect` |
| `prompt` (`MCPrompt.cfg`) | 2 lines, answers of up to 4 bytes over a pipe of 2, chunks of 2, 1 cancellation | the properties of `Prompt`, and that it implements `PromptStream` |
| `harvest_cancel_lost`, `harvest_first_seen`, `runner_interrupt`, `pipe_hang`, `pipe_timeout`, `descriptors_close` | small instances | one disagreement each, see below |

Why these bounds. In `Harvest`, three tasks are a failed one, one that answers its
cancellation and one that ignores it; the code treats all the others like these. Three
cancellations are one more than the code can take (wait, settle, retry). In `Runner`, three
cancellations and the timer are four interruptions, enough to interrupt the launch
and the wait of asyncio for the process that it killed, or the wait, the kill and the reaping
in turn; a second task matters only for the
choice that harvest makes between two failures, which is why one instance is enough.
The options are the ones the code branches on, each set in one command and not in another.
A run is not followed once the main task is done. In `PipeRunner` three commands are a
first, a middle and a last one; the second cancellation meets the teardown of the first. In
`Redirect` the inputs are longer than a channel, so that the tasks and the process all
block, the character of two bytes is longer than a read of one, and the limits lie below, at and
above the length of an input. In `Prompt` a line is more than the
pipe to the process holds, and an answer more than the pipe from it, so that the second
`send` has to wait for a process that waits for it to read; chunks of one and two bytes
split the prompt and a character in every place.

The properties of `Harvest`:

- `JoinedUnlessBroken`, `LeavesOnlyWhenForced`: the three docstrings say "all of the
  awaitables are guaranteed to be done". True after a return, a timeout or an exception
  of `harvest`; otherwise a task is left only if it outlasted `cancel_timeout`, or if the
  caller was cancelled three times (twice if the teardown had begun already).
- `FailureSurfaces`, `WaitCancelReported`: a failure is not hidden by a return or by a
  timeout, and a cancellation that meets the wait is reported.
- `CancelsOnlyWithReason`, `CancelFinishSpares`: when tasks are cancelled, and when not.
- `CallEnds`: once the call is cancelled, timed, ready or tearing down, it ends.
- `PromiseKept`: the refinement.

The properties of `Runner`:

- `NeverAbandoned`: when the run is over, the process has exited or has been killed.
- `CancelOnceReaps`: README.md says "a command is not considered fully cancelled until
  the process exits". So it is for a run that is told to stop once (by its caller or
  its timer) while nothing else fails. A second cancellation ends the wait for a process
  that was killed a moment before.
- `KillNeedsCancel`: no SIGKILL without `cancel_signal` before, unless `cancel_signal` is
  None or the launch was cancelled twice, when asyncio kills the process by closing its
  transport.
- `NoTaskLeft`: under the same conditions no redirection or waiter is left running.
- `TimerWindow`: the timer is armed only from the body to `_kill_wait`, and never after
  it fired or the run was cancelled.
- `StopTold`: timeouts and cancellations are told to the caller, by the exit or by the
  flag that makes `result()` raise. The two exceptions it names are cancellations that
  harvest drops (see below).
- `FailureTold`: without a cancellation, a failure of the body or of a task is never
  turned into a normal end.
- `StopEnds`: once a run must end, it does, except in a launch that was cancelled twice,
  where asyncio waits for the process that it has killed.

The properties of `PipeRunner`:

- `NoCommandLeft`: when the `PipeRunner` has ended, no command is running, unless it outlasted
  `cancel_timeout` or the caller was cancelled again and again.
- `PipesClosed`: then every end of a pipe has been closed once, by its command; a start that
  fails closes them again.
- `GraceKept`: a command that the pipeline cancels keeps its grace period, except where
  `_wait(kill=True)` cancels the commands and the harvest cancels them once more.
- `ZeroMeansAllZero`: without timeouts a pipeline reports 0 only if every command has exited with
  0 by itself: the promise of `pipefail`.
- `CancelNeverSuccess`: a cancellation that the pipeline has received is never answered with a
  success whose exit code is 0, with `.result` or without. It can be answered with a normal
  return: if harvest drops it (disagreement 1 below) and the caller asked for `.result`, for which every
  exit code is a success, `await` returns a `Result`, and only its exit code tells that
  something failed; without `.result` that failure is raised. A cancellation that is still
  requested when the pipeline ends was not received: it reaches the caller at its next await.
- `BodyFailureTold`: an exception of the body is suppressed only in a cancelled pipeline.
- `StopEnds`: once the pipeline must end, it does.

The properties of `Descriptors`: `ClosedOnce` and `ForeignKept` (nothing is closed twice, or
is closed that is not ours), `KeptForLaunch` (nothing is closed that the process is to
inherit), `EndOfFileSeen` (while the process runs, this process keeps no end of a pipe open
that would hide its end from a reader), `NothingLeaks` (all is closed in the end). Each
states its exceptions; they are the leaks listed below. `ClosedAfterLaunch`, what the
documentation says of close=True, is violated.

The properties of `Redirect`: `InputDelivered` (the process is sent all the input in order, and then
nothing but EOF characters),
`SinkExact` (a sink was handed exactly what was read, or its first `limit` bytes, also after a
cancellation; a StringIO gets all of it or, if it ends within a character, nothing, and the task
fails), `EofToldOnce` (a terminal sees the end of the input once; nothing is claimed of an empty
last chunk at the beginning of a line, see below), `Completes` (writer,
process and copier never wait for each other for ever).

The properties of `Prompt`: `StreamKept` is the refinement of `PromptStream`; `CallsEnd` says
that a `send` without a timeout ends although both pipes are full, that an `expect` ends once the
prompt was written, and that a call ends that was cancelled or timed out. Its `TypeOK` also says that
no job and no reader is left when a call has ended.

`TypeOK` is the type invariant of each. Every property has a mutant, an operator next to
the definition that it replaces, which breaks the property: `PROJECT.json` pairs them.

Fairness. In every module with fairness the event loop resumes a coroutine that is ready and
fires its timers: weak fairness of the steps of the call and of each kind of timer. In
`Runner`, also of the launch (`create_subprocess_exec` returns) and of the delivery of a
cancellation to what awaits a plain future: the `_waiter()` tasks and `stdin.wait_closed()`;
for the same reason these are done before the seconds of `cancel_timeout` have passed.
Nothing is assumed of the process, of the redirections, of the tasks of a harvest, or that
the body ever ends; the body is assumed to let a `CancelledError` that reaches it out. So
`CallEnds` and `StopEnds` rest on the timers only. In `PipeRunner`, of the event loop and of
commands that were cancelled: they end, which is `StopEnds` of `Runner` and, for a launch
that was cancelled twice, that a killed process exits; of nothing else a command does. In
`Redirect` and `Prompt` the claim is about blocking, so the process is assumed to go on too:
it reads when it can, writes when it has something to write and there is room, and in
`Redirect` exits at the end of its input. There the sink of the copying task is assumed to
take what it is handed, too.

## What is proved

`HarvestProofs` proves, for every set of tasks, every set of exceptions, every set of
calls and every bound on the cancellations, from the assumptions on the constants stated
in `Harvest` (the tasks are positive numbers, so that "first" means something;
`asyncio.wait` refuses an empty set; only `harvest` has `cancel_finish`):

- `TypeCorrect`, `Joins`, `LeavesForced`, `Surfaces`, `CancelsRightly`, `SparesFinishers`,
  `ReportsWaitCancel`: all the safety invariants of the `harvest` run, as `Spec => []Inv`;
- `KeepsPromise`: `Spec => PromiseKept`, the refinement of `HarvestPromise`.

None of the invariants is inductive. Their common strengthening `IInv` adds what the code
knows at each await: `WaitInv` (nothing has been asked to cancel yet, and whoever has
failed did so by itself), `SettleInv` (whoever is running is being waited for and has
been asked to end, except under `cancel_finish`; a timeout means that nobody had failed
by itself), `CancelInv` (how many cancellations it takes to be in that await) and
`OverInv`. There is one step lemma per action of `Next`; the actions that end the call
share `StepEnd`, which rests on `HarvestEndFacts` and `ResultsEndFacts`, the reports that
`HarvestEnd` and `ResultsEnd` can produce. `FirstIn` (the first of a set of tasks is one of
them) comes from the well-foundedness of the natural numbers.

`DescriptorsProofs` proves the six invariants of the `descriptors` run (`TypeCorrect`,
`ClosesOnce`, `KeepsForeign`, `KeepsForLaunch`, `ShowsEndOfFile`, `LeaksNothing`) for every
number of process substitutions and every set of commands, from the one assumption that a
command has the options of `Option`. `ClosedOnce` says nothing of what may still be closed,
so the inductive invariant `IInv` says, for each place of the run, who owns what is open:
`MadeInv` (where a descriptor comes from, in `open_fds` and in the hands of a transport),
`SetUpInv` (what the stages that are over have put into `open_fds`), `StartInv` (everything
that is open at the launch is in `open_fds` or is meant to stay), `RunInv`, and `DoneInv`
(what is open at the end belongs to a transport, to a process substitution, or is one of the
leaks). `KindsDiffer` is the fact about the data below it: descriptors that are made, taken
over and lent are different ones. The actions that fail in `__enter__` share
`StepEnterFails`, those of others that close one descriptor share `StepOneClosed`.

`RunnerProofs` proves the eight invariants of the `runner` run (`TypeCorrect`,
`NeverAbandons`, `ReapsOnce`, `KillsAfterAsking`, `LeavesNoTask`, `TimerInTime`, `TellsStop`,
`TellsFailure`) for every set of redirections and process substitutions, every set of
commands and every bound on the cancellations. All but `KillNeedsCancel` and `TimerWindow`
speak of the end of a run only; to know that, one has to know at each await what has
happened so far. The parts of `IInv`: `ExecInv` (the launch and the process), `TaskInv` and `EndInv`
(which tasks exist when, and how they can end: a waiter ends well only when the process
is known), `CallInv` (what each of the five harvests waits for), `PhaseInv` (what a harvest
knows in its first, second and third wait), `CountInv` (how many cancellations it takes to be
there), `LeftInv` (what a harvest may have left running), `TimerInv` (the timer and the
flags that stop it), `SigInv` (the signals), `ToldInv` (which stops the fields know of), and `EndsWell`,
the properties at the end. The code between two awaits is a chain of operators (`Kill`,
`KillProc`, `KillWait`, `Killed`, `Close`, `Exit`), so each of them has a lemma of the form of a
Hoare triple: from what is known when it is called to `IInv'`. A step of a harvest
(`HarvestStep`) is proved once for all five.

`PipeRunnerProofs` proves the six invariants of the `pipe` run (`TypeCorrect`,
`LeavesNoCommand`, `ClosesPipes`, `TellsBodyFailure`, `ZeroIsTrue`, `NoSuccessWhenCancelled`)
and the action property `GraceKept` (`KeepsGrace`) for every length of a pipeline, every set of
pipelines and every bound on the cancellations. `PipeInv` counts the closes of each end of a
pipe from the stage of the command that owns it; `CountInv` bounds the cancellations from below;
`QuietInv` says that a run that nobody has interrupted knows of every cancellation that was
delivered, and that its commands were stopped by nothing but their timeouts; `PhaseInv` names
the command whose failure has ended the wait; `OnceInv`, that no command is asked twice, is what
`GraceKept` needs. `MovesKeep` is one lemma for all the steps of a command. The key result of a
pipeline of any length is found by the recursive function `KeyPlace`, which says place by place
what the loop of `_find_key_result` keeps; `KeyPlaceWalk` shows that the function exists and
what it keeps (by a least counterexample, since induction is out of the prover's reach), and
`KeyFails` that a failure anywhere makes the key result a failure.

`RedirectProofs` proves the four invariants of the `redirect` run (`TypeCorrect`,
`DeliversInput`, `CopiesExactly`, `TellsEofOnce`) for every capacity of the channels, every
input in every division into chunks, and every limit. `WriterInv` says that a process that
lives has been sent exactly the chunks that were taken so far, and then the EOF characters
that fit `ends_with_newline`; `CopierInv`, that `copy_stringio` holds in its buffer what was
read and nothing is in the sink, and that every other sink holds what was read already, up
to the limit; at the end of a StringIO all depends on whether that is text. `Flattens`
(`FlattenSeq` of the first n chunks adds one chunk after the other) is again shown by a
least counterexample; `TakeExtends`, `TakeLimits` and their neighbours are the facts about
prefixes that `read` and the limit need, `Told` counts the ends of file of a terminal, and
`LastChunk` links the end of the input to its last chunk.

`PromptProofs` proves `TypeCorrect` and the refinement `KeepsStream`: `Spec => StreamKept`,
for every prompt, every process whose answers are text (`AnswersAssumption`), every size of
the pipes and of the chunks and any number of lines and cancellations. `TypeOK` also says
that no job and no reader is left when a call has ended. `CallInv` says which jobs each wait
of a call can see; `FoundInv`, that what a job has found is the first match and that the
pending text holds none when a job ends at the end of the text; `DataInv`, how far the
output has been read, that the decoder holds exactly the half of a character that came
alone, and that its input up to there can be decoded. The last point is what makes
`ChunkLost` rare: `CleanDecodes` says that the decoder refuses no chunk that ends before the
first bad byte. `TellsChunk` maps the reading of a chunk to no step at all, or to
`ChunkLost`; `TellsHit`, `TellsAll`, `TellsWord`, `TellsEnd` and `TellsBegin` map the
answers of the calls, and the lemmas that end in `Tell` or `Tells` (one per kind of action)
put them together. `Searches` and `Parts` say what `pattern.search` and the cut at its match
give; `FirstStays` and `HitExtends`, that nothing that is written or read later makes an
earlier match.

Only model-checked: the liveness properties (fairness and `ENABLED` are out of the
prover's reach). Every safety property of the passing runs is proved.

## Where the code and its documentation disagree

Each of these is a run that TLC finds violated; `PROJECT.json` quotes the lines.

1. `harvest_cancel_lost`: a cancellation of `harvest` that arrives while it is ending its
   tasks is dropped (`harvest.py:173`), and the caller gets the timeout or the exception
   instead. A `Runner` inherits this in `_wait` after `OutputInterrupted`, and in `_close`.
2. `harvest_first_seen`: `harvest` raises the first exception in list order, which may be
   one that a task raised in answer to its cancellation, not "the first exception seen".
3. `runner_interrupt`: `OutputInterrupted` is caught in `_wait` only. If the body of an
   `async with` raises after a redirection was interrupted, `_kill` lets the internal
   exception out in place of the body's.
4. `pipe_hang`: `async with` on a pipeline waits for the futures of its first and last
   command. A command that cannot be launched never sets its future, and nobody watches the
   tasks meanwhile: `async with sh("nonexistent") | sh("cat")` waits for ever.
5. `pipe_timeout`: a command of a pipeline that its own timeout stops counts as cancelled, and a
   cancelled result loses against every other one. `sh("sleep", 10).set(timeout=0.5) | sh("cat")`
   returns normally, without TimeoutError and without `pipefail`.
6. `descriptors_close`: a redirection with close=True is to be closed "after the process is
   launched". Numbers are; a file object is closed only if the launch fails, and otherwise stays
   open when the run is over.

Found with the models and left out of the runs, since no document promises otherwise or since
the property states the exception:

- The timer of a run watches its process: the waiter stops it when the process has exited
  (`runner.py:833`). A redirection or a process substitution that goes on after that is awaited
  without any timer. The documentation speaks of the time that the process takes, so that
  this contradicts nothing, but `timeout=1` does not bound the `await` of a command
  with a writable process substitution `sleep 4`.
- A cancellation within a character of the output replaces CancelledError by
  UnicodeDecodeError in `copy_stringio`, and the StringIO gets nothing of what was read.
- A launch that is cancelled twice kills its process without `cancel_signal` (asyncio does, see
  `Runner`), and waits for it without a bound.
- A cancelled pipeline with `.result` may return a `Result`: see `CancelNeverSuccess`.
- A cancelled `async with` block ends normally and leaves it to `result()` to raise
  CancelledError, so that an exception of the body vanishes if a cancellation follows it in
  `_kill`; a run with `_catch_cancelled_error` whose process could not be reaped during the
  start ends with the TypeError of `result()`.
- `Prompt.send`: the reader of `_drain` dies of the first byte that it cannot decode, its
  exception is never retrieved, and the chunk is lost although `send` succeeds. If the process is
  blocked on its output then, `send` waits for ever: `send(b"\xff" + b"x" * 4000000)` to `cat`
  hangs. `CallsEnd` has to make an exception for it.
- `Prompt.send`: if the reader of `_drain` has not ended by itself, its CancelledError
  replaces the ConnectionResetError of the drain. `send` to a process that has closed its input
  returns normally.
- `Prompt.expect` that is cancelled in the turn in which it finds the prompt loses the text.
- Descriptors that stay open: the pipes of process substitutions and files of redirections if
  `__enter__` fails (an executable that is not found suffices); both sides of a terminal
  whose `pty` function raises; the terminal of a run whose `_start` fails after the launch and whose
  `_kill` raises as well (`runner.py:767`, so that line 769 is skipped); the pipe of a writable
  *pipeline* as a process substitution if the launch fails (`_cleanup` reads the options of its
  last command); the pipe of a pipeline as a process substitution that fails in `os.pipe`.
- The parent side of a terminal is closed twice if `open_streams` is cancelled between its two
  awaits: by the transport of the reader, and by `PtyFds.close`.
- A last chunk of the input that is empty counts as a line without newline: at the beginning of a
  line a terminal gets two EOF characters, the second of which ends the next read, although
  `redirect.py:163-165` says that "at the beginning of a line, we only need to send one EOF".
  An empty input (`b""`) suffices. `EofToldOnce` leaves this case out.

## Plan

Done: `Harvest`, `HarvestPromise`, `HarvestProofs`; `Runner`, `RunnerProofs`; `PipeRunner` (with
the choice of the key result inside), `PipeRunnerProofs`; `Descriptors`, `DescriptorsProofs`;
`Redirect`, `RedirectProofs`; `Prompt` with `PromptStream`, `PromptProofs`.

To come, the most important first:

1. *RunnerPromise*, an abstract run (launched, stopping, reaped or abandoned, with the verdict
   told to the caller) that `Runner` implements and that the commands of `PipeRunner` are
   instances of; the exit code (poll, watcher and 255, the mapping of `OutputInterrupted`).
2. *ContextStack*: blocks of one command entered by several tasks and left in any order.

## Not modelled

- `Command`, `Pipeline` and `Options` as values: pure functions without state, which unit tests
  reach as well as a model would.
- The context stacks (`util.py`), so far: see the plan.
- Logging (`log.py`), terminal modes and sizes (`pty_util.py`), the conversion between text and
  bytes except where a chunk splits a character.
- asyncio, the kernel and the child watcher: modelled as far as the code depends on them, and
  marked external in `PROJECT.json`.
- Windows, uvloop, and the BSD path of `Runner` that polls the process.
