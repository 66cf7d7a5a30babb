---------------------------- MODULE Descriptors ----------------------------
(***************************************************************************)
(* Who closes which file descriptor of a command: _RunOptions and _cleanup *)
(* (shellous/runner.py), close_fds (util.py), ChildFd, PtyFds and          *)
(* open_streams (pty_util.py), from the set-up to the end of the run. A    *)
(* descriptor closed twice may by then be somebody else's; one that is     *)
(* left open keeps the reader of a pipe from ever seeing its end.          *)
(*                                                                         *)
(* The set-up (`at` counts its stages) and each clean-up run without an    *)
(* await. The main task can be cancelled in open_streams, at the sleep(0)  *)
(* before the launch and in the launch; Runner has the rest of the run.    *)
(***************************************************************************)
EXTENDS Naturals, Sequences

CONSTANTS
  Sub,         \* places of process substitutions among the arguments
  Options      \* the commands that are run: records of Option

Slot == {"in", "out", "err"}

\* sub: a command, or a pipeline that is read or written. slot: an int given without or with
\* close=True, a path that is opened, a file object without or with close=True, or
\* something that is refused.
Option == [sub : [Sub -> {"none", "command", "pipe", "wpipe"}],
           slot : [Slot -> {"none", "given", "owned", "path", "file", "ownedfile",
                            "bad"}],
           pass : {"none", "given", "owned"},
           pty : {"none", "linux", "macos", "freebsd"}]

ASSUME OptionsAssumption == Options \subseteq Option

VARIABLES
  opt,         \* the command's options
  pc, at,      \* where the run is; the stage of its set-up
  made,        \* descriptors that the run has created
  openFds,     \* _RunOptions.open_fds
  pty,         \* _RunOptions.pty_fds: "none", "fds", or "streams"
  closed,      \* how often each descriptor was closed
  later,       \* descriptors that a closing transport will close
  started,     \* process substitutions that run as tasks
  failed       \* history: what made the start fail

vars == <<opt, pc, at, made, openFds, pty, closed, later, started, failed>>

Parent == <<"parent", 0>>
Child == <<"child", 0>>
Pass == <<"pass", 0>>
Ours(s) == <<"ours", s>>       \* passed to the process
Theirs(s) == <<"theirs", s>>   \* redirection of the process substitution
Fd == {<<x, 0>> : x \in Slot} \cup {Parent, Child, Pass}
      \cup {Ours(s) : s \in Sub} \cup {Theirs(s) : s \in Sub}

Subs(kinds) == {s \in Sub : opt.sub[s] \in kinds}
AllSubs == Subs({"command", "pipe", "wpipe"})
Slots(kinds) == {<<x, 0>> : x \in {y \in Slot : opt.slot[y] \in kinds}}
PassIf(kind) == IF opt.pass = kind THEN {Pass} ELSE {}

Given == Slots({"given", "file"}) \cup PassIf("given")
TakenOver == Slots({"owned", "ownedfile"}) \cup PassIf("owned")

\* What the run has to close and has not closed.
Held == {f \in made \cup TakenOver : closed[f] = 0}

----------------------------------------------------------------------------
(* Closing.                                                                *)

Close(S) == closed' = [f \in Fd |-> IF f \in S THEN closed[f] + 1 ELSE closed[f]]

\* Mutant: close=True is not looked at.
CleanupAll == Slots({"given", "owned", "ownedfile"}) \cup PassIf("owned")

\* _cleanup(self.command).
Cleanup == TakenOver

\* _cleanup(subcmd): it reads the options of the last command of a pipeline, while
\* the redirection of a writable one is on the first.
CleanupSubs == {Theirs(s) : s \in Subs({"command", "pipe"})}

\* Mutant: the child descriptor is closed each time.
ChildAlways(S) == {Child} \ S

\* ChildFd.close, after the closes of S.
ChildOnce(S) == IF closed[Child] = 0 THEN {Child} \ S ELSE {}

\* PtyFds.close: with streams, the transport closes the parent descriptor.
PtyNow(kind, S) == CASE kind = "none" -> {}
                     [] kind = "fds" -> {Parent} \cup ChildOnce(S)
                     [] kind = "streams" -> ChildOnce(S)
PtyLater(kind) == IF kind = "streams" THEN {Parent} ELSE {}

----------------------------------------------------------------------------
(* __enter__.                                                              *)

Stages == <<"subs", "in", "out", "err", "pty", "pass", "executable">>
Stage == Stages[at]

\* What a stage creates, and what it adds to open_fds.
Creates(stage) ==
  CASE stage = "subs" -> {Ours(s) : s \in AllSubs} \cup {Theirs(s) : s \in AllSubs}
    [] stage \in Slot -> Slots({"path"}) \cap {<<stage, 0>>}
    [] stage = "pty"  -> IF opt.pty = "none" THEN {} ELSE {Parent, Child}
    [] OTHER          -> {}

\* Mutant: the paths that were opened are not put into open_fds.
AddsGiven(stage) ==
  CASE stage = "subs" -> {Ours(s) : s \in AllSubs}
    [] stage \in Slot -> Slots({"owned"}) \cap {<<stage, 0>>}
    [] stage = "pty"  -> {Child}
    [] OTHER          -> PassIf("owned")

Adds(stage) ==
  CASE stage = "subs" -> {Ours(s) : s \in AllSubs}
    [] stage \in Slot -> Slots({"owned", "path"}) \cap {<<stage, 0>>}
    [] stage = "pty"  -> IF opt.pty = "linux" THEN {Child} ELSE {}
    [] stage = "pass" -> PassIf("owned")
    [] OTHER          -> {}

SetUp ==
  /\ pc = "setup"
  /\ Stage \in Slot => opt.slot[Stage] # "bad"
  /\ made' = made \cup Creates(Stage)
  /\ openFds' = openFds \cup Adds(Stage)
  /\ pty' = IF Stage = "pty" /\ opt.pty # "none" THEN "fds" ELSE pty
  /\ at' = at + 1
  /\ pc' = IF at < Len(Stages) THEN "setup"
           ELSE IF opt.pty = "none" THEN "yield" ELSE "openread"
  /\ UNCHANGED <<opt, closed, later, started, failed>>

\* __enter__ fails: _cleanup, and PtyFds.close in Runner._start; open_fds is left.
EnterFails(why, kind) ==
  /\ pc' = "done" /\ failed' = why
  /\ Close(Cleanup \cup PtyNow(kind, {}))
  /\ pty' = kind
  /\ UNCHANGED <<opt, at, openFds, later, started>>

\* os.pipe fails for a later process substitution, a path cannot be opened, an object
\* is refused, openpty fails, or the executable is not found.
SetUpFails ==
  /\ pc = "setup"
  /\ \/ /\ Stage = "subs"
        /\ \E S \in SUBSET AllSubs :
             /\ S # AllSubs
             /\ made' = {Ours(s) : s \in S} \cup {Theirs(s) : s \in S}
     \/ /\ \/ Stage \in Slot /\ opt.slot[Stage] \in {"path", "file", "ownedfile", "bad"}
           \/ Stage = "pty" /\ opt.pty # "none"
           \/ Stage = "executable"
        /\ UNCHANGED made
  /\ EnterFails("setup", pty)

\* The caller's function that configures the terminal raises, before pty_fds is set.
AdapterRaises ==
  /\ pc = "setup" /\ Stage = "pty" /\ opt.pty # "none"
  /\ made' = made \cup {Parent, Child}
  /\ EnterFails("adapter", "none")

\* os.ttyname fails, after pty_fds is set.
TtynameFails ==
  /\ pc = "setup" /\ Stage = "pty" /\ opt.pty # "none"
  /\ made' = made \cup {Parent, Child}
  /\ EnterFails("setup", "fds")

----------------------------------------------------------------------------
(* _subprocess_spawn and __exit__.                                         *)

\* open_streams: the streams become part of pty_fds when both are connected.
ReadConnected ==
  /\ pc = "openread"
  /\ pc' = "openwrite"
  /\ UNCHANGED <<opt, at, made, openFds, pty, closed, later, started, failed>>

WriteConnected ==
  /\ pc = "openwrite"
  /\ pc' = "yield" /\ pty' = "streams"
  /\ UNCHANGED <<opt, at, made, openFds, closed, later, started, failed>>

\* What _start closes last of all, if it fails; that is skipped if the process is running
\* and _kill raises as well: because of a task (runner.py:662), because the process
\* cannot be killed (:696), or because of another cancellation.
ClosesTerminal(S, kind, why) ==
  /\ failed' = why
  /\ Close(S \cup IF why = "kill" THEN {} ELSE PtyNow(kind, S))
  /\ later' = IF why = "kill" THEN {} ELSE PtyLater(kind)

\* connect_write_pipe fails: it closes the transport that it has not connected.
WriteFails ==
  LET S == openFds \cup CleanupSubs
  IN  /\ pc = "openwrite"
      /\ pc' = "done" /\ failed' = "openwrite"
      /\ Close(S \cup PtyNow(pty, S))
      /\ later' = {Parent}
      /\ openFds' = {}
      /\ UNCHANGED <<opt, at, made, pty, started>>

\* Another exception under `with self._options`: __exit__, then the end of _start. The
\* process runs if it was in the launch, which a cancellation does not interrupt.
SpawnFails ==
  LET S == openFds \cup CleanupSubs
  IN  /\ pc \in {"openread", "yield"}
      /\ pc' = "done"
      /\ \E why \in {"spawn"} \cup IF pc = "yield" THEN {"kill"} ELSE {} :
           ClosesTerminal(S, pty, why)
      /\ openFds' = {}
      /\ UNCHANGED <<opt, at, made, pty, started>>

\* Mutant: open_fds is closed only if the launch fails.
LaunchedOpen ==
  /\ pc = "yield"
  /\ pc' = "running"
  /\ started' = AllSubs
  /\ UNCHANGED <<opt, at, made, openFds, closed, pty, later, failed>>

\* The process is launched, the process substitutions become tasks.
Launched ==
  /\ pc = "yield"
  /\ pc' = "running"
  /\ started' = AllSubs
  /\ Close(openFds)
  /\ openFds' = {}
  /\ UNCHANGED <<opt, at, made, pty, later, failed>>

\* _close; or _start fails after the launch.
RunEnds ==
  /\ pc = "running"
  /\ pc' = "done"
  /\ \E why \in {"no", "kill"} : ClosesTerminal({}, pty, why)
  /\ UNCHANGED <<opt, at, made, openFds, pty, started>>

----------------------------------------------------------------------------
(* Others who close.                                                       *)

\* The run of a process substitution closes its redirection when it is launched or
\* fails to.
SubCloses(s) ==
  /\ s \in started /\ closed[Theirs(s)] = 0
  /\ Close({Theirs(s)})
  /\ UNCHANGED <<opt, pc, at, made, openFds, pty, later, started, failed>>

\* The _start of a pipeline fails in os.pipe: no command ever owns its redirection.
SubFails(s) ==
  /\ s \in started \cap Subs({"pipe", "wpipe"}) /\ closed[Theirs(s)] = 0
  /\ started' = started \ {s}
  /\ UNCHANGED <<opt, pc, at, made, openFds, pty, closed, later, failed>>

\* Mutant: the child descriptor is closed as soon as the reader is connected.
DataReceivedEarly ==
  /\ opt.pty \in {"macos", "freebsd"}
  /\ pc \in {"openwrite", "yield", "running"} /\ closed[Child] = 0
  /\ Close({Child})
  /\ UNCHANGED <<opt, pc, at, made, openFds, pty, later, started, failed>>

\* BSD: the first data arrive, or on FreeBSD a timer of the reader fires.
DataReceived ==
  /\ \/ opt.pty \in {"macos", "freebsd"} /\ pc = "running"
     \/ opt.pty = "freebsd" /\ pc \in {"openwrite", "yield", "running"}
  /\ closed[Child] = 0
  /\ Close({Child})
  /\ UNCHANGED <<opt, pc, at, made, openFds, pty, later, started, failed>>

\* Mutant: the transport closes its descriptor again and again.
TransportClosesAgain ==
  /\ later # {}
  /\ Close(later)
  /\ UNCHANGED <<opt, pc, at, made, openFds, pty, later, started, failed>>

\* The event loop calls _call_connection_lost of a closing transport.
TransportCloses ==
  /\ later # {}
  /\ Close(later) /\ later' = {}
  /\ UNCHANGED <<opt, pc, at, made, openFds, pty, started, failed>>

----------------------------------------------------------------------------

Init ==
  /\ opt \in Options
  /\ pc = "setup" /\ at = 1
  /\ made = {} /\ openFds = {} /\ pty = "none"
  /\ closed = [f \in Fd |-> 0] /\ later = {}
  /\ started = {} /\ failed = "no"

Settled == /\ pc = "done" /\ later = {}
           /\ \A s \in started : closed[Theirs(s)] > 0

Next ==
  \/ SetUp \/ SetUpFails \/ AdapterRaises \/ TtynameFails
  \/ ReadConnected \/ WriteConnected \/ WriteFails \/ SpawnFails
  \/ Launched \/ RunEnds
  \/ \E s \in Sub : SubCloses(s) \/ SubFails(s)
  \/ DataReceived \/ TransportCloses
  \/ Settled /\ UNCHANGED vars

Spec == Init /\ [][Next]_vars

----------------------------------------------------------------------------
(* Properties.                                                             *)

\* Every variable has its type.
TypeOK ==
  /\ opt \in Options
  /\ pc \in {"setup", "openread", "openwrite", "yield", "running", "done"}
  /\ at \in 1..(Len(Stages) + 1)
  /\ made \subseteq Fd /\ openFds \subseteq Fd /\ later \subseteq Fd
  /\ pty \in {"none", "fds", "streams"}
  /\ closed \in [Fd -> 0..2]
  /\ started \subseteq Sub
  /\ failed \in {"no", "setup", "adapter", "openwrite", "spawn", "kill"}

\* No descriptor is closed twice, nor closed and left to a transport to close, on any
\* path through the set-up, the launch and the end. One is: the parent descriptor of a
\* pseudo-terminal, when open_streams is cancelled while it connects the writer.
ClosedOnce ==
  \A f \in Fd : closed[f] + (IF f \in later THEN 1 ELSE 0) <=
                  IF f = Parent /\ failed = "openwrite" THEN 2 ELSE 1

\* What the caller gave without close=True stays open, and nothing is closed that
\* does not exist.
ForeignKept == \A f \in Fd : closed[f] > 0 => f \in (made \cup TakenOver) \ Given

\* Until the launch has succeeded or failed nothing is closed that the process or its
\* process substitutions are to inherit; but the timer of FreeBSD knows no launch.
KeptForLaunch ==
  pc \in {"setup", "openread", "openwrite", "yield"} =>
    \A f \in Fd \ (IF opt.pty = "freebsd" THEN {Child} ELSE {}) : closed[f] = 0

\* The other side of the terminal, which on BSD the reader closes.
BsdChild == IF opt.pty = "linux" THEN {} ELSE {Child}

\* The redirections of pipelines that run no command.
Ownerless == {Theirs(s) : s \in Subs({"pipe", "wpipe"}) \ started}

\* While the process runs, the parent process keeps nothing open that would hide the
\* end of a pipe or of the terminal: only its own side of the terminal, on BSD the
\* other side until data arrive, and what the process substitutions are to take or
\* have failed to take. File objects with close=True are the subject of
\* ClosedAfterLaunch.
EndOfFileSeen ==
  pc = "running" =>
    Held \subseteq {Parent} \cup BsdChild \cup {Theirs(s) : s \in started} \cup Ownerless
                   \cup Slots({"ownedfile"})

\* When all is over everything is closed, except: if __enter__ fails, the pipes of the
\* process substitutions and the files left to the garbage collector; both sides of a
\* terminal whose adapter raises; the terminal if _start and then _kill raise; the pipe
\* of a pipeline that runs no command, or is writable and not started; and what
\* ClosedAfterLaunch is about.
NothingLeaks ==
  Settled =>
    Held \subseteq
      CASE failed = "setup"   -> made \ {Parent, Child}
        [] failed = "adapter" -> made
        [] failed \in {"openwrite", "spawn"} ->
             Slots({"ownedfile"}) \cup {Theirs(s) : s \in Subs({"wpipe"})}
        [] failed = "kill"    -> {Parent} \cup BsdChild \cup Slots({"ownedfile"})
                                 \cup Ownerless
        [] failed = "no"      -> Slots({"ownedfile"}) \cup Ownerless

----------------------------------------------------------------------------
(* What the documentation says and the code does not do.                   *)

\* "True if output object should be closed after subprocess launch"
\* (command.py:125-126, README.md:606): once the process is launched, every redirection
\* that was given with close=True is closed.
ClosedAfterLaunch ==
  pc = "running" => \A f \in Slots({"owned", "ownedfile"}) : closed[f] > 0

=============================================================================
