---------------------------- MODULE RunnerProofs ----------------------------
(***************************************************************************)
(* Theorems about Runner: its safety properties for every set of helper    *)
(* tasks, every set of commands and any number of cancellations.           *)
(***************************************************************************)
EXTENDS Runner, WellFoundedInduction, TLAPS

----------------------------------------------------------------------------
(* The inductive invariant.                                                *)

InKill == pc \in {"killtasks", "killproc", "reap"}
InHarvest == InKill \/ pc \in {"wait", "closing"}

\* n stops have been delivered, or something has failed that is not a cancellation;
\* the functions take the fields r, since the code changes them before it awaits.
TroubleIn(r) == r.cause = "exc" \/ \E t \in Task : status[t] \in Error
StopsIn(r) == cancels + (IF r.timedOut THEN 1 ELSE 0)
Delivered(r, pending, n) ==
  TroubleIn(r) \/ StopsIn(r) >= n + (IF pending THEN 1 ELSE 0)

\* The launch.
ExecInv ==
  /\ proc = "none" <=> exec \in {"none", "running", "failed"}
  /\ pc \in {"new", "yield"} => exec = "none"
  /\ pc = "spawn" => exec \in {"running", "ok", "failed"}
  /\ pc = "respawn" => exec # "none"
  /\ pc = "body" \/ InHarvest => exec = "ok"
  /\ pc = "done" => exec \notin {"running", "cancelling"}
  /\ exec \in {"cancelling", "cancelled"} => pc \in {"respawn", "done"}

\* Which task may be running when.
TaskInv ==
  /\ pc \in {"new", "yield", "spawn", "respawn"} =>
       run.tasks = {} /\ \A t \in Task : status[t] = "absent"
  /\ pc \in {"body", "wait"} =>
       /\ run.tasks = opt.io \cup {Waiter}
       /\ \A t \in Task : status[t] # "absent" <=> t \in run.tasks
  /\ pc = "body" => asked = {}
  /\ status[KillWaiter] # "absent" => pc \in {"killproc", "reap", "closing", "done"}
  /\ status[ReapWaiter] # "absent" => pc \in {"reap", "closing", "done"}
  /\ status[Closer] # "absent" => pc \in {"closing", "done"}
  /\ \A t \in run.tasks : status[t] # "absent"
  /\ run.tasks \subseteq Helper \cup {Waiter}

\* How tasks end.
EndInv ==
  /\ \A t \in asked : status[t] # "absent"
  /\ \A t \in Task : status[t] = "cancelled" => t \in asked
  /\ \A t \in Waiters : status[t] \notin Error /\ (status[t] = "ok" => proc = "known")
  /\ status[Closer] # "interrupt"

\* What each harvest waits for.
CallInv ==
  /\ InHarvest <=> phase # "idle"
  /\ InHarvest => /\ call.api = "harvest"
                  /\ call.finish = (pc = "closing") /\ call.timed = (pc # "wait")
                  /\ pc \in {"wait", "killtasks"} => call.tasks = run.tasks
                  /\ pc = "killproc" => call.tasks = {KillWaiter}
                  /\ pc = "reap" => call.tasks = {ReapWaiter}
                  /\ pc = "closing" => call.tasks = {Closer}
                  /\ call.tasks # {}
                  /\ \A t \in call.tasks : status[t] # "absent"

Failed == H!FailedIn(call.tasks, Error)

\* What a harvest knows while it waits, while it ends its tasks, and at its end.
PhaseInv ==
  /\ phase = "wait" => /\ asked \cap call.tasks = {}
                       /\ why = "none"
                       /\ expired => call.timed
  /\ phase \in {"settle", "retry"} =>
       /\ why \in {"failed", "timeout", "cancelled"}
       /\ H!Running(call.tasks) \subseteq settling
       /\ (pc = "closing" /\ why = "cancelled") \/ H!Running(call.tasks) \subseteq asked
       /\ expired /\ pc # "closing" => H!Running(call.tasks) \subseteq Helper
       /\ why = "failed" => Failed # {}
       /\ why = "timeout" => call.timed /\ (pc = "closing" => Closer \in asked)
  /\ phase = "over" =>
       /\ outcome.kind \in {"return", "raise", "timeout", "cancelled", "runtime"}
       /\ outcome.kind = "return" => /\ H!Running(call.tasks) = {} /\ Failed = {}
                                     /\ asked \cap call.tasks = {} /\ why = "completed"
       /\ outcome.kind = "raise" => H!Running(call.tasks) = {} /\ outcome.task \in Failed
       /\ outcome.kind = "timeout" => /\ H!Running(call.tasks) = {} /\ call.timed
                                      /\ why = "timeout"
                                      /\ pc = "closing" => Closer \in asked
       /\ outcome.kind = "runtime" /\ pc # "closing" =>
            H!Running(call.tasks) # {} /\ H!Running(call.tasks) \subseteq Helper

\* How many stops it takes to get where the run is.
Base == IF InKill \/ (pc = "closing" /\ run.raise # "none") THEN 1 ELSE 0

\* A stop has been delivered, or none has.
Stopping == \/ run.cancelled \/ run.raise = "cancelled" \/ run.cause = "cancelled"
            \/ phase \in {"settle", "over"} /\ why = "cancelled"
            \/ phase = "retry"
            \/ phase = "over" /\ outcome.kind = "cancelled"
Quiet == \/ pc \in {"new", "yield", "spawn", "body"}
         \/ pc = "wait" /\ phase = "wait"
         \/ pc = "wait" /\ phase = "over" /\ outcome.kind = "return"

CountInv ==
  /\ cancelReq => StopsIn(run) >= 1
  /\ pc = "respawn" => Delivered(run, cancelReq, 1) /\ StopsIn(run) >= 1
  /\ InHarvest => Delivered(run, cancelReq, Base)
  /\ phase = "settle" => Delivered(run, cancelReq, Base + (IF why = "cancelled" THEN 1 ELSE 0))
  /\ phase = "retry" => Delivered(run, cancelReq, Base + (IF why = "cancelled" THEN 2 ELSE 1))
  /\ phase = "over" =>
       /\ outcome.kind = "cancelled" =>
            Delivered(run, cancelReq, Base + (IF H!Running(call.tasks) = {} THEN 1 ELSE 2))
       /\ outcome.kind = "runtime" /\ pc = "wait" => Delivered(run, cancelReq, 1)
  /\ Stopping => StopsIn(run) >= 1
  /\ exec \in {"cancelling", "cancelled"} => StopsIn(run) >= 2
  /\ Quiet /\ StopsIn(run) >= 1 => cancelReq

\* Nobody is left behind without an excuse.
Excuse(r, pending) ==
  \/ TroubleIn(r) \/ StopsIn(r) >= 2
  \/ r.raise = "runtime" /\ r.origin # "start" /\ Delivered(r, pending, 1)

LeftInv ==
  pc \notin {"body", "done"} =>
    \A t \in Task : status[t] = "running" =>
      t \in call.tasks \/ Excuse(run, cancelReq)

\* The timer stops with the waiter.
TimerInv == run.timer => /\ pc \in {"body", "wait", "killtasks"}
                         /\ Waiter \in run.tasks /\ status[Waiter] = "running"
                         /\ ~run.cancelled /\ ~run.timedOut

\* The signals sent before the process is killed.
SigInv ==
  /\ KillNeedsCancel
  /\ exec \in {"cancelling", "cancelled"} => "kill" \in run.sigs
  /\ pc \in {"killtasks", "killproc"} =>
       proc = "known" \/ (IF opt.hard THEN "kill" ELSE "cancel") \in run.sigs
  /\ pc = "reap" => "kill" \in run.sigs
  /\ pc = "closing" => proc = "known"

\* Why a run is ended.
Reasoned(r) == r.cancelled \/ r.ignore \/ r.raise # "none" \/ r.cause = "exc"

\* A run that ended by itself waits for stdin to be closed.
QuietClosing ==
  /\ run.cause = "none" /\ run.raise = "none"
  /\ \A t \in Task \ {Closer} : status[t] \notin {"exc", "running"}
  /\ phase = "wait" /\ StopsIn(run) >= 1 => cancelReq
  /\ phase \in {"settle", "retry"} /\ why # "cancelled" => ~run.timedOut
  /\ phase = "over" =>
       /\ outcome.kind = "return" => StopsIn(run) = 0
       /\ outcome.kind = "timeout" => ~run.timedOut

ToldInv ==
  /\ pc \in {"new", "yield", "spawn", "respawn", "body", "wait"} =>
       ~run.cancelled /\ ~run.ignore /\ run.raise = "none" /\ run.cause = "none"
  /\ pc \in {"new", "yield", "spawn", "respawn", "body"} => run.origin = "start"
  /\ pc = "wait" => run.origin = "wait"
  /\ InKill => Reasoned(run)
  /\ InKill /\ run.origin = "start" => run.raise # "none"
  /\ pc = "killtasks" /\ run.origin = "start" => run.cause = "exc"
  /\ pc = "closing" => run.origin # "start" /\ (Reasoned(run) \/ QuietClosing)

EndsWell == NeverAbandoned /\ CancelOnceReaps /\ NoTaskLeft /\ StopTold /\ FailureTold

IInv ==
  /\ TypeOK /\ ExecInv /\ TaskInv /\ EndInv /\ CallInv /\ PhaseInv /\ CountInv /\ LeftInv
  /\ TimerInv /\ SigInv /\ ToldInv /\ EndsWell

----------------------------------------------------------------------------
(* The operators.                                                          *)

\* The tasks are different ones.
LEMMA Tasks ==
  /\ Task \subseteq Nat \ {0}
  /\ Helper \subseteq Task /\ Waiters \subseteq Task /\ Closer \in Task
  /\ Waiters = {Waiter, KillWaiter, ReapWaiter}
  /\ Helper \cap Waiters = {} /\ Closer \notin Helper \cup Waiters
  /\ Waiter # KillWaiter /\ Waiter # ReapWaiter /\ KillWaiter # ReapWaiter
BY HelperAssumption DEF Task, Waiters, Waiter, KillWaiter, ReapWaiter, Closer

\* No failure is a cancellation or a success.
LEMMA Errors == Error \cap {"absent", "running", "ok", "cancelled"} = {}
BY DEF Error

NatLess == {ss \in Nat \X Nat : ss[1] < ss[2]}

\* First(S), which picks the exception that harvest raises, is a task of S.
LEMMA FirstTask == ASSUME NEW S, S \subseteq Task, S # {} PROVE H!First(S) \in S
<1>1. IsWellFoundedOn(NatLess, Nat)
  BY NatLessThanWellFounded, Zenon DEF NatLess, OpToRel
<1>2. S \subseteq Nat
  BY Tasks
<1>3. PICK x \in S : \A y \in S : ~ (<<y, x>> \in NatLess)
  BY <1>1, <1>2, WFMin
<1>4. ASSUME NEW y \in S PROVE x <= y
  <2> DEFINE ss == <<y, x>>
  <2>1. y < x => ss \in Nat \X Nat /\ ss[1] < ss[2]
    BY <1>2
  <2>2. y < x => ss \in NatLess
    BY <2>1 DEF NatLess
  <2> QED
    BY <2>2, <1>2, <1>3
<1> QED BY <1>4 DEF H!First

\* What harvest makes of the end of harvest_wait.
LEMMA HarvestEnds ==
  ASSUME TypeOK, NEW how \in {"completed", "timeout", "cancelled", "runtime"}
  PROVE  LET e == H!HarvestEnd(how)
         IN  /\ e \in [kind : H!Kind, task : Task \cup {0}]
             /\ how # "completed" => e.kind = how
             /\ how = "completed" => IF Failed = {} THEN e.kind = "return"
                                     ELSE e.kind = "raise" /\ e.task \in Failed
<1>1. Failed \subseteq Task
  BY DEF TypeOK, HarvestCalls, Harvested, Failed, H!FailedIn
<1>2. CASE how # "completed"
  BY <1>2 DEF H!HarvestEnd, H!Ended, H!Kind
<1>3. CASE how = "completed" /\ Failed = {}
  BY <1>3 DEF H!HarvestEnd, H!Ended, H!Kind, Failed
<1>4. CASE how = "completed" /\ Failed # {}
  <2>1. H!First(Failed) \in Failed
    BY <1>1, <1>4, FirstTask
  <2>2. H!HarvestEnd(how) = H!Ended("raise", H!First(Failed))
    BY <1>4 DEF H!HarvestEnd, Failed
  <2> QED BY <1>1, <1>4, <2>1, <2>2 DEF H!Ended, H!Kind
<1> QED BY <1>2, <1>3, <1>4

----------------------------------------------------------------------------
(* The initial states.                                                     *)

LEMMA Starts == Init => IInv
<1> SUFFICES ASSUME Init PROVE IInv
  OBVIOUS
<1>1. TypeOK
  <2>1. run \in Fields
    BY DEF Init, Fields
  <2>2. call \in HarvestCalls
    BY Tasks DEF Init, HarvestCalls, Harvested
  <2>3. status \in [Task -> {"absent"} \cup H!Status]
    BY DEF Init
  <2>4. outcome \in [kind : H!Kind, task : Task \cup {0}]
    BY DEF Init, H!Kind, H!Ended
  <2>5. cancels \in 0..MaxCancels
    BY MaxCancelsAssumption DEF Init
  <2> QED BY <2>1, <2>2, <2>3, <2>4, <2>5 DEF Init, TypeOK, H!Reason
<1>2. ExecInv /\ TaskInv /\ EndInv /\ CallInv /\ PhaseInv
  BY Tasks, Errors DEF Init, ExecInv, TaskInv, EndInv, CallInv, PhaseInv, InHarvest, InKill
<1>3. CountInv /\ LeftInv /\ TimerInv /\ SigInv /\ ToldInv
  BY Tasks DEF Init, CountInv, LeftInv, TimerInv, SigInv, ToldInv, Stopping, Quiet, StopsIn,
     InHarvest, InKill, Base, KillNeedsCancel
<1>4. EndsWell
  BY DEF Init, EndsWell, NeverAbandoned, CancelOnceReaps, NoTaskLeft, StopTold, FailureTold
<1> QED BY <1>1, <1>2, <1>3, <1>4 DEF IInv

----------------------------------------------------------------------------
(* The environment.                                                        *)

\* self._timer fires.
LEMMA TimerFiresKeeps == IInv /\ TimerFires => IInv'
<1> SUFFICES ASSUME IInv, TimerFires PROVE IInv'
  OBVIOUS
<1> USE DEF IInv, TimerFires, Suspended, harvestVars, taskVars
<1>0. /\ run \in Fields /\ run' \in Fields
      /\ run'.tasks = run.tasks /\ run'.timer = FALSE /\ run'.timedOut = TRUE
      /\ run'.cancelled = run.cancelled /\ run'.ignore = run.ignore /\ run'.sigs = run.sigs
      /\ run'.origin = run.origin /\ run'.cause = run.cause /\ run'.raise = run.raise
      /\ run'.exit = run.exit
  BY DEF TypeOK, Fields
<1>1. TypeOK'
  BY <1>0 DEF TypeOK
<1>2. ExecInv' /\ TaskInv' /\ EndInv' /\ CallInv' /\ PhaseInv'
  BY <1>0 DEF ExecInv, TaskInv, EndInv, CallInv, PhaseInv, InHarvest, InKill, Failed,
              H!FailedIn, H!Running
<1>3. CountInv'
  BY <1>0 DEF CountInv, TimerInv, TypeOK, Stopping, Quiet, StopsIn, TroubleIn, Delivered,
              Base, InHarvest, InKill, H!Running
<1>4. LeftInv'
  BY <1>0 DEF LeftInv, TimerInv, TypeOK, Excuse, StopsIn, TroubleIn, Delivered
<1>5. TimerInv' /\ SigInv'
  BY <1>0 DEF TimerInv, SigInv, KillNeedsCancel
<1>6. ToldInv'
  BY <1>0 DEF TimerInv, ToldInv, InKill, Reasoned, QuietClosing
<1>7. EndsWell'
  BY <1>0 DEF EndsWell, NeverAbandoned, CancelOnceReaps, NoTaskLeft, StopTold, FailureTold
<1> QED BY <1>1, <1>2, <1>3, <1>4, <1>5, <1>6, <1>7

\* A timer of asyncio.wait fires.
LEMMA HarvestTimerKeeps == IInv /\ HarvestTimer => IInv'
<1> SUFFICES ASSUME IInv, HarvestTimer PROVE IInv'
  OBVIOUS
<1> USE DEF IInv, HarvestTimer, H!TimeoutFires, H!CancelTimeoutFires, H!taskVars, H!history
<1>1. TypeOK'
  BY DEF TypeOK
<1>2. ExecInv' /\ TaskInv' /\ EndInv' /\ CallInv'
  BY DEF ExecInv, TaskInv, EndInv, CallInv, InHarvest, InKill
<1>3. PhaseInv'
  <2>1. phase \in {"settle",
  "retry"} /\ pc # "closing" => H!Running(call.tasks)' \subseteq Helper
    BY DEF PhaseInv, H!Running
  <2> QED BY <2>1 DEF PhaseInv, H!Running, Failed, H!FailedIn
<1>4. CountInv'
  BY DEF CountInv, Stopping, Quiet, StopsIn, TroubleIn, Delivered, Base, InHarvest, InKill,
         H!Running
<1>5. LeftInv'
  BY DEF LeftInv, Excuse, StopsIn, TroubleIn, Delivered
<1>6. TimerInv' /\ SigInv'
  BY DEF TimerInv, SigInv, KillNeedsCancel
<1>7. ToldInv'
  BY DEF ToldInv, InKill, Reasoned, QuietClosing, StopsIn
<1>8. EndsWell'
  BY DEF EndsWell, NeverAbandoned, CancelOnceReaps, NoTaskLeft, StopTold, FailureTold, Stops,
         Trouble
<1> QED BY <1>1, <1>2, <1>3, <1>4, <1>5, <1>6, <1>7, <1>8

\* Somebody cancels the main task.
LEMMA CancelKeeps == IInv /\ Cancel => IInv'
<1> SUFFICES ASSUME IInv, Cancel PROVE IInv'
  OBVIOUS
<1> USE DEF IInv, Cancel, Suspended, H!Cancel, H!callVars, H!taskVars
<1>1. TypeOK'
  BY MaxCancelsAssumption DEF TypeOK
<1>2. ExecInv' /\ TaskInv' /\ EndInv' /\ CallInv' /\ PhaseInv'
  BY DEF ExecInv, TaskInv, EndInv, CallInv, PhaseInv, InHarvest, InKill, Failed,
         H!FailedIn, H!Running
<1>3. CountInv'
  BY DEF CountInv, TypeOK, Stopping, Quiet, StopsIn, TroubleIn, Delivered, Base, InHarvest,
         InKill, H!Running
<1>4. LeftInv'
  BY DEF LeftInv, TypeOK, Excuse, StopsIn, TroubleIn, Delivered
<1>5. TimerInv' /\ SigInv'
  BY DEF TimerInv, SigInv, KillNeedsCancel
<1>6. ToldInv'
  BY DEF TypeOK, ToldInv, InKill, Reasoned, QuietClosing, StopsIn
<1>7. EndsWell'
  BY DEF EndsWell, NeverAbandoned, CancelOnceReaps, NoTaskLeft, StopTold, FailureTold
<1> QED BY <1>1, <1>2, <1>3, <1>4, <1>5, <1>6, <1>7

\* The launch ends.
LEMMA ExecEndsKeeps == IInv /\ ExecEnds => IInv'
<1> SUFFICES ASSUME IInv, ExecEnds PROVE IInv'
  OBVIOUS
<1> USE DEF IInv, ExecEnds, harvestVars, taskVars
<1>0. pc \in {"spawn", "respawn"}
  BY DEF ExecInv, TypeOK, InHarvest, InKill
<1>1. TypeOK'
  BY DEF TypeOK
<1>2. ExecInv' /\ TaskInv' /\ EndInv' /\ CallInv' /\ PhaseInv'
  BY <1>0, Tasks DEF ExecInv, TaskInv, EndInv, CallInv, PhaseInv, InHarvest, InKill, Failed,
         H!FailedIn, H!Running
<1>3. CountInv'
  BY DEF CountInv, Stopping, Quiet, StopsIn, TroubleIn, Delivered, Base, InHarvest, InKill,
         H!Running
<1>4. LeftInv'
  BY DEF LeftInv, Excuse, StopsIn, TroubleIn, Delivered
<1>5. TimerInv' /\ SigInv'
  BY <1>0 DEF TimerInv, SigInv, KillNeedsCancel
<1>6. ToldInv'
  BY DEF ToldInv, InKill, Reasoned, QuietClosing, StopsIn
<1>7. EndsWell'
  BY <1>0 DEF EndsWell, NeverAbandoned, CancelOnceReaps, NoTaskLeft, StopTold, FailureTold
<1> QED BY <1>1, <1>2, <1>3, <1>4, <1>5, <1>6, <1>7

\* The process exits, and its exit is learned of.
LEMMA ProcEndsKeeps == IInv /\ (ProcExits \/ ProcReaped) => IInv'
<1> SUFFICES ASSUME IInv, ProcExits \/ ProcReaped PROVE IInv'
  OBVIOUS
<1> USE DEF IInv, ProcExits, ProcReaped, Suspended, harvestVars, taskVars
<1>1. TypeOK'
  BY DEF TypeOK
<1>2. ExecInv' /\ TaskInv' /\ EndInv' /\ CallInv' /\ PhaseInv'
  BY Tasks DEF ExecInv, TaskInv, EndInv, CallInv, PhaseInv, InHarvest, InKill, Failed,
         H!FailedIn, H!Running
<1>3. CountInv'
  BY DEF CountInv, Stopping, Quiet, StopsIn, TroubleIn, Delivered, Base, InHarvest, InKill,
         H!Running
<1>4. LeftInv'
  BY DEF LeftInv, Excuse, StopsIn, TroubleIn, Delivered
<1>5. TimerInv' /\ SigInv'
  BY DEF TimerInv, SigInv, KillNeedsCancel
<1>6. ToldInv'
  BY DEF ToldInv, InKill, Reasoned, QuietClosing, StopsIn
<1>7. EndsWell'
  BY DEF EndsWell, NeverAbandoned, CancelOnceReaps, NoTaskLeft, StopTold, FailureTold
<1> QED BY <1>1, <1>2, <1>3, <1>4, <1>5, <1>6, <1>7

\* A task ends: a waiter stops the timer, and fails never.
LEMMA TaskEndsKeeps == IInv /\ TaskEnds(Task) => IInv'
<1> SUFFICES ASSUME IInv, TaskEnds(Task) PROVE IInv'
  OBVIOUS
<1> USE DEF IInv
<1>1. PICK t \in Task, s \in {"ok", "cancelled"} \cup Error : WaiterEnds(t,
s) \/ HelperEnds(t, s)
  BY DEF TaskEnds
<1>2. /\ Ends(t, s)
      /\ t \in Waiters => s \in {"ok", "cancelled"} /\ (s = "ok" => proc = "known")
      /\ t = Closer => s # "interrupt"
      /\ run' = run \/ (t \in Waiters /\ run' = [run EXCEPT !.timer = FALSE])
  BY <1>1, Tasks DEF WaiterEnds, HelperEnds
<1> USE DEF Ends, Suspended, harvestVars
<1>3. /\ run \in Fields /\ run' \in Fields
      /\ run'.tasks = run.tasks /\ run'.timedOut = run.timedOut
      /\ run'.timer => run.timer /\ t # Waiter
      /\ run'.cancelled = run.cancelled /\ run'.ignore = run.ignore /\ run'.sigs = run.sigs
      /\ run'.origin = run.origin /\ run'.cause = run.cause /\ run'.raise = run.raise
      /\ run'.exit = run.exit
  <2>1. CASE run' = run /\ t # Waiter
    BY <2>1 DEF TypeOK
  <2>2. CASE run' = [run EXCEPT !.timer = FALSE]
    BY <2>2 DEF TypeOK, Fields
  <2>3. t = Waiter => run' = [run EXCEPT !.timer = FALSE]
    BY <1>1, Tasks DEF WaiterEnds, HelperEnds
  <2> QED BY <2>1, <2>2, <2>3, <1>2
<1>4. /\ s \in H!Status /\ s \notin {"absent", "running"}
      /\ \A u \in Task \ {t} : status'[u] = status[u]
      /\ status'[t] = s /\ status[t] = "running"
      /\ status' \in [Task -> {"absent"} \cup H!Status]
  BY Errors, <1>2 DEF TypeOK, H!Status, H!Finished
<1>5. \A S \in SUBSET Task : H!Running(S)' = H!Running(S) \ {t}
  BY <1>4 DEF H!Running
<1>6. call.tasks \subseteq Task
  BY DEF TypeOK, HarvestCalls, Harvested
<1>7. Failed \subseteq Failed'
  BY <1>2, <1>4, Errors DEF Failed, H!FailedIn
<1>8. \A r : TroubleIn(r) => \/ r.cause = "exc"
                             \/ \E u \in Task : status'[u] \in Error
  BY <1>4, Errors DEF TroubleIn
<1>9. phase # "over" /\ pc # "done"
  BY <1>2
<1>10. TypeOK'
  BY <1>2, <1>3, <1>4 DEF TypeOK
<1>11. ExecInv'
  BY <1>2 DEF ExecInv, InHarvest, InKill
<1>12. TaskInv' /\ EndInv'
  <2>1. TaskInv'
    BY <1>2, <1>3, <1>4, Tasks DEF TaskInv, TypeOK
  <2>2. s = "cancelled" => t \in asked
    BY <1>2
  <2>3. \A u \in asked' : status'[u] # "absent"
    BY <1>2, <1>4 DEF EndInv, TypeOK
  <2>4. \A u \in Task : status'[u] = "cancelled" => u \in asked'
    BY <2>2, <1>2, <1>4 DEF EndInv
  <2>5. \A u \in Waiters : status'[u] \notin Error /\ (status'[u] = "ok" => proc' = "known")
    BY <1>2, <1>4, Tasks, Errors DEF EndInv
  <2>6. status'[Closer] # "interrupt"
    BY <1>2, <1>4, Tasks DEF EndInv
  <2> QED BY <2>1, <2>3, <2>4, <2>5, <2>6 DEF EndInv
<1>13. CallInv'
  BY <1>2, <1>3, <1>4, <1>6 DEF CallInv, InHarvest, InKill
<1>14. PhaseInv'
  BY <1>2, <1>5, <1>6, <1>7, <1>9 DEF PhaseInv
<1>15. CountInv'
  BY <1>2, <1>3, <1>8, <1>9 DEF CountInv, Stopping, Quiet, StopsIn, TroubleIn, Delivered,
                                Base, InHarvest, InKill
<1>16. LeftInv'
  BY <1>2, <1>3, <1>4, <1>8 DEF LeftInv, Excuse, StopsIn, TroubleIn, Delivered
<1>17. TimerInv' /\ SigInv'
  BY <1>2, <1>3, <1>4, Tasks DEF TimerInv, SigInv, KillNeedsCancel
<1>18. ToldInv'
  BY <1>2, <1>3, <1>4, <1>9 DEF ToldInv, InKill, Reasoned, QuietClosing, StopsIn
<1>19. EndsWell'
  BY <1>2, <1>9 DEF EndsWell, NeverAbandoned, CancelOnceReaps, NoTaskLeft, StopTold, FailureTold
<1> QED BY <1>10, <1>11, <1>12, <1>13, <1>14, <1>15, <1>16, <1>17, <1>18, <1>19

----------------------------------------------------------------------------
(* The steps of a harvest.                                                 *)

\* What every step of a harvest leaves as it is.
LEMMA HarvestFrame ==
  ASSUME IInv, HarvestStep
  PROVE  /\ InHarvest /\ phase # "idle" /\ phase # "over"
         /\ UNCHANGED <<opt, pc, run, exec, proc, call, status, cancels>>
         /\ cancelReq' => cancelReq
         /\ asked \subseteq asked' /\ asked' \subseteq asked \cup H!Running(call.tasks)
         /\ phase' \in {"settle", "retry", "over"}
         /\ call.tasks \subseteq Task
<1> USE DEF IInv, HarvestStep, H!Resume, H!taskVars, H!history
<1>1. call.tasks \subseteq Task
  BY DEF TypeOK, HarvestCalls, Harvested
<1>2. phase \notin {"idle", "over"} /\ InHarvest
  BY DEF CallInv, H!CancelledInWait, H!WaitCompletes, H!WaitLeavesPending, H!CancelledInSettle,
         H!CancelledInRetry, H!Settled, H!SettleGivesUp
<1>3. CASE H!CancelledInWait
  BY <1>1, <1>2, <1>3 DEF H!CancelledInWait, H!Settle
<1>4. CASE H!WaitLeavesPending
  BY <1>1, <1>2, <1>4 DEF H!WaitLeavesPending, H!Settle
<1>5. CASE H!SettleGivesUp
  <2>1. settling \subseteq call.tasks
    BY DEF TypeOK
  <2> QED BY <2>1, <1>1, <1>2, <1>5 DEF H!SettleGivesUp, H!End, H!Running
<1>6. CASE H!WaitCompletes \/ H!CancelledInSettle \/ H!CancelledInRetry \/ H!Settled
  BY <1>1, <1>2, <1>6 DEF H!WaitCompletes, H!CancelledInSettle, H!CancelledInRetry, H!Settled,
                          H!End
<1> QED BY <1>3, <1>4, <1>5, <1>6

LEMMA HarvestFrameKeeps ==
  ASSUME IInv, HarvestStep
  PROVE  ExecInv' /\ TaskInv' /\ EndInv' /\ CallInv' /\ LeftInv' /\ TimerInv' /\ SigInv'
         /\ EndsWell'
<1> USE HarvestFrame DEF IInv
<1>1. ExecInv' /\ CallInv' /\ TimerInv' /\ SigInv'
  BY DEF ExecInv, CallInv, InHarvest, InKill, TimerInv, SigInv, KillNeedsCancel
<1>2. TaskInv'
  BY DEF TaskInv, InHarvest, InKill
<1>3. EndInv'
  BY DEF EndInv, H!Running
<1>4. LeftInv'
  BY DEF LeftInv, Excuse, TroubleIn, StopsIn, Delivered
<1>5. EndsWell'
  BY DEF EndsWell, NeverAbandoned, CancelOnceReaps, NoTaskLeft, StopTold, FailureTold,
         InHarvest, InKill
<1> QED BY <1>1, <1>2, <1>3, <1>4, <1>5

\* The call of harvest starts to end its tasks.
LEMMA SettleKeeps ==
  ASSUME IInv, HarvestStep, H!CancelledInWait \/ H!WaitLeavesPending
  PROVE  IInv'
<1> USE HarvestFrame DEF IInv
<1>1. /\ phase = "wait" /\ phase' = "settle" /\ expired' = FALSE /\ cancelReq' = FALSE
      /\ UNCHANGED <<outcome, left>>
      /\ why' \in {"failed", "timeout", "cancelled"}
      /\ why' = "cancelled" <=> cancelReq
      /\ (why' = "cancelled" /\ call.finish) \/ H!Running(call.tasks) \subseteq asked'
      /\ why' = "failed" => Failed # {}
      /\ why' = "timeout" => Failed = {} /\ expired /\ H!Running(call.tasks) # {}
      /\ settling' \subseteq call.tasks /\ H!Running(call.tasks) \subseteq settling'
  <2>1. CASE H!CancelledInWait
    BY <2>1 DEF H!CancelledInWait, H!Settle, H!Running
  <2>2. CASE H!WaitLeavesPending
    BY <2>2 DEF H!WaitLeavesPending, H!Settle, H!Running, H!WaitOver, Failed, H!FailedIn,
                TypeOK
  <2> QED BY <2>1, <2>2
<1>2. TypeOK'
  BY <1>1 DEF TypeOK, H!Reason, H!Running
<1>3. Failed' = Failed /\ H!Running(call.tasks)' = H!Running(call.tasks)
  BY DEF Failed, H!FailedIn, H!Running
<1>4. PhaseInv'
  <2>1. why' = "timeout" => call.timed /\ (pc = "closing" => Closer \in asked')
    BY <1>1 DEF PhaseInv, CallInv, H!Running
  <2>2. (pc = "closing" /\ why' = "cancelled") \/ H!Running(call.tasks) \subseteq asked'
    BY <1>1 DEF CallInv
  <2> QED BY <1>1, <1>3, <2>1, <2>2 DEF PhaseInv
<1>5. CountInv'
  BY <1>1, <1>3 DEF CountInv, TypeOK, Stopping, Quiet, StopsIn, TroubleIn, Delivered, Base,
                    InHarvest, InKill
<1>6. ToldInv'
  BY <1>1 DEF ToldInv, TypeOK, InKill, Reasoned, QuietClosing, StopsIn
<1> QED BY <1>2, <1>4, <1>5, <1>6, HarvestFrameKeeps

\* The harvest is cancelled while it ends its tasks, for the first time.
LEMMA RetryKeeps ==
  ASSUME IInv, HarvestStep, H!CancelledInSettle
  PROVE  IInv'
<1> USE HarvestFrame DEF IInv
<1>1. /\ phase = "settle" /\ phase' = "retry" /\ cancelReq /\ cancelReq' = FALSE
/\ expired' = FALSE
      /\ UNCHANGED <<why, settling, outcome, left, asked>>
  BY DEF H!CancelledInSettle, H!taskVars
<1>2. TypeOK'
  BY <1>1 DEF TypeOK
<1>3. Failed' = Failed /\ H!Running(call.tasks)' = H!Running(call.tasks)
  BY DEF Failed, H!FailedIn, H!Running
<1>4. PhaseInv'
  BY <1>1, <1>3 DEF PhaseInv
<1>5. CountInv'
  BY <1>1, <1>3 DEF CountInv, TypeOK, Stopping, Quiet, StopsIn, TroubleIn, Delivered, Base,
                    InHarvest, InKill
<1>6. ToldInv'
  BY <1>1 DEF ToldInv, TypeOK, InKill, Reasoned, QuietClosing, StopsIn
<1> QED BY <1>2, <1>4, <1>5, <1>6, HarvestFrameKeeps

\* The ways in which a harvest ends.
Concludes(how) ==
  /\ phase' = "over" /\ outcome' = H!HarvestEnd(how) /\ left' = H!Running(call.tasks)
  /\ UNCHANGED <<settling, expired>>
  /\ \/ /\ how = "completed" /\ phase = "wait" /\ why' = "completed"
        /\ cancelReq = FALSE /\ cancelReq' = FALSE
        /\ H!Running(call.tasks) = {} /\ asked' = asked
     \/ /\ how = "cancelled" /\ phase = "retry" /\ why' = why
        /\ cancelReq = TRUE /\ cancelReq' = FALSE /\ asked' = asked
     \/ /\ how = IF why = "failed" THEN "completed" ELSE why
        /\ phase \in {"settle", "retry"} /\ why' = why
        /\ cancelReq = FALSE /\ cancelReq' = FALSE
        /\ H!Running(call.tasks) = {} /\ asked' = asked
     \/ /\ how = "runtime" /\ phase \in {"settle", "retry"} /\ why' = why
        /\ cancelReq = FALSE /\ cancelReq' = FALSE
        /\ H!Running(call.tasks) # {} /\ expired

LEMMA Concluded ==
  ASSUME IInv, HarvestStep,
  H!WaitCompletes \/ H!CancelledInRetry \/ H!Settled \/ H!SettleGivesUp
  PROVE  \E how \in {"completed", "timeout", "cancelled", "runtime"} : Concludes(how)
<1> USE HarvestFrame DEF IInv
<1>1. /\ cancelReq \in BOOLEAN /\ settling \subseteq call.tasks
      /\ \A how : H!End(how) => /\ phase' = "over" /\ outcome' = H!HarvestEnd(how)
                                /\ left' = H!Running(call.tasks)
  BY DEF TypeOK, H!End, CallInv
<1>2. CASE H!WaitCompletes
  <2>1. Concludes("completed")
    BY <1>1, <1>2 DEF H!WaitCompletes, H!taskVars, Concludes
  <2> QED BY <2>1
<1>3. CASE H!CancelledInRetry
  <2>1. Concludes("cancelled")
    BY <1>1, <1>3 DEF H!CancelledInRetry, H!taskVars, Concludes
  <2> QED BY <2>1
<1>4. CASE H!Settled
  <2> DEFINE how == IF why = "failed" THEN "completed" ELSE why
  <2>1. how \in {"completed", "timeout", "cancelled", "runtime"} /\ H!Running(call.tasks) = {}
    BY <1>4 DEF PhaseInv, H!Settled, H!Running
  <2>2. H!End(how) /\ UNCHANGED <<why, settling, expired, asked, cancelReq>>
    BY <1>4 DEF H!Settled, H!taskVars
  <2>3. phase \in {"settle", "retry"} /\ cancelReq = FALSE
    BY <1>1, <1>4 DEF H!Settled
  <2>4. phase' = "over" /\ outcome' = H!HarvestEnd(how) /\ left' = H!Running(call.tasks)
    BY <1>1, <2>2
  <2>5. Concludes(how)
    BY <2>1, <2>2, <2>3, <2>4 DEF Concludes
  <2> QED BY <2>1, <2>5
<1>5. CASE H!SettleGivesUp
  <2>1. Concludes("runtime")
    BY <1>1, <1>5 DEF H!SettleGivesUp, H!SettleOver, H!Running, Concludes
  <2> QED BY <2>1
<1> QED BY <1>2, <1>3, <1>4, <1>5

LEMMA ConcludesKeeps ==
  ASSUME IInv, HarvestStep,
  H!WaitCompletes \/ H!CancelledInRetry \/ H!Settled \/ H!SettleGivesUp
  PROVE  IInv'
<1> USE HarvestFrame DEF IInv
<1>1. PICK how \in {"completed", "timeout", "cancelled", "runtime"} : Concludes(how)
  BY Concluded
<1>2. /\ outcome' \in [kind : H!Kind, task : Task \cup {0}]
      /\ how # "completed" => outcome'.kind = how
      /\ how = "completed" => IF Failed = {} THEN outcome'.kind = "return"
                              ELSE outcome'.kind = "raise" /\ outcome'.task \in Failed
  BY <1>1, HarvestEnds DEF Concludes
<1>3. Failed' = Failed /\ H!Running(call.tasks)' = H!Running(call.tasks)
  BY DEF Failed, H!FailedIn, H!Running
<1>4. phase' = "over" /\ cancelReq' = FALSE
  BY <1>1 DEF Concludes
<1>5. TypeOK'
  <2>1. asked' \subseteq Task
    BY DEF TypeOK, H!Running
  <2>2. left' \subseteq call'.tasks
    BY <1>1 DEF Concludes, H!Running
  <2>3. why' \in H!Reason /\ settling' \subseteq call'.tasks /\ expired' \in BOOLEAN
    BY <1>1 DEF Concludes, TypeOK, H!Reason
  <2> QED BY <1>2, <1>4, <2>1, <2>2, <2>3 DEF TypeOK
<1>6. Failed # {} => TroubleIn(run)
  BY DEF Failed, H!FailedIn, TroubleIn
<1>7. PhaseInv' /\ (outcome'.kind = "return" => phase = "wait" /\ cancelReq = FALSE)
  <2>1. CASE how = "completed" /\ phase = "wait"
    BY <2>1, <1>1, <1>2, <1>3, <1>4 DEF Concludes, PhaseInv
  <2>2. CASE how = "cancelled" \/ how = "timeout"
    BY <2>2, <1>1, <1>2, <1>3, <1>4 DEF Concludes, PhaseInv
  <2>3. CASE how = "completed" /\ phase # "wait"
    BY <2>3, <1>1, <1>2, <1>3, <1>4 DEF Concludes, PhaseInv
  <2>4. CASE how = "runtime"
    BY <2>4, <1>1, <1>2, <1>3, <1>4 DEF Concludes, PhaseInv
  <2> QED BY <2>1, <2>2, <2>3, <2>4
<1>8. CountInv'
  <2>1. TroubleIn(run)' <=> TroubleIn(run)
    BY DEF TroubleIn
  <2>2. StopsIn(run)' = StopsIn(run) /\ StopsIn(run) \in Nat /\ Base' = Base
    BY DEF TypeOK, StopsIn, Base, InKill
  <2>3. outcome'.kind = "cancelled" =>
          Delivered(run, FALSE, Base + (IF H!Running(call.tasks) = {} THEN 1 ELSE 2))
    BY <1>1, <1>2, <2>2 DEF Concludes, PhaseInv, CountInv, Delivered, Base
  <2>4. outcome'.kind = "runtime" /\ pc = "wait" => Delivered(run, FALSE, 1)
    <3> SUFFICES ASSUME outcome'.kind = "runtime", pc = "wait" PROVE Delivered(run, FALSE, 1)
      OBVIOUS
    <3>1. phase \in {"settle", "retry"} /\ cancelReq = FALSE /\ Base = 0
      BY <1>1, <1>2 DEF Concludes, Base, InKill
    <3>2. why \in {"failed", "cancelled"} /\ (why = "failed" => TroubleIn(run))
      BY <3>1, <1>6 DEF PhaseInv, CallInv, InHarvest
    <3>3. phase = "settle" => Delivered(run, cancelReq,
    Base + (IF why = "cancelled" THEN 1 ELSE 0))
      BY DEF CountInv
    <3>4. phase = "retry" => Delivered(run, cancelReq,
    Base + (IF why = "cancelled" THEN 2 ELSE 1))
      BY DEF CountInv
    <3> QED BY <3>1, <3>2, <3>3, <3>4, <2>2 DEF Delivered
  <2>5. Stopping' => StopsIn(run) >= 1
    BY <1>1, <1>2 DEF Concludes, PhaseInv, CountInv, Stopping
  <2>6. Quiet' => ~ (StopsIn(run) >= 1)
    BY <1>4, <1>7 DEF CountInv, Quiet, InHarvest, InKill
  <2>7. Delivered(run, FALSE, Base)
    <3>1. Delivered(run, cancelReq, Base) /\ Base \in Nat
      BY DEF CountInv, Base
    <3> QED BY <3>1, <2>2 DEF Delivered
  <2> QED BY <1>3, <1>4, <2>1, <2>2, <2>3, <2>4, <2>5, <2>6, <2>7
        DEF CountInv, Delivered, InHarvest, InKill
<1>9. ToldInv'
  <2>1. pc = "closing" /\ QuietClosing => QuietClosing'
    BY <1>1, <1>2, <1>4, <1>7 DEF Concludes, QuietClosing, StopsIn, TypeOK
  <2> QED BY <2>1 DEF ToldInv, InKill, Reasoned
<1> QED BY <1>5, <1>7, <1>8, <1>9, HarvestFrameKeeps

LEMMA HarvestStepKeeps == IInv /\ HarvestStep => IInv'
BY SettleKeeps, RetryKeeps, ConcludesKeeps DEF HarvestStep, H!Resume

----------------------------------------------------------------------------
(* The code between two awaits: what it is handed, with the fields r.      *)

Kept(r) ==
  /\ r \in Fields /\ r.tasks \subseteq Helper \cup {Waiter}
  /\ opt' = opt /\ exec' = exec /\ cancels' = cancels
  /\ proc' \in {proc, "known"} /\ (proc = "none" => proc' = "none")
  /\ exec \notin {"running", "cancelling"}
  /\ cancelReq' \in BOOLEAN /\ (cancelReq' => cancelReq)
  /\ r.cancelled \/ r.raise = "cancelled" \/ r.cause = "cancelled" => StopsIn(r) >= 1
  /\ cancelReq' => StopsIn(r) >= 1
  /\ "kill" \in r.sigs /\ ~opt.hard => "cancel" \in r.sigs \/ exec = "cancelled"
  /\ exec = "cancelled" => "kill" \in r.sigs /\ StopsIn(r) >= 2

Listed(r) == \A t \in r.tasks : status[t] # "absent"

\* The signal with which a process is asked to end.
AskSignal == IF opt.hard THEN "kill" ELSE "cancel"
Asked(r) == proc' = "known" \/ AskSignal \in r.sigs

Lingering == {t \in Task : status[t] = "running"}

\* The end of the run.
DonePre(r) ==
  /\ Kept(r) /\ Listed(r) /\ r.timer = FALSE
  /\ proc' = "alive" => "kill" \in r.sigs
  /\ \/ proc' \in {"none", "known"} \/ TroubleIn(r) \/ StopsIn(r) >= 2
     \/ r.exit \in {"runtime", "type_error"}
  /\ Lingering # {} => TroubleIn(r) \/ StopsIn(r) >= 2 \/ r.exit = "runtime"
  /\ r.exit = "normal" /\ ~cancelReq' =>
       /\ r.timedOut => opt.catch \/ r.ignore
       /\ cancels > 0 => r.cancelled \/ r.ignore \/ Closer \in asked
  /\ r.exit = "normal" /\ StopsIn(r) = 0 /\ ~r.ignore =>
       /\ r.cause = "none"
       /\ \A t \in Task \ asked : status[t] # "exc"

LEMMA DoneKeeps ==
  ASSUME IInv, NEW r, DonePre(r), Await("done", r)
  PROVE  IInv'
<1> USE DEF IInv, DonePre, Kept, Await, Idle, taskVars
<1>1. TypeOK'
  <2>1. call' \in HarvestCalls
    BY Tasks DEF HarvestCalls, Harvested
  <2>2. outcome' \in [kind : H!Kind, task : Task \cup {0}]
    BY DEF H!Kind, H!Ended
  <2> QED BY <2>1, <2>2 DEF TypeOK, H!Reason
<1>2. ExecInv' /\ TaskInv'
  BY Tasks DEF ExecInv, TaskInv, TypeOK, Listed, InHarvest, InKill
<1>3. EndInv' /\ CallInv' /\ PhaseInv'
  BY DEF EndInv, CallInv, PhaseInv, InHarvest, InKill
<1>4. CountInv'
  BY DEF CountInv, Stopping, Quiet, StopsIn, InHarvest, InKill
<1>5. LeftInv' /\ TimerInv' /\ SigInv' /\ ToldInv'
  BY DEF LeftInv, TimerInv, SigInv, KillNeedsCancel, ToldInv, InKill
<1>6. Stops' = StopsIn(r) /\ StopsIn(r) \in Nat /\ (TroubleIn(r) => Trouble')
  BY DEF Stops, StopsIn, TroubleIn, Trouble, TypeOK, Fields
<1>7. NeverAbandoned' /\ CancelOnceReaps' /\ NoTaskLeft'
  BY <1>6 DEF NeverAbandoned, CancelOnceReaps, NoTaskLeft, Lingering
<1>8. StopTold' /\ FailureTold'
  BY <1>6 DEF StopTold, FailureTold
<1> QED BY <1>1, <1>2, <1>3, <1>4, <1>5, <1>7, <1>8 DEF EndsWell

\* An __aenter__ that fails.
LeaveEnterPre(r) ==
  /\ Kept(r) /\ Listed(r) /\ r.raise # "none"
  /\ proc' = "alive" => "kill" \in r.sigs
  /\ \/ proc' \in {"none", "known"} \/ TroubleIn(r) \/ StopsIn(r) >= 2
     \/ r.raise = "runtime" /\ exec = "ok"
  /\ Lingering # {} => TroubleIn(r) \/ StopsIn(r) >= 2

LEMMA LeaveEnterKeeps ==
  ASSUME IInv, NEW r, LeaveEnterPre(r), LeaveEnter(r)
  PROVE  IInv'
<1> DEFINE exit == IF ~ (r.cancelled /\ opt.catch) THEN r.raise
                   ELSE IF exec # "ok" \/ proc' = "known" THEN "result_error"
                   ELSE "type_error"
           e == [r EXCEPT !.timer = FALSE, !.audit = "stopped", !.exit = exit]
<1>1. Await("done", e)
  BY DEF LeaveEnter
<1>2. exit \in {"exc", "interrupt", "cancelled", "runtime", "result_error", "type_error"}
  BY DEF LeaveEnterPre, Kept, Fields
<1>3. r.raise = "runtime" /\ exec = "ok" =>
        proc' = "known" \/ exit \in {"runtime", "type_error"}
  OBVIOUS
<1> HIDE DEF exit
<1>4. /\ e \in Fields /\ e.timer = FALSE /\ e.exit = exit
      /\ e.tasks = r.tasks /\ e.sigs = r.sigs /\ e.timedOut = r.timedOut
      /\ e.cancelled = r.cancelled /\ e.raise = r.raise /\ e.cause = r.cause
  BY <1>2 DEF LeaveEnterPre, Kept, Fields
<1> HIDE DEF e
<1>5. DonePre(e)
  BY <1>2, <1>3, <1>4 DEF LeaveEnterPre, Kept, DonePre, Listed, StopsIn, TroubleIn
<1> QED BY <1>1, <1>5, DoneKeeps

\* The end of __aexit__.
Told(r) ==
  \/ r.cancelled \/ r.ignore \/ r.raise # "none" \/ r.cause = "exc" \/ cancelReq'
  \/ ~r.timedOut /\ (cancels > 0 => Closer \in asked)
FailureIn(r) ==
  StopsIn(r) = 0 /\ ~r.ignore =>
    \/ r.raise # "none" \/ r.cause = "exc"
    \/ r.cause = "none" /\ \A t \in Task \ asked : status[t] # "exc"
ExitPre(r) ==
  /\ Kept(r) /\ Listed(r)
  /\ proc' = "alive" => "kill" \in r.sigs
  /\ \/ proc' \in {"none", "known"} \/ TroubleIn(r) \/ StopsIn(r) >= 2
     \/ r.raise = "runtime"
  /\ Lingering # {} => TroubleIn(r) \/ StopsIn(r) >= 2 \/ r.raise = "runtime"
  /\ Told(r) /\ FailureIn(r)

LEMMA ExitKeeps ==
  ASSUME IInv, NEW r, ExitPre(r), Exit(r)
  PROVE  IInv'
<1> DEFINE suppress == r.origin = "finish" /\ r.raise = "none" /\ r.cancelled
           cancelled == r.cancelled \/ r.raise = "cancelled"
           exit == IF r.raise \notin {"none", "cancelled"} THEN r.raise
                   ELSE IF cancelled /\ r.timedOut /\ ~opt.catch THEN "timeout"
                   ELSE IF suppress \/ r.cause = "none" THEN "normal"
                   ELSE r.cause
           e == [r EXCEPT !.timer = FALSE, !.audit = "stopped", !.cancelled = cancelled,
                          !.exit = exit]
<1>1. Await("done", e)
  BY DEF Exit
<1>2. /\ cancelled \in BOOLEAN
      /\ exit \in {"normal", "exc", "interrupt", "cancelled", "runtime", "timeout"}
  BY DEF ExitPre, Kept, Fields
<1>3. r.raise = "runtime" => exit = "runtime"
  OBVIOUS
<1>4. exit = "normal" /\ ~cancelReq' =>
        /\ r.timedOut => opt.catch \/ r.ignore
        /\ cancels > 0 => cancelled \/ r.ignore \/ Closer \in asked
  BY DEF ExitPre, Told, Kept, Fields
<1>5. exit = "normal" /\ StopsIn(r) = 0 /\ ~r.ignore =>
        /\ r.cause = "none"
        /\ \A t \in Task \ asked : status[t] # "exc"
  BY DEF ExitPre, FailureIn, Kept, Fields
<1>6. cancelled => StopsIn(r) >= 1
  BY DEF ExitPre, Kept
<1> HIDE DEF exit, cancelled
<1>7. /\ e \in Fields /\ e.timer = FALSE /\ e.exit = exit
      /\ e.tasks = r.tasks /\ e.sigs = r.sigs /\ e.timedOut = r.timedOut
      /\ e.cancelled = cancelled /\ e.raise = r.raise /\ e.cause = r.cause
      /\ e.ignore = r.ignore
  BY <1>2 DEF ExitPre, Kept, Fields
<1> HIDE DEF e
<1>8. StopsIn(e) = StopsIn(r) /\ (TroubleIn(e) <=> TroubleIn(r))
  BY <1>7 DEF StopsIn, TroubleIn
<1>9. Kept(e) /\ Listed(e)
  BY <1>6, <1>7, <1>8 DEF ExitPre, Kept, Listed
<1>10. DonePre(e)
  BY <1>3, <1>4, <1>5, <1>7, <1>8, <1>9 DEF ExitPre, DonePre
<1> QED BY <1>1, <1>10, DoneKeeps

\* The await of a harvest.
BaseAt(at, r) ==
  IF at \in {"killtasks", "killproc", "reap"} \/ (at = "closing" /\ r.raise # "none") THEN 1
  ELSE 0
AwaitPre(at, r, S) ==
  /\ Kept(r) /\ exec = "ok" /\ S # {} /\ S \subseteq Task /\ asked \cap S = {}
  /\ \A t \in r.tasks : t \in S \/ status[t] # "absent"
  /\ Delivered(r, cancelReq', BaseAt(at, r))
  /\ at = "wait" =>
       /\ r.tasks = opt.io \cup {Waiter} /\ S = r.tasks
       /\ \A t \in Task : status[t] # "absent" <=> t \in r.tasks
       /\ StopsIn(r) >= 1 => cancelReq'
  /\ at = "killtasks" => S = r.tasks
  /\ at = "killproc" => S = {KillWaiter}
  /\ at = "reap" => S = {ReapWaiter}
  /\ at = "closing" => S = {Closer}
  /\ status[KillWaiter] # "absent" => at \in {"killproc", "reap", "closing"}
  /\ status[ReapWaiter] # "absent" => at \in {"reap", "closing"}
  /\ status[Closer] = "absent"

\* What holds in it, but for what depends on where the harvest is awaited.
LEMMA AwaitKeeps ==
  ASSUME IInv, NEW at \in {"wait", "killtasks", "killproc", "reap", "closing"}, NEW r, NEW S,
         NEW timed, NEW finish, timed = (at # "wait"), finish = (at = "closing"),
         AwaitPre(at, r, S), Harvest(at, r, S, timed, finish)
  PROVE  /\ TypeOK' /\ ExecInv' /\ TaskInv' /\ EndInv' /\ CallInv' /\ PhaseInv' /\ CountInv'
         /\ EndsWell' /\ KillNeedsCancel'
         /\ TroubleIn(run)' <=> TroubleIn(r)
         /\ StopsIn(run)' = StopsIn(r)
         /\ \A t \in Task : status'[t] = "running" => t \in S \/ t \in Lingering
         /\ \A t \in Task \ S : status[t] # "absent" => status'[t] = status[t]
         /\ \A t \in S : status[t] = "running" => status'[t] = "running"
<1> USE DEF IInv, AwaitPre, Harvest, Kept
<1>1. r.tasks \subseteq Task
  BY Tasks
<1>2. /\ \A t \in Task : status[t] # "absent" => status'[t] = status[t]
      /\ \A t \in S \cup r.tasks : status'[t] # "absent"
      /\ \A t \in S : status[t] = "absent" => status'[t] = "running"
      /\ \A t \in Task \ S : status'[t] = status[t]
      /\ \A t \in Task : status'[t] # status[t] =>
           status[t] = "absent" /\ status'[t] = "running" /\ t \in S
  BY <1>1
<1>3. status' \in [Task -> {"absent"} \cup H!Status]
  BY DEF TypeOK, H!Status
<1>4. TypeOK'
  <2>1. call' \in HarvestCalls
    BY DEF HarvestCalls, Harvested
  <2>2. outcome' \in [kind : H!Kind, task : Task \cup {0}]
    BY DEF H!Kind, H!Ended
  <2> QED BY <1>3, <2>1, <2>2 DEF TypeOK, H!Reason
<1>5. ExecInv' /\ EndsWell'
  BY DEF ExecInv, TypeOK, InHarvest, InKill, EndsWell, NeverAbandoned, CancelOnceReaps,
         NoTaskLeft,
         StopTold, FailureTold
<1>6. TaskInv'
  BY <1>1, <1>2, Tasks DEF TaskInv
<1>7. EndInv'
  BY <1>2, Tasks, Errors DEF EndInv, TypeOK
<1>8. CallInv'
  BY <1>2 DEF CallInv, InHarvest, InKill
<1>9. PhaseInv'
  BY DEF PhaseInv
<1>10. TroubleIn(run)' <=> TroubleIn(r)
  BY <1>2, Errors DEF TroubleIn
<1>11. StopsIn(run)' = StopsIn(r) /\ Base' = BaseAt(at, r)
  BY DEF StopsIn, Base, BaseAt, InKill
<1>12. CountInv'
  <2>1. Delivered(run, cancelReq, Base)'
    BY <1>10, <1>11 DEF Delivered
  <2>2. Stopping' => StopsIn(r) >= 1
    BY DEF Stopping
  <2>3. Quiet' => at = "wait"
    BY DEF Quiet
  <2> QED BY <1>11, <2>1, <2>2, <2>3 DEF CountInv, InHarvest, InKill
<1>13. KillNeedsCancel'
  BY DEF KillNeedsCancel
<1> QED BY <1>2, <1>4, <1>5, <1>6, <1>7, <1>8, <1>9, <1>10, <1>11, <1>12, <1>13 DEF Lingering

\* _close: the run has a reason to end, or it ended by itself.
Unprompted(r) ==
  /\ r.cause = "none" /\ r.raise = "none"
  /\ \A t \in Task : status[t] \notin {"exc", "running"}
  /\ StopsIn(r) >= 1 => cancelReq'
ClosePre(r) ==
  /\ Kept(r) /\ Listed(r) /\ exec = "ok" /\ r.timer = FALSE
  /\ \/ proc' = "known"
     \/ /\ r.raise \in {"runtime", "cancelled"} /\ "kill" \in r.sigs
        /\ r.raise = "cancelled" => TroubleIn(r) \/ StopsIn(r) >= 2
  /\ Reasoned(r) \/ Unprompted(r)
  /\ r.raise # "none" => Delivered(r, cancelReq', 1)
  /\ Lingering # {} => Excuse(r, cancelReq')
  /\ status[Closer] = "absent"

LEMMA CloseKeeps ==
  ASSUME IInv, NEW r, ClosePre(r), r.origin # "start", Close(r)
  PROVE  IInv'
<1> USE DEF ClosePre
<1>1. Told(r) /\ FailureIn(r)
  <2>1. StopsIn(r) \in Nat /\ (r.timedOut \/ cancels > 0 => StopsIn(r) >= 1)
    BY DEF IInv, TypeOK, StopsIn
  <2>2. CASE Reasoned(r)
    BY <2>1, <2>2 DEF Reasoned, Told, FailureIn, Kept
  <2>3. CASE Unprompted(r)
    BY <2>1, <2>3 DEF Unprompted, Told, FailureIn
  <2> QED BY <2>2, <2>3
<1>2. CASE proc' # "known"
  <2> DEFINE e == IF proc' = "alive" THEN Signal(r, "kill") ELSE r
  <2>1. e = r
    BY <1>2 DEF Signal, Kept, Fields
  <2>2. Exit(r)
    BY <1>2, <2>1 DEF Close
  <2>3. ExitPre(r)
    BY <1>1, <1>2 DEF ExitPre, Excuse
  <2> QED BY <2>2, <2>3, ExitKeeps
<1>3. CASE proc' = "known" /\ ~opt.stdin
  <2>1. Exit(r)
    BY <1>3 DEF Close
  <2>2. ExitPre(r)
    BY <1>1, <1>3 DEF ExitPre, Excuse
  <2> QED BY <2>1, <2>2, ExitKeeps
<1>4. CASE proc' = "known" /\ opt.stdin
  <2>1. Harvest("closing", r, {Closer}, TRUE, TRUE)
    BY <1>4 DEF Close
  <2>2. asked \cap {Closer} = {} /\ Closer \in Task
    BY Tasks DEF IInv, EndInv
  <2>3. AwaitPre("closing", r, {Closer})
    <3>1. StopsIn(r) \in Nat
      BY DEF IInv, TypeOK, StopsIn
    <3>2. Delivered(r, cancelReq', BaseAt("closing", r))
      BY <3>1 DEF Delivered, BaseAt, Kept
    <3> QED BY <2>2, <3>2 DEF AwaitPre, Listed
  <2>4. /\ TypeOK' /\ ExecInv' /\ TaskInv' /\ EndInv' /\ CallInv' /\ PhaseInv' /\ CountInv'
        /\ EndsWell' /\ KillNeedsCancel'
        /\ TroubleIn(run)' <=> TroubleIn(r)
        /\ StopsIn(run)' = StopsIn(r)
        /\ \A t \in Task : status'[t] = "running" => t \in {Closer} \/ t \in Lingering
        /\ \A t \in Task \ {Closer} : status[t] # "absent" => status'[t] = status[t]
    BY <2>1, <2>3, AwaitKeeps
  <2>5. pc' = "closing" /\ run' = r /\ phase' = "wait" /\ call'.tasks = {Closer}
    BY <2>1 DEF Harvest
  <2>6. LeftInv'
    BY <2>4, <2>5 DEF LeftInv, Excuse, Delivered
  <2>7. TimerInv' /\ SigInv'
    BY <1>4, <2>4, <2>5 DEF TimerInv, SigInv, ExecInv
  <2>8. ToldInv'
    <3>1. Unprompted(r) => QuietClosing'
      BY <2>1, <2>4, <2>5, Tasks DEF Unprompted, QuietClosing, Harvest, Lingering, IInv, TypeOK
    <3> QED BY <2>5, <3>1 DEF ToldInv, InKill, Reasoned
  <2> QED BY <2>4, <2>6, <2>7, <2>8 DEF IInv
<1> QED BY <1>2, <1>3, <1>4

\* _kill is left.
KilledPre(r) ==
  /\ ClosePre(r)
  /\ r.origin = "start" => r.raise # "none"

LEMMA KilledKeeps ==
  ASSUME IInv, NEW r, KilledPre(r), Killed(r)
  PROVE  IInv'
<1>1. CASE r.origin = "start"
  BY <1>1, LeaveEnterKeeps DEF KilledPre, ClosePre, Killed, LeaveEnterPre, Excuse
<1>2. CASE r.origin # "start"
  BY <1>2, CloseKeeps DEF KilledPre, Killed
<1> QED BY <1>1, <1>2

\* _kill_wait, and _kill from the moment when the tasks are dealt with.
KillPre(r) ==
  /\ Kept(r) /\ exec = "ok"
  /\ Asked(r) /\ Reasoned(r) /\ Delivered(r, cancelReq', 1)
  /\ r.origin = "start" => r.raise # "none"
  /\ status[ReapWaiter] = "absent" /\ status[Closer] = "absent"
KillWaitPre(r) ==
  /\ KillPre(r) /\ Listed(r) /\ r.timer = FALSE
  /\ Lingering # {} => Excuse(r, cancelReq')

LEMMA KnownKeeps ==
  ASSUME IInv, NEW r, KillWaitPre(r), proc' = "known", Killed(r)
  PROVE  IInv'
BY KilledKeeps DEF KillWaitPre, KillPre, KilledPre, ClosePre

\* A harvest of _kill, apart from its own conditions.
LEMMA KillAwaitKeeps ==
  ASSUME IInv, NEW at \in {"killtasks", "killproc", "reap"}, NEW r, NEW S,
         KillPre(r), AwaitPre(at, r, S), Harvest(at, r, S, TRUE, FALSE),
         \A t \in Lingering : t \in S \/ Excuse(r, cancelReq'),
         r.timer => /\ at = "killtasks" /\ Waiter \in r.tasks /\ status[Waiter] = "running"
                    /\ ~r.cancelled /\ ~r.timedOut,
         at = "killtasks" /\ r.origin = "start" => r.cause = "exc",
         at = "reap" => "kill" \in r.sigs
  PROVE  IInv'
<1>1. /\ TypeOK' /\ ExecInv' /\ TaskInv' /\ EndInv' /\ CallInv' /\ PhaseInv' /\ CountInv'
      /\ EndsWell' /\ KillNeedsCancel'
      /\ TroubleIn(run)' <=> TroubleIn(r)
      /\ StopsIn(run)' = StopsIn(r)
      /\ \A t \in Task : status'[t] = "running" => t \in S \/ t \in Lingering
      /\ \A t \in S : status[t] = "running" => status'[t] = "running"
  <2>1. at \in {"wait", "killtasks", "killproc", "reap", "closing"}
    OBVIOUS
  <2>2. TRUE = (at # "wait") /\ FALSE = (at = "closing")
    OBVIOUS
  <2> DEFINE timed == TRUE
             finish == FALSE
  <2>3. timed = (at # "wait") /\ finish = (at = "closing") /\ Harvest(at, r, S, timed, finish)
    BY <2>2
  <2> HIDE DEF timed, finish
  <2> QED BY <2>1, <2>3, AwaitKeeps
<1>2. pc' = at /\ run' = r /\ phase' = "wait" /\ call'.tasks = S
  BY DEF Harvest
<1>3. LeftInv'
  BY <1>1, <1>2 DEF LeftInv, Excuse, Delivered
<1>4. TimerInv'
  BY <1>2, <1>1 DEF TimerInv, AwaitPre
<1>5. SigInv'
  BY <1>1, <1>2 DEF SigInv, KillPre, Asked, AskSignal, Kept
<1>6. ToldInv'
  BY <1>2 DEF ToldInv, InKill, Reasoned, KillPre
<1> QED BY <1>1, <1>3, <1>4, <1>5, <1>6 DEF IInv

LEMMA KillWaitKeeps ==
  ASSUME IInv, NEW r, KillWaitPre(r), KillWait(r)
  PROVE  IInv'
<1> USE DEF KillWaitPre
<1>1. CASE proc' = "known"
  BY <1>1, KnownKeeps DEF KillWait
<1>2. CASE proc' # "known"
  <2> DEFINE e == Signal(r, "kill")
  <2>1. Harvest("reap", e, {ReapWaiter}, TRUE, FALSE)
    BY <1>2 DEF KillWait
  <2>2. /\ e \in Fields /\ e.timer = r.timer /\ e.sigs = r.sigs \cup {"kill"}
        /\ e.tasks = r.tasks /\ e.timedOut = r.timedOut /\ e.origin = r.origin
        /\ e.cancelled = r.cancelled /\ e.raise = r.raise /\ e.cause = r.cause
        /\ e.ignore = r.ignore
    BY DEF Signal, KillPre, Kept, Fields
  <2> HIDE DEF e
  <2>3. StopsIn(e) = StopsIn(r) /\ (TroubleIn(e) <=> TroubleIn(r))
    BY <2>2 DEF StopsIn, TroubleIn
  <2>4. Kept(e) /\ Listed(e)
    BY <1>2, <2>2, <2>3 DEF KillPre, Kept, Listed, Asked, AskSignal
  <2>5. Delivered(e, cancelReq', 1) /\ (Excuse(r, cancelReq') => Excuse(e, cancelReq'))
    BY <2>2, <2>3 DEF KillPre, Delivered, Excuse
  <2>6. KillPre(e)
    BY <2>2, <2>4, <2>5 DEF KillPre, Asked, Reasoned
  <2>7. asked \cap {ReapWaiter} = {} /\ {ReapWaiter} \subseteq Task
    BY Tasks DEF KillPre, IInv, EndInv
  <2>8. AwaitPre("reap", e, {ReapWaiter})
    BY <2>4, <2>5, <2>6, <2>7 DEF AwaitPre, KillPre, BaseAt, Listed
  <2>9. \A t \in Lingering : t \in {ReapWaiter} \/ Excuse(e, cancelReq')
    BY <2>5
  <2>10. ~ e.timer /\ "kill" \in e.sigs
    BY <2>2
  <2> QED BY <2>1, <2>6, <2>8, <2>9, <2>10, KillAwaitKeeps
<1> QED BY <1>1, <1>2

LEMMA KillProcKeeps ==
  ASSUME IInv, NEW r, KillWaitPre(r), status[KillWaiter] = "absent", KillProc(r)
  PROVE  IInv'
<1> USE DEF KillWaitPre
<1>1. CASE proc' = "known"
  BY <1>1, KnownKeeps DEF KillProc
<1>2. CASE proc' # "known"
  <2>1. Harvest("killproc", r, {KillWaiter}, TRUE, FALSE)
    BY <1>2 DEF KillProc
  <2>2. asked \cap {KillWaiter} = {} /\ {KillWaiter} \subseteq Task
    BY Tasks DEF IInv, EndInv
  <2>3. AwaitPre("killproc", r, {KillWaiter})
    BY <2>2 DEF AwaitPre, KillPre, BaseAt, Listed
  <2> QED BY <2>1, <2>3, KillAwaitKeeps
<1> QED BY <1>1, <1>2

\* _kill, with tasks that it finds, or that were created but not started.
KillEntry(r) ==
  /\ Kept(r) /\ exec = "ok"
  /\ Reasoned(r) /\ Delivered(r, cancelReq', 1)
  /\ r.origin = "start" => r.raise # "none"
  /\ r.origin = "start" /\ r.tasks # {} => r.cause = "exc"
  /\ \A t \in {KillWaiter, ReapWaiter, Closer} : status[t] = "absent"
  /\ asked \cap r.tasks = {}
  /\ \A t \in Lingering : t \in r.tasks \/ Excuse(r, cancelReq')
  /\ r.timer => /\ Waiter \in r.tasks /\ status[Waiter] = "running"
                /\ ~r.cancelled /\ ~r.timedOut

LEMMA KillKeeps ==
  ASSUME IInv, NEW r, KillEntry(r), Kill(r)
  PROVE  IInv'
<1> USE DEF KillEntry
<1> DEFINE k == IF proc' = "known" THEN r ELSE Signal(r, IF opt.hard THEN "kill" ELSE "cancel")
<1>1. IF k.tasks # {} THEN Harvest("killtasks", k, k.tasks, TRUE, FALSE) ELSE KillProc(k)
  BY DEF Kill
<1>2. /\ k \in Fields /\ k.timer = r.timer /\ r.sigs \subseteq k.sigs
      /\ k.sigs = r.sigs \/ k.sigs = r.sigs \cup {AskSignal}
      /\ proc' = "known" \/ AskSignal \in k.sigs
      /\ k.tasks = r.tasks /\ k.timedOut = r.timedOut /\ k.origin = r.origin
      /\ k.cancelled = r.cancelled /\ k.raise = r.raise /\ k.cause = r.cause
      /\ k.ignore = r.ignore
  BY DEF Signal, Kept, Fields, AskSignal
<1> HIDE DEF k
<1>3. StopsIn(k) = StopsIn(r) /\ (TroubleIn(k) <=> TroubleIn(r))
  BY <1>2 DEF StopsIn, TroubleIn
<1>4. Kept(k)
  BY <1>2, <1>3 DEF Kept, AskSignal
<1>5. Delivered(k, cancelReq', 1) /\ (Excuse(r, cancelReq') => Excuse(k, cancelReq'))
  BY <1>2, <1>3 DEF Delivered, Excuse
<1>6. KillPre(k)
  BY <1>2, <1>4, <1>5 DEF KillPre, Asked, Reasoned
<1>7. CASE k.tasks # {}
  <2>1. k.tasks \subseteq Task
    BY <1>4, Tasks DEF Kept
  <2>2. AwaitPre("killtasks", k, k.tasks)
    BY <1>2, <1>4, <1>5, <1>7, <2>1 DEF AwaitPre, BaseAt
  <2>3. \A t \in Lingering : t \in k.tasks \/ Excuse(k, cancelReq')
    BY <1>2, <1>5
  <2> QED BY <1>1, <1>2, <1>6, <1>7, <2>2, <2>3, KillAwaitKeeps
<1>8. CASE k.tasks = {}
  <2>1. Listed(k) /\ k.timer = FALSE
    BY <1>2, <1>8 DEF Listed, Kept, Fields
  <2>2. KillWaitPre(k)
    BY <1>2, <1>5, <1>6, <1>8, <2>1 DEF KillWaitPre
  <2> QED BY <1>1, <1>8, <2>2, KillProcKeeps
<1> QED BY <1>7, <1>8

----------------------------------------------------------------------------
(* The start of a run.                                                     *)

\* The fields during _start: nothing has ended the run yet.
StartFields(r) ==
  /\ r \in Fields /\ r.tasks \subseteq Helper
  /\ ~r.timer /\ r.timedOut = run.timedOut
  /\ ~r.cancelled /\ ~r.ignore

StartFrame ==
  /\ pc \in {"new", "yield", "spawn", "respawn"}
  /\ exec \notin {"running", "cancelling"}
  /\ opt' = opt /\ exec' = exec /\ proc' = proc /\ cancels' = cancels
  /\ cancelReq' \in BOOLEAN /\ (cancelReq' => cancelReq)

LEMMA StartFailsKeeps ==
  ASSUME IInv, NEW r, NEW ex \in {"exc", "cancelled"}, StartFrame, StartFields(r),
         r.sigs = run.sigs, StartFails(r, ex),
         exec # "ok" => r.tasks = {},
         ex = "cancelled" => r.tasks = {} /\ StopsIn(run) >= 1 /\ ~cancelReq'
  PROVE  IInv'
<1> USE DEF StartFrame
<1> DEFINE f == [(IF ex = "cancelled" THEN Cancelled(r) ELSE r) EXCEPT
                   !.cause = ex, !.raise = ex, !.origin = "start"]
<1>1. IF exec = "ok" THEN Kill(f) ELSE LeaveEnter(f)
  BY DEF StartFails
<1>2. /\ f \in Fields /\ f.timer = FALSE /\ f.timedOut = run.timedOut /\ f.sigs = run.sigs
      /\ f.tasks = r.tasks /\ f.cause = ex /\ f.raise = ex /\ f.origin = "start"
      /\ f.cancelled => ex = "cancelled"
  BY DEF Cancelled, StartFields, Fields
<1> HIDE DEF f
<1>3. /\ \A t \in Task : status[t] = "absent"
      /\ asked = {} /\ Lingering = {}
  <2>1. \A t \in Task : status[t] = "absent"
    BY DEF IInv, TaskInv
  <2> QED BY <2>1 DEF IInv, EndInv, TypeOK, Lingering
<1>4. /\ StopsIn(f) = StopsIn(run) /\ (cancelReq' => StopsIn(f) >= 1)
      /\ StopsIn(f) \in Nat
  BY <1>2 DEF StopsIn, IInv, CountInv, TypeOK
<1>5. Kept(f)
  <2>1. /\ "kill" \in f.sigs /\ ~opt.hard => "cancel" \in f.sigs \/ exec = "cancelled"
        /\ exec = "cancelled" => "kill" \in f.sigs /\ StopsIn(f) >= 2
    BY <1>2, <1>4 DEF IInv, SigInv, KillNeedsCancel, CountInv
  <2>2. proc' \in {proc, "known"} /\ (proc = "none" => proc' = "none")
    OBVIOUS
  <2>3. f.cancelled \/ f.raise = "cancelled" \/ f.cause = "cancelled" => StopsIn(f) >= 1
    BY <1>2, <1>4
  <2> QED BY <1>2, <1>4, <2>1, <2>2, <2>3 DEF Kept, StartFields
<1>6. CASE exec # "ok"
  <2>1. proc' = "none" \/ exec = "cancelled"
    BY <1>6 DEF IInv, ExecInv, TypeOK
  <2>2. LeaveEnterPre(f)
    BY <1>2, <1>3, <1>5, <1>6, <2>1 DEF LeaveEnterPre, Listed, Kept
  <2> QED BY <1>1, <1>6, <2>2, LeaveEnterKeeps
<1>7. CASE exec = "ok"
  <2>1. exec = "ok"
    BY <1>7
  <2>2. Reasoned(f) /\ Delivered(f, cancelReq', 1)
    BY <1>2, <1>4 DEF Reasoned, Delivered, TroubleIn
  <2>3. \A t \in {KillWaiter, ReapWaiter, Closer} : status[t] = "absent"
    BY <1>3, Tasks
  <2>4. KillEntry(f)
    BY <1>2, <1>3, <1>5, <2>1, <2>2, <2>3 DEF KillEntry
  <2> QED BY <1>1, <1>7, <2>4, KillKeeps
<1> QED BY <1>6, <1>7

\* The next await of _start that is not a harvest.
LEMMA StartAwaitKeeps ==
  ASSUME IInv, NEW at \in {"yield", "spawn", "respawn"}, NEW r, Await(at, r), StartFields(r),
         r.tasks = {}, r.raise = "none", r.cause = "none", r.origin = "start",
         pc \in {"new", "yield", "spawn", "respawn"},
         opt' = opt, cancels' = cancels,
         \/ /\ {exec, exec'} \subseteq {"none", "running"} /\ proc' = "none"
            /\ r.sigs = run.sigs
         \/ /\ exec' \in {"cancelling", "cancelled"} /\ at = "respawn"
            /\ proc' \in {"alive", "dead", "known"} /\ "kill" \in r.sigs
            /\ StopsIn(run) >= 2,
         at = "yield" => exec' = "none",
         at = "spawn" => exec' = "running",
         at = "respawn" => exec' # "none" /\ StopsIn(run) >= 1 /\ ~cancelReq',
         cancelReq' \in BOOLEAN, cancelReq' => cancelReq,
         at # "respawn" => cancelReq' = cancelReq /\ pc # "respawn"
  PROVE  IInv'
<1> USE DEF IInv, Await, Idle, taskVars, StartFields
<1>1. TypeOK'
  <2>1. call' \in HarvestCalls
    BY Tasks DEF HarvestCalls, Harvested
  <2>2. outcome' \in [kind : H!Kind, task : Task \cup {0}]
    BY DEF H!Kind, H!Ended
  <2> QED BY <2>1, <2>2 DEF TypeOK, H!Reason
<1>2. ExecInv' /\ TaskInv'
  BY Tasks DEF ExecInv, TaskInv, InHarvest, InKill
<1>3. EndInv' /\ CallInv' /\ PhaseInv'
  BY Tasks DEF TaskInv, EndInv, CallInv, PhaseInv, InHarvest, InKill
<1>4. StopsIn(run)' = StopsIn(run) /\ StopsIn(run) \in Nat
  BY DEF StopsIn, TypeOK
<1>5. CountInv'
  BY <1>4 DEF CountInv, Stopping, Quiet, InHarvest, InKill, Delivered
<1>6. LeftInv' /\ TimerInv' /\ SigInv' /\ ToldInv'
  BY DEF LeftInv, TaskInv, TimerInv, SigInv, KillNeedsCancel, ToldInv, InKill
<1>7. EndsWell'
  BY DEF EndsWell, NeverAbandoned, CancelOnceReaps, NoTaskLeft, StopTold, FailureTold
<1> QED BY <1>1, <1>2, <1>3, <1>5, <1>6, <1>7

\* In _start, run.tasks is still empty and nothing has ended the run.
LEMMA StartFacts ==
  ASSUME IInv, pc \in {"new", "yield", "spawn", "respawn"}
  PROVE  /\ StartFields(run) /\ run.tasks = {} /\ run.raise = "none" /\ run.cause = "none"
         /\ run.origin = "start" /\ cancelReq \in BOOLEAN
         /\ cancelReq \/ pc = "respawn" => StopsIn(run) >= 1
         /\ cancelReq /\ pc = "respawn" => StopsIn(run) >= 2
<1>1. \A t \in Task : status[t] = "absent"
  BY DEF IInv, TaskInv
<1>2. ~ TroubleIn(run)
  BY <1>1, Errors DEF TroubleIn, IInv, ToldInv
<1> QED BY <1>2 DEF IInv, TypeOK, TaskInv, TimerInv, ToldInv, CountInv, StartFields, Delivered,
                    StopsIn

LEMMA EnterKeeps == IInv /\ Enter => IInv'
<1> SUFFICES ASSUME IInv, Enter PROVE IInv'
  OBVIOUS
<1> DEFINE r == [run EXCEPT !.audit = "started"]
<1>1. /\ pc = "new" /\ exec = "none" /\ proc = "none"
      /\ UNCHANGED <<proc, opt, exec, cancelReq, cancels>>
  BY DEF Enter, IInv, ExecInv
<1>2. Await("yield", r) \/ StartFails(r, "exc")
  BY DEF Enter
<1>3. StartFields(r) /\ r.tasks = {} /\ r.raise = "none" /\ r.cause = "none"
/\ r.origin = "start" /\ r.sigs = run.sigs
  BY <1>1, StartFacts DEF StartFields, Fields
<1>4. StartFrame
  BY <1>1, StartFacts DEF StartFrame
<1> HIDE DEF r
<1>5. CASE Await("yield", r)
  BY <1>1, <1>3, <1>5, StartFacts, StartAwaitKeeps
<1>6. CASE StartFails(r, "exc")
  BY <1>3, <1>4, <1>6, StartFailsKeeps
<1> QED BY <1>2, <1>5, <1>6

LEMMA LaunchKeeps == IInv /\ Launch => IInv'
<1> SUFFICES ASSUME IInv, Launch PROVE IInv'
  OBVIOUS
<1>1. /\ pc = "yield" /\ exec = "none" /\ exec' = "running" /\ Await("spawn", run)
      /\ proc = "none"
      /\ UNCHANGED <<proc, opt, cancelReq, cancels>>
  BY DEF Launch, IInv, ExecInv
<1> QED BY <1>1, StartFacts, StartAwaitKeeps

LEMMA LaunchCancelledKeeps ==
  IInv /\ (CancelledBeforeLaunch \/ CancelledInSpawn \/ CancelledInRespawn) => IInv'
<1> SUFFICES ASSUME IInv, CancelledBeforeLaunch \/ CancelledInSpawn \/ CancelledInRespawn
             PROVE  IInv'
  OBVIOUS
<1>1. /\ pc \in {"yield", "spawn", "respawn"} /\ cancelReq /\ cancelReq' = FALSE
      /\ UNCHANGED <<opt, cancels>>
  BY DEF CancelledBeforeLaunch, CancelledInSpawn, CancelledInRespawn
<1>2. /\ StartFields(run) /\ run.tasks = {} /\ run.raise = "none" /\ run.cause = "none"
      /\ run.origin = "start" /\ StopsIn(run) >= 1
      /\ pc = "respawn" => StopsIn(run) >= 2
  BY <1>1, StartFacts
<1>3. \/ /\ exec \in {"none", "ok", "failed", "cancelled"} /\ UNCHANGED <<proc, exec>>
         /\ \E ex \in {"exc", "cancelled"} : StartFails(run, ex)
      \/ exec = "running" /\ UNCHANGED <<proc, exec>> /\ Await("respawn", run)
      \/ /\ pc = "respawn" /\ exec = "running" /\ exec' = "cancelling" /\ proc' = "alive"
         /\ Await("respawn", Signal(run, "kill"))
      \/ /\ pc = "respawn" /\ exec = "cancelling" /\ exec' = "cancelled" /\ proc' = proc
         /\ Await("respawn", run)
  BY <1>1 DEF CancelledBeforeLaunch, CancelledInSpawn, CancelledInRespawn, IInv, ExecInv
<1>4. CASE /\ exec \in {"none", "ok", "failed", "cancelled"} /\ UNCHANGED <<proc, exec>>
           /\ \E ex \in {"exc", "cancelled"} : StartFails(run, ex)
  <2>1. StartFrame
    BY <1>1, <1>4 DEF StartFrame
  <2> QED BY <1>1, <1>2, <1>4, <2>1, StartFailsKeeps
<1>5. CASE exec = "running" /\ UNCHANGED <<proc, exec>> /\ Await("respawn", run)
  <2>1. proc' = "none"
    BY <1>5 DEF IInv, ExecInv
  <2> QED BY <1>1, <1>2, <1>5, <2>1, StartAwaitKeeps
<1>6. CASE /\ pc = "respawn" /\ exec = "running" /\ exec' = "cancelling" /\ proc' = "alive"
           /\ Await("respawn", Signal(run, "kill"))
  <2> DEFINE r == Signal(run, "kill")
  <2>1. /\ StartFields(r) /\ r.tasks = {} /\ r.raise = "none" /\ r.cause = "none"
        /\ r.origin = "start" /\ "kill" \in r.sigs /\ Await("respawn", r)
    BY <1>2, <1>6 DEF StartFields, Fields, Signal
  <2> HIDE DEF r
  <2> QED BY <1>1, <1>2, <1>6, <2>1, StartAwaitKeeps
<1>7. CASE /\ pc = "respawn" /\ exec = "cancelling" /\ exec' = "cancelled" /\ proc' = proc
           /\ Await("respawn", run)
  <2>1. "kill" \in run.sigs /\ proc' \in {"alive", "dead", "known"}
    BY <1>7 DEF IInv, SigInv, ExecInv, TypeOK
  <2> QED BY <1>1, <1>2, <1>7, <2>1, StartAwaitKeeps
<1> QED BY <1>3, <1>4, <1>5, <1>6, <1>7

LEMMA LaunchFailsKeeps == IInv /\ (Respawned \/ SpawnFails) => IInv'
<1> SUFFICES ASSUME IInv, Respawned \/ SpawnFails PROVE IInv'
  OBVIOUS
<1>1. /\ pc \in {"spawn", "respawn"} /\ ~cancelReq /\ exec \in {"ok", "failed", "cancelled"}
      /\ UNCHANGED <<proc, opt, exec, cancels, cancelReq>>
  BY DEF Respawned, SpawnFails
<1>2. /\ StartFields(run) /\ run.tasks = {} /\ (pc = "respawn" => StopsIn(run) >= 1)
      /\ StartFrame
  BY <1>1, StartFacts DEF StartFrame
<1>3. CASE Respawned
  <2>1. PICK ex \in {"exc", "cancelled"} : StartFails(run, ex)
    BY <1>3 DEF Respawned
  <2>2. pc = "respawn"
    BY <1>3 DEF Respawned
  <2> QED BY <1>1, <1>2, <2>1, <2>2, StartFailsKeeps
<1>4. CASE SpawnFails /\ StartFails(run, "exc")
  BY <1>1, <1>2, <1>4, StartFailsKeeps
<1>5. CASE SpawnFails /\ exec = "ok"
/\ \E S \in SUBSET opt.io : StartFails([run EXCEPT !.tasks = S], "exc")
  <2>1. PICK S \in SUBSET opt.io : StartFails([run EXCEPT !.tasks = S], "exc")
    BY <1>5
  <2> DEFINE r == [run EXCEPT !.tasks = S]
  <2>2. S \subseteq Helper
    BY <2>1, OptionsAssumption DEF IInv, TypeOK, Option
  <2>3. StartFields(r) /\ r.sigs = run.sigs /\ StartFails(r, "exc")
    BY <1>2, <2>1, <2>2, Tasks DEF StartFields, Fields
  <2> HIDE DEF r
  <2> QED BY <1>2, <1>5, <2>3, StartFailsKeeps
<1> QED BY <1>3, <1>4, <1>5 DEF SpawnFails

----------------------------------------------------------------------------
(* The body.                                                               *)

\* The tasks are created and the timer is armed.
LEMMA StartedKeeps == IInv /\ Started => IInv'
<1> SUFFICES ASSUME IInv, Started PROVE IInv'
  OBVIOUS
<1> USE DEF IInv, Started, harvestVars
<1>1. opt.io \subseteq Helper /\ opt.timeout \in BOOLEAN
  BY OptionsAssumption DEF TypeOK, Option
<1>2. /\ run \in Fields /\ run' \in Fields
      /\ run'.tasks = opt.io \cup {Waiter} /\ run'.timedOut = run.timedOut
      /\ run'.cancelled = run.cancelled /\ run'.ignore = run.ignore /\ run'.sigs = run.sigs
      /\ run'.origin = run.origin /\ run'.cause = run.cause /\ run'.raise = run.raise
      /\ run'.exit = run.exit /\ run'.timer = opt.timeout
  BY <1>1, Tasks DEF TypeOK, Fields
<1>3. /\ status' \in [Task -> {"absent"} \cup H!Status]
      /\ \A t \in Task : status[t] = "absent"
      /\ \A t \in run'.tasks : status'[t] = "running"
      /\ \A t \in Task \ run'.tasks : status'[t] = "absent"
      /\ run'.tasks \subseteq Task
  BY <1>1, <1>2, Tasks DEF TypeOK, TaskInv, H!Status
<1>4. asked = {}
  BY <1>3 DEF EndInv, TypeOK
<1>5. TypeOK'
  BY <1>2, <1>3 DEF TypeOK
<1>6. ExecInv'
  BY DEF ExecInv, InHarvest, InKill
<1>7. TaskInv' /\ EndInv'
  BY <1>1, <1>2, <1>3, <1>4, Tasks, Errors DEF TaskInv, EndInv
<1>8. CallInv' /\ PhaseInv'
  BY DEF CallInv, PhaseInv, InHarvest, InKill
<1>9. CountInv'
  BY <1>2 DEF CountInv, CallInv, Stopping, Quiet, StopsIn, InHarvest, InKill
<1>10. LeftInv' /\ SigInv' /\ ToldInv' /\ EndsWell'
  BY <1>2 DEF LeftInv, SigInv, KillNeedsCancel, ToldInv, InKill, EndsWell, NeverAbandoned,
              CancelOnceReaps, NoTaskLeft, StopTold, FailureTold
<1>11. TimerInv'
  <2>1. ~ run.timedOut
    BY DEF CountInv, Quiet, StopsIn, TypeOK
  <2>2. ~ run.cancelled
    BY DEF ToldInv
  <2> QED BY <1>2, <1>3, <2>1, <2>2 DEF TimerInv
<1> QED BY <1>5, <1>6, <1>7, <1>8, <1>9, <1>10, <1>11

\* The body calls run.cancel().
LEMMA BodySignalsKeeps == IInv /\ BodySignals => IInv'
<1> SUFFICES ASSUME IInv, BodySignals PROVE IInv'
  OBVIOUS
<1> USE DEF IInv, BodySignals, harvestVars, taskVars
<1>1. /\ run \in Fields /\ run' \in Fields
      /\ run'.tasks = run.tasks /\ run'.timedOut = run.timedOut
      /\ run'.cancelled = run.cancelled /\ run'.ignore = run.ignore
      /\ run'.sigs = run.sigs \/ run'.sigs = run.sigs \cup {AskSignal}
      /\ run'.origin = run.origin /\ run'.cause = run.cause /\ run'.raise = run.raise
      /\ run'.exit = run.exit /\ run'.timer = run.timer
  BY DEF TypeOK, Fields, Signal, AskSignal
<1>2. TypeOK'
  BY <1>1 DEF TypeOK
<1>3. ExecInv' /\ TaskInv' /\ EndInv' /\ CallInv' /\ PhaseInv'
  BY <1>1 DEF ExecInv, TaskInv, EndInv, CallInv, PhaseInv, InHarvest, InKill
<1>4. CountInv' /\ LeftInv'
  BY <1>1 DEF CountInv, CallInv, Stopping, Quiet, StopsIn, InHarvest, InKill, LeftInv
<1>5. TimerInv' /\ ToldInv' /\ EndsWell'
  BY <1>1 DEF TimerInv, ToldInv, InKill, EndsWell, NeverAbandoned, CancelOnceReaps, NoTaskLeft,
              StopTold, FailureTold
<1>6. SigInv'
  BY <1>1 DEF SigInv, KillNeedsCancel, AskSignal
<1> QED BY <1>2, <1>3, <1>4, <1>5, <1>6

\* The fields in the body and in _wait.
LEMMA BodyFacts ==
  ASSUME IInv, pc \in {"body", "wait"}
  PROVE  /\ run \in Fields /\ run.tasks = opt.io \cup {Waiter} /\ exec = "ok"
         /\ run.tasks \subseteq Helper \cup {Waiter} /\ run.tasks \subseteq Task
         /\ \A t \in Task : status[t] # "absent" <=> t \in run.tasks
         /\ \A t \in {KillWaiter, ReapWaiter, Closer} : status[t] = "absent"
         /\ ~run.cancelled /\ ~run.ignore /\ run.raise = "none" /\ run.cause = "none"
         /\ cancelReq \in BOOLEAN /\ (cancelReq => StopsIn(run) >= 1) /\ StopsIn(run) \in Nat
         /\ "kill" \in run.sigs /\ ~opt.hard => "cancel" \in run.sigs
<1>1. run.tasks \subseteq Helper \cup {Waiter} /\ run.tasks \subseteq Task
  BY Tasks DEF IInv, TaskInv
<1>2. \A t \in {KillWaiter, ReapWaiter, Closer} : status[t] = "absent"
  BY DEF IInv, TaskInv
<1>3. StopsIn(run) \in Nat /\ (cancelReq => StopsIn(run) >= 1)
  BY DEF IInv, TypeOK, StopsIn, CountInv
<1>4. /\ run \in Fields /\ cancelReq \in BOOLEAN /\ exec = "ok"
      /\ "kill" \in run.sigs /\ ~opt.hard => "cancel" \in run.sigs
  BY DEF IInv, TypeOK, ExecInv, InHarvest, SigInv, KillNeedsCancel
<1>5. /\ run.tasks = opt.io \cup {Waiter}
      /\ \A t \in Task : status[t] # "absent" <=> t \in run.tasks
      /\ ~run.cancelled /\ ~run.ignore /\ run.raise = "none" /\ run.cause = "none"
  BY DEF IInv, TaskInv, ToldInv
<1> QED BY <1>1, <1>2, <1>3, <1>4, <1>5

LEMMA BodyEndsKeeps == IInv /\ BodyEnds => IInv'
<1> SUFFICES ASSUME IInv, BodyEnds PROVE IInv'
  OBVIOUS
<1> DEFINE r == [run EXCEPT !.origin = "wait"]
<1>1. /\ pc = "body" /\ UNCHANGED <<proc, opt, exec, cancelReq, cancels>>
      /\ Harvest("wait", r, run.tasks, FALSE, FALSE)
  BY DEF BodyEnds
<1>2. /\ r \in Fields /\ r.timer = run.timer /\ r.timedOut = run.timedOut /\ r.sigs = run.sigs
      /\ r.tasks = run.tasks /\ r.cause = run.cause /\ r.raise = run.raise /\ r.origin = "wait"
      /\ r.cancelled = run.cancelled /\ r.ignore = run.ignore
  BY <1>1, BodyFacts DEF Fields
<1> HIDE DEF r
<1>3. StopsIn(r) = StopsIn(run)
  BY <1>2 DEF StopsIn
<1>4. Kept(r)
  BY <1>1, <1>2, <1>3, BodyFacts DEF Kept
<1>5. asked = {} /\ (StopsIn(run) >= 1 => cancelReq)
  BY <1>1 DEF IInv, TaskInv, CountInv, Quiet
<1>6. Delivered(r, cancelReq', BaseAt("wait", r))
  BY <1>1, <1>3, BodyFacts DEF Delivered, BaseAt
<1>7. AwaitPre("wait", r, run.tasks)
  BY <1>1, <1>2, <1>3, <1>4, <1>5, <1>6, BodyFacts DEF AwaitPre
<1>8. /\ TypeOK' /\ ExecInv' /\ TaskInv' /\ EndInv' /\ CallInv' /\ PhaseInv' /\ CountInv'
      /\ EndsWell' /\ KillNeedsCancel'
      /\ \A t \in Task : status'[t] = "running" => t \in run.tasks \/ t \in Lingering
      /\ \A t \in run.tasks : status[t] = "running" => status'[t] = "running"
  <2>1. "wait" \in {"wait", "killtasks", "killproc", "reap", "closing"}
    OBVIOUS
  <2> DEFINE timed == FALSE
             finish == FALSE
             S == run.tasks
  <2>2. timed = ("wait" # "wait") /\ finish = ("wait" = "closing")
    OBVIOUS
  <2>3. Harvest("wait", r, S, timed, finish) /\ AwaitPre("wait", r, S)
    BY <1>1, <1>7
  <2> HIDE DEF timed, finish, S
  <2>4. /\ TypeOK' /\ ExecInv' /\ TaskInv' /\ EndInv' /\ CallInv' /\ PhaseInv' /\ CountInv'
        /\ EndsWell' /\ KillNeedsCancel'
        /\ \A t \in Task : status'[t] = "running" => t \in S \/ t \in Lingering
        /\ \A t \in S : status[t] = "running" => status'[t] = "running"
    BY <2>1, <2>2, <2>3, AwaitKeeps
  <2> QED BY <2>4 DEF S
<1>9. pc' = "wait" /\ run' = r /\ phase' = "wait" /\ call'.tasks = run.tasks
  BY <1>1 DEF Harvest
<1>10. LeftInv'
  BY <1>1, <1>8, <1>9, BodyFacts DEF LeftInv, Lingering
<1>11. TimerInv' /\ SigInv' /\ ToldInv'
  BY <1>1, <1>2, <1>8, <1>9, BodyFacts DEF IInv, TimerInv, SigInv, ToldInv, InKill
<1> QED BY <1>8, <1>10, <1>11 DEF IInv

LEMMA BodyStopsKeeps == IInv /\ (BodyRaises \/ BodyCancelled) => IInv'
<1> SUFFICES ASSUME IInv, BodyRaises \/ BodyCancelled PROVE IInv'
  OBVIOUS
<1>1. pc = "body" /\ UNCHANGED <<proc, opt, exec, cancels>>
  BY DEF BodyRaises, BodyCancelled
<1>2. /\ asked = {}
      /\ run.timer => Waiter \in run.tasks /\ status[Waiter] = "running" /\ ~run.timedOut
      /\ \A t \in Lingering : t \in run.tasks
  BY <1>1, BodyFacts DEF IInv, TaskInv, TimerInv, Lingering
<1>3. CASE BodyRaises
  <2> DEFINE r == [run EXCEPT !.origin = "finish", !.cause = "exc"]
  <2>1. Kill(r) /\ cancelReq' = cancelReq
    BY <1>3 DEF BodyRaises
  <2>2. /\ r \in Fields /\ r.timer = run.timer /\ r.timedOut = run.timedOut /\ r.sigs = run.sigs
        /\ r.tasks = run.tasks /\ r.cause = "exc" /\ r.raise = run.raise /\ r.origin = "finish"
        /\ r.cancelled = run.cancelled /\ r.ignore = run.ignore
    BY <1>1, BodyFacts DEF Fields
  <2> HIDE DEF r
  <2>3. StopsIn(r) = StopsIn(run)
    BY <2>2 DEF StopsIn
  <2>4. Kept(r)
    BY <1>1, <2>1, <2>2, <2>3, BodyFacts DEF Kept
  <2>5. KillEntry(r)
    BY <1>1, <1>2, <2>2, <2>4, BodyFacts DEF KillEntry, Reasoned, Delivered, TroubleIn
  <2> QED BY <2>1, <2>5, KillKeeps
<1>4. CASE BodyCancelled
  <2> DEFINE r == [Cancelled(run) EXCEPT !.origin = "finish", !.cause = "cancelled"]
  <2>1. Kill(r) /\ cancelReq /\ cancelReq' = FALSE
    BY <1>4 DEF BodyCancelled
  <2>2. /\ r \in Fields /\ r.timer = FALSE /\ r.timedOut = run.timedOut /\ r.sigs = run.sigs
        /\ r.tasks = run.tasks /\ r.cause = "cancelled" /\ r.raise = run.raise
        /\ r.origin = "finish" /\ r.cancelled = TRUE /\ r.ignore = run.ignore
    BY <1>1, BodyFacts DEF Fields, Cancelled
  <2> HIDE DEF r
  <2>3. StopsIn(r) = StopsIn(run) /\ StopsIn(r) >= 1
    BY <1>1, <2>1, <2>2, BodyFacts DEF StopsIn
  <2>4. Kept(r)
    BY <1>1, <2>1, <2>2, <2>3, BodyFacts DEF Kept
  <2>5. KillEntry(r)
    BY <1>1, <1>2, <2>1, <2>2, <2>3, <2>4, BodyFacts DEF KillEntry, Reasoned, Delivered
  <2> QED BY <2>1, <2>5, KillKeeps
<1> QED BY <1>3, <1>4

----------------------------------------------------------------------------
(* The end of a harvest.                                                   *)

\* What the main task learns from a harvest that is over.
LEMMA OverFacts ==
  ASSUME IInv, phase = "over"
  PROVE  /\ Thrown \in {"return", "exc", "interrupt", "timeout", "cancelled", "runtime"}
         /\ Thrown \in {"return", "timeout", "cancelled", "runtime"} => outcome.kind = Thrown
         /\ Thrown \in Error => TroubleIn(run)
         /\ Thrown \notin {"cancelled", "runtime"} => H!Running(call.tasks) = {}
         /\ Thrown = "return" => Failed = {} /\ asked \cap call.tasks = {}
         /\ call.tasks \subseteq Task /\ InHarvest
<1>1. call.tasks \subseteq Task /\ InHarvest
  BY DEF IInv, TypeOK, HarvestCalls, Harvested, CallInv
<1>2. CASE outcome.kind = "raise"
  <2>1. outcome.task \in Task /\ status[outcome.task] \in Error /\ H!Running(call.tasks) = {}
    BY <1>1, <1>2 DEF IInv, PhaseInv, Failed, H!FailedIn
  <2>2. Thrown \in Error /\ Thrown \in {"exc", "interrupt"}
    BY <1>2, <2>1 DEF Thrown, Error
  <2> QED BY <1>1, <2>1, <2>2 DEF TroubleIn
<1>3. CASE outcome.kind # "raise"
  <2>1. Thrown = outcome.kind /\ Thrown \in {"return", "timeout", "cancelled", "runtime"}
    BY <1>3 DEF IInv, PhaseInv, Thrown
  <2>2. Thrown \notin Error
    BY <2>1 DEF Error
  <2> QED BY <1>1, <2>1, <2>2 DEF IInv, PhaseInv
<1> QED BY <1>2, <1>3

\* A waiter of which the harvest learns that it ended by itself means that the
\* process is known to be gone.
LEMMA WaiterTells ==
  ASSUME IInv, phase = "over", Thrown = "return", NEW t \in Waiters, t \in call.tasks
  PROVE  proc = "known"
<1>1. t \in Task /\ status[t] \notin {"absent", "running"} \cup Error /\ t \notin asked
  BY OverFacts, Tasks DEF IInv, CallInv, Failed, H!FailedIn, H!Running
<1>2. status[t] = "ok"
  BY <1>1 DEF IInv, TypeOK, EndInv, H!Status, H!Finished
<1> QED BY <1>2 DEF IInv, EndInv

\* The frame of the actions that end a harvest.
EndFrame ==
  /\ opt' = opt /\ exec' = exec /\ cancelReq' = cancelReq /\ cancels' = cancels
  /\ proc' = proc \/ (proc = "dead" /\ proc' = "known")

\* A harvest that is over leaves the timer armed only with its waiter running.
LEMMA OverTimer ==
  ASSUME IInv, phase = "over", Thrown # "cancelled"
  PROVE  ~run.timer
<1>1. CASE Thrown # "runtime"
  <2>1. H!Running(call.tasks) = {}
    BY <1>1, OverFacts
  <2> QED BY <2>1, Tasks, OverFacts DEF IInv, TimerInv, CallInv, InHarvest, InKill, H!Running
<1>2. CASE Thrown = "runtime" /\ pc # "closing"
  <2>1. H!Running(call.tasks) \subseteq Helper
    BY <1>2, OverFacts DEF IInv, PhaseInv
  <2> QED BY <2>1, Tasks, OverFacts DEF IInv, TimerInv, CallInv, InHarvest, InKill, H!Running
<1>3. CASE pc = "closing"
  BY <1>3 DEF IInv, TimerInv
<1> QED BY <1>1, <1>2, <1>3

\* How many stops it took for a harvest to be left with CancelledError.
LEMMA OverCount ==
  ASSUME IInv, phase = "over", EndFrame
  PROVE  /\ StopsIn(run) \in Nat /\ (cancelReq' => StopsIn(run) >= 1)
         /\ cancelReq' \in BOOLEAN /\ exec = "ok" /\ Base \in {0, 1}
         /\ Delivered(run, cancelReq', Base)
         /\ Thrown = "cancelled" => /\ StopsIn(run) >= 1
                                    /\ Delivered(run, cancelReq', Base + 1)
                                    /\ H!Running(call.tasks) # {} =>
                                         TroubleIn(run) \/ StopsIn(run) >= Base + 2
         /\ Thrown = "runtime" /\ pc = "wait" => Delivered(run, cancelReq', 1)
<1> USE DEF EndFrame
<1>1. /\ StopsIn(run) \in Nat /\ (cancelReq' => StopsIn(run) >= 1)
      /\ cancelReq' \in BOOLEAN /\ exec = "ok" /\ Base \in {0, 1}
  BY OverFacts DEF IInv, TypeOK, StopsIn, CountInv, ExecInv, Base
<1>2. Delivered(run, cancelReq', Base)
  BY OverFacts DEF IInv, CountInv
<1>3. Thrown = "cancelled" =>
        /\ StopsIn(run) >= 1
        /\ Delivered(run, cancelReq', Base + (IF H!Running(call.tasks) = {} THEN 1 ELSE 2))
  BY OverFacts DEF IInv, CountInv, Stopping
<1>4. Thrown = "runtime" /\ pc = "wait" => Delivered(run, cancelReq', 1)
  BY OverFacts DEF IInv, CountInv
<1> QED BY <1>1, <1>2, <1>3, <1>4 DEF Delivered

LEMMA WaitEndsKeeps == IInv /\ WaitEnds => IInv'
<1> SUFFICES ASSUME IInv, WaitEnds PROVE IInv'
  OBVIOUS
<1>1. pc = "wait" /\ phase = "over" /\ EndFrame /\ proc' = proc /\ run.origin = "wait"
/\ Base = 0
  BY DEF WaitEnds, Over, EndFrame, IInv, ToldInv, Base, InKill
<1>2. /\ Lingering \subseteq call.tasks /\ call.tasks = run.tasks
      /\ Lingering # {} => H!Running(call.tasks) # {}
  BY <1>1, BodyFacts DEF Lingering, IInv, CallInv, InHarvest, H!Running
<1>3. CASE Thrown = "return" /\ Close(run)
  <2>1. proc = "known"
    BY <1>1, <1>2, <1>3, WaiterTells, BodyFacts DEF Waiters
  <2>2. ~run.timer
    BY <1>1, <1>3, OverTimer
  <2>3. StopsIn(run) >= 1 => cancelReq'
    BY <1>1, <1>3, OverFacts DEF IInv, CountInv, Quiet, EndFrame
  <2>4. \A t \in Task : status[t] \notin {"exc", "running"}
    BY <1>1, <1>2, <1>3, BodyFacts, OverFacts DEF Lingering, Failed, H!FailedIn, Error
  <2>5. Unprompted(run)
    BY <1>1, <2>3, <2>4, BodyFacts DEF Unprompted
  <2>6. Kept(run) /\ Listed(run)
    BY <1>1, BodyFacts DEF Kept, EndFrame, Listed
  <2>7. Lingering = {}
    BY <2>4 DEF Lingering
  <2>8. ClosePre(run)
    BY <1>1, <2>1, <2>2, <2>5, <2>6, <2>7, BodyFacts DEF ClosePre, Kept, Fields
  <2> QED BY <1>1, <1>3, <2>8, CloseKeeps
<1>4. CASE Thrown = "cancelled" /\ Kill([Cancelled(run) EXCEPT !.tasks = {}])
  <2> DEFINE r == [Cancelled(run) EXCEPT !.tasks = {}]
  <2>1. /\ r \in Fields /\ r.timer = FALSE /\ r.timedOut = run.timedOut /\ r.sigs = run.sigs
        /\ r.tasks = {} /\ r.cause = run.cause /\ r.raise = run.raise
        /\ r.origin = run.origin /\ r.cancelled = TRUE /\ r.ignore = run.ignore
    BY <1>1, BodyFacts DEF Fields, Cancelled
  <2>2. Kill(r)
    BY <1>4
  <2> HIDE DEF r
  <2>3. StopsIn(r) = StopsIn(run) /\ (TroubleIn(r) <=> TroubleIn(run))
    BY <2>1 DEF StopsIn, TroubleIn
  <2>4. Kept(r)
    BY <1>1, <1>4, <2>1, <2>3, BodyFacts, OverCount DEF Kept, EndFrame
  <2>5. Reasoned(r) /\ Delivered(r, cancelReq', 1)
    BY <1>1, <1>4, <2>1, <2>3, OverCount DEF Reasoned, Delivered
  <2>6. Lingering # {} => Excuse(r, cancelReq')
    BY <1>1, <1>2, <1>4, <2>3, OverCount DEF Excuse
  <2>7. KillEntry(r)
    BY <1>1, <2>1, <2>4, <2>5, <2>6, BodyFacts DEF KillEntry
  <2> QED BY <2>2, <2>7, KillKeeps
<1>5. CASE Thrown \in Error \cup {"runtime"} /\
           \/ Thrown = "interrupt" /\ Kill([run EXCEPT !.tasks = {}, !.ignore = TRUE])
           \/ Thrown \in {"exc", "runtime"} /\ Kill([run EXCEPT !.tasks = {}, !.raise = Thrown])
  <2> DEFINE r == IF Thrown = "interrupt" THEN [run EXCEPT !.tasks = {}, !.ignore = TRUE]
                  ELSE [run EXCEPT !.tasks = {}, !.raise = Thrown]
  <2>1. /\ r \in Fields /\ r.timer = run.timer /\ r.timedOut = run.timedOut /\ r.sigs = run.sigs
        /\ r.tasks = {} /\ r.cause = run.cause
        /\ r.raise = IF Thrown = "interrupt" THEN "none" ELSE Thrown
        /\ r.origin = run.origin /\ r.cancelled = run.cancelled
        /\ r.ignore = (Thrown = "interrupt")
    BY <1>1, <1>5, BodyFacts DEF Fields, Error
  <2>2. Kill(r)
    BY <1>5
  <2> HIDE DEF r
  <2>3. StopsIn(r) = StopsIn(run) /\ (TroubleIn(r) <=> TroubleIn(run))
    BY <2>1 DEF StopsIn, TroubleIn
  <2>4. Kept(r)
    BY <1>1, <1>5, <2>1, <2>3, BodyFacts DEF Kept, EndFrame, Error
  <2>5. Reasoned(r)
    BY <1>5, <2>1 DEF Reasoned, Error
  <2>6. TroubleIn(r) \/ Thrown = "runtime"
    BY <1>1, <1>5, <2>3, OverFacts
  <2>7. Delivered(r, cancelReq', 1)
    BY <1>1, <2>3, <2>6, OverCount DEF Delivered
  <2>8. Excuse(r, cancelReq')
    BY <1>1, <2>1, <2>6, <2>7 DEF Excuse
  <2>9. ~r.timer
    BY <1>1, <1>5, <2>1, OverTimer DEF Error
  <2>10. KillEntry(r)
    BY <1>1, <2>1, <2>4, <2>5, <2>7, <2>8, <2>9, BodyFacts, OverCount DEF KillEntry
  <2> QED BY <2>2, <2>10, KillKeeps
<1> QED BY <1>3, <1>4, <1>5 DEF WaitEnds, Error

\* What _kill has when one of its harvests is over.
LEMMA KillFacts ==
  ASSUME IInv, InKill, phase = "over", EndFrame
  PROVE  /\ Kept(run) /\ Listed(run) /\ exec = "ok" /\ status[Closer] = "absent"
         /\ Reasoned(run) /\ Delivered(run, cancelReq', 1) /\ Base = 1
         /\ run.origin = "start" => run.raise # "none"
         /\ proc # "none" /\ proc' # "none"
<1>1. proc # "none" /\ exec = "ok"
  BY OverCount DEF IInv, ExecInv
<1>2. Base = 1
  BY DEF Base
<1>3. run \in Fields /\ run.tasks \subseteq Helper \cup {Waiter} /\ Listed(run)
  BY DEF IInv, TypeOK, TaskInv, Listed
<1>4. /\ run.cancelled \/ run.raise = "cancelled" \/ run.cause = "cancelled"
           => StopsIn(run) >= 1
      /\ "kill" \in run.sigs /\ ~opt.hard => "cancel" \in run.sigs
  BY <1>1 DEF IInv, CountInv, Stopping, SigInv, KillNeedsCancel
<1>5. Kept(run)
  BY <1>1, <1>3, <1>4, OverCount DEF Kept, EndFrame
<1>6. status[Closer] = "absent"
  BY DEF IInv, TaskInv, InKill
<1>7. Reasoned(run) /\ (run.origin = "start" => run.raise # "none")
  BY DEF IInv, ToldInv
<1> QED BY <1>1, <1>2, <1>3, <1>5, <1>6, <1>7, OverCount DEF EndFrame

\* Who still runs when a harvest of _kill is over has an excuse.
LEMMA KillExcuse ==
  ASSUME IInv, InKill, phase = "over", EndFrame, Lingering # {}
  PROVE  \/ Excuse(run, cancelReq')
         \/ Thrown = "cancelled" /\ (TroubleIn(run) \/ StopsIn(run) >= 3)
         \/ Thrown = "runtime" /\ pc = "killtasks"
<1>1. PICK t \in Task : status[t] = "running"
  BY DEF Lingering
<1>2. t \in call.tasks \/ Excuse(run, cancelReq')
  BY <1>1 DEF IInv, LeftInv, InKill, EndFrame
<1>3. CASE t \in call.tasks
  <2>1. t \in H!Running(call.tasks)
    BY <1>1, <1>3 DEF H!Running
  <2>2. Thrown \in {"cancelled", "runtime"}
    BY <2>1, OverFacts
  <2>3. Thrown = "cancelled" => TroubleIn(run) \/ StopsIn(run) >= 3
    BY <2>1, OverCount, KillFacts
  <2>4. Thrown = "runtime" => pc = "killtasks"
    <3>1. Thrown = "runtime" => t \in Helper
      BY <2>1, OverFacts DEF IInv, PhaseInv, InKill
    <3> QED BY <1>3, <3>1, Tasks DEF IInv, CallInv, InHarvest, InKill, Waiters
  <2> QED BY <2>2, <2>3, <2>4
<1> QED BY <1>2, <1>3

LEMMA KillEndsKeeps == IInv /\ KillEnds => IInv'
<1> SUFFICES ASSUME IInv, KillEnds PROVE IInv'
  OBVIOUS
<1>1. pc \in {"killtasks", "killproc"} /\ phase = "over" /\ EndFrame /\ proc' = proc /\ InKill
  BY DEF KillEnds, Over, EndFrame, InKill
<1>2. KillPre(run)
  BY <1>1, KillFacts DEF KillPre, Asked, AskSignal, IInv, SigInv, TaskInv
<1>3. CASE Thrown = "return" /\ pc = "killtasks" /\ KillProc(run)
  <2>1. status[KillWaiter] = "absent"
    BY <1>3 DEF IInv, TaskInv
  <2>2. run.timer = FALSE
    BY <1>1, <1>2, <1>3, OverTimer DEF KillPre, Kept, Fields
  <2>3. KillWaitPre(run)
    BY <1>1, <1>2, <1>3, <2>2, KillFacts, KillExcuse DEF KillWaitPre
  <2> QED BY <1>3, <2>1, <2>3, KillProcKeeps
<1>4. CASE Thrown = "return" /\ pc = "killproc" /\ Killed(run)
  <2>1. proc = "known"
    <3>1. call.tasks = {KillWaiter}
      BY <1>4 DEF IInv, CallInv, InHarvest, InKill
    <3> QED BY <1>1, <1>4, <3>1, Tasks, WaiterTells
  <2>2. run.timer = FALSE
    BY <1>1, <1>2, <1>4, OverTimer DEF KillPre, Kept, Fields
  <2>3. KillWaitPre(run)
    BY <1>1, <1>2, <1>4, <2>2, KillFacts, KillExcuse DEF KillWaitPre
  <2> QED BY <1>1, <1>4, <2>1, <2>3, KnownKeeps
<1>5. CASE Thrown = "cancelled" /\ KillWait(Cancelled(run))
  <2> DEFINE r == Cancelled(run)
  <2>1. /\ r \in Fields /\ r.timer = FALSE /\ r.timedOut = run.timedOut /\ r.sigs = run.sigs
        /\ r.tasks = run.tasks /\ r.cause = run.cause /\ r.raise = run.raise
        /\ r.origin = run.origin /\ r.cancelled = TRUE /\ r.ignore = run.ignore
    BY <1>2 DEF KillPre, Kept, Fields, Cancelled
  <2>2. KillWait(r)
    BY <1>5
  <2> HIDE DEF r
  <2>3. StopsIn(r) = StopsIn(run) /\ (TroubleIn(r) <=> TroubleIn(run)) /\ StopsIn(run) \in Nat
    BY <1>1, <2>1, OverCount DEF StopsIn, TroubleIn
  <2>4. Kept(r)
    BY <1>1, <1>2, <1>5, <2>1, <2>3, OverCount DEF Kept, KillPre
  <2>5. KillPre(r)
    BY <1>2, <2>1, <2>3, <2>4 DEF KillPre, Asked, Reasoned, Delivered
  <2>6. Lingering # {} => Excuse(r, cancelReq')
    BY <1>1, <1>5, <2>1, <2>3, KillExcuse DEF Excuse, Delivered
  <2>7. KillWaitPre(r)
    BY <1>1, <2>1, <2>5, <2>6, KillFacts DEF KillWaitPre, Listed
  <2> QED BY <2>2, <2>7, KillWaitKeeps
<1>6. CASE Thrown \in {"timeout", "exc"} /\ KillWait(run)
  <2>1. run.timer = FALSE
    BY <1>1, <1>2, <1>6, OverTimer DEF KillPre, Kept, Fields
  <2>2. KillWaitPre(run)
    BY <1>1, <1>2, <1>6, <2>1, KillFacts, KillExcuse DEF KillWaitPre
  <2> QED BY <1>6, <2>2, KillWaitKeeps
<1>7. CASE Thrown \in {"exc", "interrupt", "runtime"} /\ KillWait([run EXCEPT !.raise = Thrown])
  <2> DEFINE r == [run EXCEPT !.raise = Thrown]
  <2>1. /\ r \in Fields /\ r.timer = run.timer /\ r.timedOut = run.timedOut /\ r.sigs = run.sigs
        /\ r.tasks = run.tasks /\ r.cause = run.cause /\ r.raise = Thrown
        /\ r.origin = run.origin /\ r.cancelled = run.cancelled /\ r.ignore = run.ignore
    BY <1>2, <1>7 DEF KillPre, Kept, Fields
  <2>2. KillWait(r)
    BY <1>7
  <2> HIDE DEF r
  <2>3. StopsIn(r) = StopsIn(run) /\ (TroubleIn(r) <=> TroubleIn(run))
    BY <2>1 DEF StopsIn, TroubleIn
  <2>4. Kept(r)
    BY <1>1, <1>2, <1>7, <2>1, <2>3 DEF Kept, KillPre
  <2>5. KillPre(r)
    BY <1>2, <1>7, <2>1, <2>3, <2>4 DEF KillPre, Asked, Reasoned, Delivered
  <2>6. TroubleIn(r) \/ Thrown = "runtime"
    BY <1>1, <1>7, <2>3, OverFacts DEF Error
  <2>7. pc = "killtasks" /\ run.origin = "start" => TroubleIn(r)
    BY <2>1 DEF IInv, ToldInv, TroubleIn
  <2>8. Lingering # {} => Excuse(r, cancelReq')
    BY <1>1, <1>7, <2>1, <2>3, <2>5, <2>6, <2>7, KillExcuse DEF Excuse, Delivered, KillPre
  <2>9. r.timer = FALSE
    BY <1>1, <1>7, <2>1, OverTimer DEF Fields
  <2>10. KillWaitPre(r)
    BY <1>1, <2>1, <2>5, <2>8, <2>9, KillFacts DEF KillWaitPre, Listed
  <2> QED BY <2>2, <2>10, KillWaitKeeps
<1> QED BY <1>3, <1>4, <1>5, <1>6, <1>7 DEF KillEnds

LEMMA ReapEndsKeeps == IInv /\ ReapEnds => IInv'
<1> SUFFICES ASSUME IInv, ReapEnds PROVE IInv'
  OBVIOUS
<1>1. pc = "reap" /\ phase = "over" /\ InKill
  BY DEF ReapEnds, Over, InKill
<1>2. EndFrame /\ "kill" \in run.sigs
  BY <1>1, OverFacts DEF ReapEnds, EndFrame, IInv, SigInv, TypeOK, ExecInv, InKill
<1>3. run.timer = FALSE
  BY <1>1 DEF IInv, TimerInv, TypeOK, Fields
<1>4. call.tasks = {ReapWaiter}
  BY <1>1 DEF IInv, CallInv, InHarvest, InKill
<1>5. CASE Thrown \in {"return", "timeout"} /\ proc' = "known" /\ Killed(run)
  <2>1. Lingering # {} => Excuse(run, cancelReq')
    BY <1>1, <1>2, <1>5, KillExcuse
  <2>2. KilledPre(run)
    BY <1>1, <1>2, <1>3, <1>5, <2>1, KillFacts DEF KilledPre, ClosePre
  <2> QED BY <1>5, <2>2, KilledKeeps
<1>6. CASE \E ex \in {"runtime", "cancelled"} :
             /\ \/ Thrown = ex
                \/ Thrown = "timeout" /\ ex = "runtime"
             /\ Killed([run EXCEPT !.raise = ex])
  <2>1. PICK ex \in {"runtime", "cancelled"} :
             /\ \/ Thrown = ex
                \/ Thrown = "timeout" /\ ex = "runtime"
             /\ Killed([run EXCEPT !.raise = ex])
    BY <1>6
  <2> DEFINE r == [run EXCEPT !.raise = ex]
  <2>2. /\ r \in Fields /\ r.timer = run.timer /\ r.timedOut = run.timedOut /\ r.sigs = run.sigs
        /\ r.tasks = run.tasks /\ r.cause = run.cause /\ r.raise = ex
        /\ r.origin = run.origin /\ r.cancelled = run.cancelled /\ r.ignore = run.ignore
    BY DEF IInv, TypeOK, Fields
  <2>3. Killed(r)
    BY <2>1
  <2> HIDE DEF r
  <2>4. StopsIn(r) = StopsIn(run) /\ (TroubleIn(r) <=> TroubleIn(run)) /\ StopsIn(run) \in Nat
    BY <1>1, <1>2, <2>2, OverCount DEF StopsIn, TroubleIn
  <2>5. Base = 1 /\ Delivered(run, cancelReq', 1)
    BY <1>1, <1>2, KillFacts
  <2>6. ex = "cancelled" => Thrown = "cancelled" /\ (TroubleIn(r) \/ StopsIn(r) >= 2)
    BY <1>1, <1>2, <2>1, <2>4, <2>5, OverCount DEF Delivered
  <2>7. Kept(r)
    BY <1>1, <1>2, <2>1, <2>2, <2>4, <2>6, KillFacts, OverCount DEF Kept
  <2>8. Delivered(r, cancelReq', 1)
    BY <2>4, <2>5 DEF Delivered
  <2>9. Lingering # {} => Excuse(r, cancelReq')
    <3>1. CASE ex = "cancelled"
      BY <2>6, <3>1 DEF Excuse
    <3>2. CASE ex = "runtime" /\ Excuse(run, cancelReq')
      BY <2>2, <2>4, <2>8, <3>2 DEF Excuse
    <3>3. CASE ex = "runtime" /\ Thrown # "cancelled" /\ pc # "killtasks"
      BY <1>1, <1>2, <3>2, <3>3, KillExcuse
    <3> QED BY <1>1, <2>1, <3>1, <3>3
  <2>10. KilledPre(r)
    BY <1>1, <1>2, <1>3, <2>1, <2>2, <2>6, <2>7, <2>8, <2>9, KillFacts
       DEF KilledPre, ClosePre, Reasoned, Listed
  <2> QED BY <2>3, <2>10, KilledKeeps
<1>7. CASE Thrown = "return" /\ proc' = proc /\ Killed(run)
  <2>1. proc = "known"
    BY <1>1, <1>4, <1>7, Tasks, WaiterTells
  <2> QED BY <1>5, <1>7, <2>1
<1> QED BY <1>5, <1>6, <1>7 DEF ReapEnds

\* The harvest of wait_closed() in _close.
LEMMA CloseEndsKeeps == IInv /\ CloseEnds => IInv'
<1> SUFFICES ASSUME IInv, CloseEnds PROVE IInv'
  OBVIOUS
<1>1. /\ pc = "closing" /\ phase = "over" /\ EndFrame /\ proc' = "known" /\ proc = "known"
      /\ call.tasks = {Closer}
  BY DEF CloseEnds, Over, EndFrame, IInv, SigInv, CallInv, InHarvest
<1>2. /\ run \in Fields /\ run.tasks \subseteq Helper \cup {Waiter} /\ Listed(run)
      /\ run.cancelled \/ run.raise = "cancelled" \/ run.cause = "cancelled" => StopsIn(run) >= 1
      /\ "kill" \in run.sigs /\ ~opt.hard => "cancel" \in run.sigs
      /\ Reasoned(run) \/ QuietClosing
      /\ run.timedOut \/ cancels > 0 => StopsIn(run) >= 1
  BY <1>1 DEF IInv, TypeOK, ExecInv, InHarvest, TaskInv, Listed, CountInv, Stopping, SigInv,
              KillNeedsCancel, ToldInv, StopsIn
<1>3. run.raise # "none" => Delivered(run, cancelReq', 1)
  BY <1>1, OverCount DEF Base
<1>4. Lingering # {} => \/ Excuse(run, cancelReq')
                        \/ Thrown = "cancelled" /\ (TroubleIn(run) \/ StopsIn(run) >= 2)
                        \/ Thrown = "runtime"
  <2> SUFFICES ASSUME NEW t \in Task, status[t] = "running", ~Excuse(run, cancelReq')
               PROVE  \/ Thrown = "cancelled" /\ (TroubleIn(run) \/ StopsIn(run) >= 2)
                      \/ Thrown = "runtime"
    BY DEF Lingering
  <2>1. t \in H!Running(call.tasks)
    BY <1>1 DEF IInv, LeftInv, EndFrame, H!Running
  <2>2. Base \in {0, 1} /\ StopsIn(run) \in Nat
    BY <1>1, OverCount
  <2>3. Thrown \in {"cancelled", "runtime"}
    BY <1>1, <2>1, OverFacts
  <2>4. CASE Thrown = "cancelled"
    <3>1. TroubleIn(run) \/ StopsIn(run) >= Base + 2
      BY <1>1, <2>1, <2>4, OverCount
    <3> QED BY <2>2, <2>4, <3>1
  <2> QED BY <2>3, <2>4
<1>5. CASE Thrown \in {"return", "timeout"} /\ Exit(run)
  <2>1. Kept(run)
    BY <1>1, <1>2, OverCount DEF Kept, EndFrame
  <2>2. Lingering # {} => TroubleIn(run) \/ StopsIn(run) >= 2 \/ run.raise = "runtime"
    BY <1>4, <1>5 DEF Excuse
  <2>3. StopsIn(run) \in Nat /\ outcome.kind = Thrown
    BY <1>1, <1>5, OverCount, OverFacts
  <2>4. Thrown = "return" => status[Closer] # "exc"
    BY <1>1, OverFacts DEF Failed, H!FailedIn, Error
  <2>5. Thrown = "timeout" => Closer \in asked
    BY <1>1, <2>3 DEF IInv, PhaseInv
  <2>6. CASE Reasoned(run)
    <3>1. Told(run) /\ FailureIn(run)
      BY <1>2, <2>3, <2>6 DEF Reasoned, Told, FailureIn
    <3> QED BY <1>1, <1>2, <1>5, <2>1, <2>2, <3>1, ExitKeeps DEF ExitPre
  <2>7. CASE QuietClosing
    <3>1. Told(run)
      BY <1>1, <1>2, <1>5, <2>3, <2>5, <2>7 DEF QuietClosing, Told
    <3>2. FailureIn(run)
      BY <1>5, <2>4, <2>5, <2>7 DEF QuietClosing, FailureIn
    <3> QED BY <1>1, <1>2, <1>5, <2>1, <2>2, <3>1, <3>2, ExitKeeps DEF ExitPre
  <2> QED BY <1>2, <2>6, <2>7
<1>6. CASE Thrown \in {"exc", "cancelled", "runtime"} /\ Exit([run EXCEPT !.raise = Thrown])
  <2> DEFINE r == [run EXCEPT !.raise = Thrown]
  <2>1. /\ r \in Fields /\ r.timer = run.timer /\ r.timedOut = run.timedOut /\ r.sigs = run.sigs
        /\ r.tasks = run.tasks /\ r.cause = run.cause /\ r.raise = Thrown
        /\ r.origin = run.origin /\ r.cancelled = run.cancelled /\ r.ignore = run.ignore
    BY <1>2, <1>6 DEF Fields
  <2>2. Exit(r)
    BY <1>6
  <2> HIDE DEF r
  <2>3. StopsIn(r) = StopsIn(run) /\ (TroubleIn(r) <=> TroubleIn(run)) /\ StopsIn(run) \in Nat
    BY <1>1, <2>1, OverCount DEF StopsIn, TroubleIn
  <2>4. Kept(r) /\ Listed(r)
    BY <1>1, <1>2, <1>6, <2>1, <2>3, OverCount DEF Kept, EndFrame, Listed
  <2>5. Told(r) /\ FailureIn(r)
    BY <1>6, <2>1 DEF Told, FailureIn
  <2>6. Thrown = "exc" => TroubleIn(run)
    BY <1>1, OverFacts DEF Error
  <2>7. Excuse(run, cancelReq') /\ Thrown = "cancelled" => TroubleIn(run) \/ StopsIn(run) >= 2
    <3>1. run.raise = "runtime" => Base = 1
      BY <1>1 DEF Base
    <3> QED BY <1>1, <2>3, <3>1, OverCount DEF Excuse, Delivered
  <2>8. Lingering # {} => TroubleIn(r) \/ StopsIn(r) >= 2 \/ r.raise = "runtime"
    BY <1>4, <1>6, <2>1, <2>3, <2>6, <2>7
  <2>9. ExitPre(r)
    BY <1>1, <2>4, <2>5, <2>8 DEF ExitPre
  <2> QED BY <2>2, <2>9, ExitKeeps
<1> QED BY <1>5, <1>6 DEF CloseEnds

----------------------------------------------------------------------------
(* The theorems.                                                           *)

LEMMA Stutters == IInv /\ UNCHANGED vars => IInv'
<1> SUFFICES ASSUME IInv, UNCHANGED vars PROVE IInv'
  OBVIOUS
<1> USE DEF IInv, vars, harvestVars, taskVars
<1>1. TypeOK' /\ ExecInv' /\ TaskInv' /\ EndInv' /\ CallInv' /\ PhaseInv'
  BY DEF TypeOK, ExecInv, TaskInv, EndInv, CallInv, PhaseInv, InHarvest, InKill, Failed,
         H!FailedIn, H!Running
<1>2. CountInv' /\ LeftInv'
  BY DEF CountInv, LeftInv, Stopping, Quiet, StopsIn, TroubleIn, Delivered, Excuse, Base,
         InHarvest, InKill, H!Running
<1>3. TimerInv' /\ SigInv' /\ ToldInv'
  BY DEF TimerInv, SigInv, KillNeedsCancel, ToldInv, InKill, Reasoned, QuietClosing, StopsIn
<1>4. EndsWell'
  BY DEF EndsWell, NeverAbandoned, CancelOnceReaps, NoTaskLeft, StopTold, FailureTold, Stops,
         Trouble
<1> QED BY <1>1, <1>2, <1>3, <1>4

LEMMA Steps == IInv /\ [Next]_vars => IInv'
<1> SUFFICES ASSUME IInv, [Next]_vars PROVE IInv'
  OBVIOUS
<1>1. CASE Main
  BY <1>1, EnterKeeps, LaunchKeeps, LaunchCancelledKeeps, LaunchFailsKeeps, StartedKeeps,
     BodyStopsKeeps, WaitEndsKeeps, KillEndsKeeps, ReapEndsKeeps, CloseEndsKeeps,
     HarvestStepKeeps
     DEF Main
<1>2. CASE Body
  BY <1>2, BodyEndsKeeps, BodyStopsKeeps, BodySignalsKeeps DEF Body
<1>3. CASE Outside
  BY <1>3, TimerFiresKeeps, HarvestTimerKeeps, CancelKeeps, ExecEndsKeeps, ProcEndsKeeps,
     TaskEndsKeeps DEF Outside
<1>4. CASE UNCHANGED vars
  BY <1>4, Stutters
<1> QED BY <1>1, <1>2, <1>3, <1>4 DEF Next, Stopped

LEMMA Invariance == Spec => []IInv
BY Starts, Steps, PTL DEF Spec

\* Every variable keeps its type, whatever the helper tasks, commands and
\* cancellations are.
THEOREM TypeCorrect == Spec => []TypeOK
<1>1. IInv => TypeOK
  BY DEF IInv
<1> QED BY <1>1, Invariance, PTL

\* However a run ends (runner.py: __aenter__ that fails, __aexit__, _close), its
\* process has been launched by it and killed, or it is gone.
THEOREM NeverAbandons == Spec => []NeverAbandoned
<1>1. IInv => NeverAbandoned
  BY DEF IInv, EndsWell
<1> QED BY <1>1, Invariance, PTL

\* A run that is told to stop once waits for its process, by _kill and _kill_wait.
THEOREM ReapsOnce == Spec => []CancelOnceReaps
<1>1. IInv => CancelOnceReaps
  BY DEF IInv, EndsWell
<1> QED BY <1>1, Invariance, PTL

\* _kill sends the cancel signal before _kill_wait kills, and before the transport of
\* _close may; the one kill without it is asyncio's, in a launch cancelled twice.
THEOREM KillsAfterAsking == Spec => []KillNeedsCancel
<1>1. IInv => KillNeedsCancel
  BY DEF IInv, SigInv
<1> QED BY <1>1, Invariance, PTL

\* Each redirection, process substitution and waiter has ended with its run: the
\* harvests of _wait, _kill and _close have seen to it.
THEOREM LeavesNoTask == Spec => []NoTaskLeft
<1>1. IInv => NoTaskLeft
  BY DEF IInv, EndsWell
<1> QED BY <1>1, Invariance, PTL

\* self._timer is stopped by _waiter, _set_cancelled and __aexit__ in time: it never
\* cancels a task that has left the run, or has been cancelled by it already.
THEOREM TimerInTime == Spec => []TimerWindow
<1>1. IInv => TimerWindow
  BY DEF IInv, TimerInv, TimerWindow
<1> QED BY <1>1, Invariance, PTL

\* A timeout or a cancellation that was delivered to a run is reported by it.
THEOREM TellsStop == Spec => []StopTold
<1>1. IInv => StopTold
  BY DEF IInv, EndsWell
<1> QED BY <1>1, Invariance, PTL

\* A failure of the body or of a task is reported by a run that nobody stopped.
THEOREM TellsFailure == Spec => []FailureTold
<1>1. IInv => FailureTold
  BY DEF IInv, EndsWell
<1> QED BY <1>1, Invariance, PTL

=============================================================================
