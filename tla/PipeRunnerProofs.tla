-------------------------- MODULE PipeRunnerProofs --------------------------
(***************************************************************************)
(* Theorems about PipeRunner: its safety properties for every number of    *)
(* commands, every set of pipelines and any number of cancellations.       *)
(***************************************************************************)
EXTENDS PipeRunner, WellFoundedInduction, TLAPS

----------------------------------------------------------------------------
(* The inductive invariant.                                                *)

Over(i) == cmd[i].stage = "over"

\* What TypeOK leaves out: the state of the harvest.
HarvestType ==
  /\ call = HarvestCall /\ why \in {"none", "completed", "failed", "cancelled"}
  /\ settling \subseteq Commands /\ asked \subseteq Commands /\ left \subseteq Commands
  /\ expired \in BOOLEAN /\ cancelReq \in BOOLEAN

\* The stages of the main task.
MainInv ==
  /\ pc \in {"new", "starting", "body"} => /\ phase = "idle"
                                           /\ run.cause = "none" /\ run.kill = FALSE
                                           /\ run.cancelled = FALSE /\ run.entering = FALSE
                                           /\ run.exit = "none"
  /\ pc = "harvest" => phase # "idle"
  /\ phase # "idle" => (run.kill = TRUE <=> run.cause # "none")
  /\ pc = "harvest" => (run.cancelled = TRUE => run.cause = "cancelled")
  /\ pc = "done" => phase \in {"idle", "over"}
  /\ pc = "done" /\ phase = "idle" =>
       run.entering = TRUE /\ run.cause = "exc" /\ run.exit = "exc"
  /\ pc = "done" /\ phase = "over" =>
       /\ run.exit = ExitOf(run)
       /\ outcome.kind = "cancelled_results" => run.cancelled = TRUE

\* The tasks of the commands.
CmdInv ==
  /\ \A i \in Commands : status[i] = "running" <=> ~Over(i)
  /\ \A i \in Commands : ~Over(i) => cmd[i].cancelled = FALSE
  /\ \A i \in Commands : cmd[i].stage \in {"stopping", "killing"} => cmd[i].why # "none"
  /\ \A i \in Commands : cmd[i].stage = "absent" <=> phase = "idle" /\ pc \in {"new", "done"}
  /\ \A i \in Commands : Over(i) =>
       /\ status[i] = "ok" => cmd[i].code = 0 \/ (i = N /\ opt.any)
       /\ status[i] = "result_error" => cmd[i].cancelled = TRUE \/ cmd[i].code = 1

\* A descriptor of a pipe has been closed by the command that owns it, if that was
\* launched, and by _start, if that has failed.
Owner(f) == IF f[2] = "r" THEN f[1] + 1 ELSE f[1]
Closes(f) == (IF cmd[Owner(f)].stage \in {"absent", "starting"} THEN 0 ELSE 1)
             + (IF run.entering THEN 1 ELSE 0)

PipeInv ==
  /\ pc = "new" => made = {}
  /\ pc # "new" /\ phase = "idle" /\ pc # "done" => made = Fd
  /\ phase # "idle" => made = Fd
  /\ pc = "done" /\ phase = "idle" => <<N - 1, "r">> \notin made
  /\ \A f \in Fd : shut[f] = IF f \in made THEN Closes(f) ELSE 0

\* How many cancellations it takes to get where the harvest is.
Taken == IF run.cause = "cancelled" THEN 1 ELSE 0
Spent == IF phase = "settle" THEN IF why = "cancelled" THEN 1 ELSE 0
         ELSE IF phase = "retry" THEN IF why = "cancelled" THEN 2 ELSE 1 ELSE 0

CountInv ==
  /\ cancels >= Taken + Spent + (IF cancelReq THEN 1 ELSE 0)
  /\ phase = "over" /\ left # {} /\ outcome.kind # "runtime" => cancels >= Taken + 2

\* A run that nobody has interrupted knows of every cancellation.
Undisturbed == /\ run.cause = "none"
               /\ phase \in {"idle", "wait"} \/ why = "completed"
QuietInv ==
  /\ Undisturbed => cancels = IF cancelReq THEN 1 ELSE 0
  /\ Undisturbed => \A i \in Commands : /\ cmd[i].why # "cancel"
                                        /\ cmd[i].cancelled = TRUE => cmd[i].why = "timeout"
  /\ Undisturbed => req = {}

\* The failure that has ended the wait for the commands.
Broken(i) == /\ Over(i)
             /\ \/ status[i] \in {"exc", "fatal"}
                \/ /\ status[i] = "result_error"
                   /\ cmd[i].why = "timeout" \/ cmd[i].cancelled = FALSE

PhaseInv ==
  /\ phase = "wait" => why = "none" /\ expired = FALSE /\ outcome.kind = "none"
  /\ phase \in {"settle", "retry"} =>
       /\ why \in {"failed", "cancelled"} /\ outcome.kind = "none"
       /\ H!Running(Commands) \subseteq settling
  /\ phase = "over" =>
       /\ why # "none"
       /\ left = H!Running(Commands)
       /\ outcome.kind \in {"results", "cancelled_results", "raise", "runtime",
                            "invalid_state"}
       /\ outcome.kind = "runtime" => expired = TRUE
       /\ outcome.kind = "results" =>
            left = {} /\ why # "cancelled" /\ \A i \in Commands : status[i] # "fatal"
  /\ phase # "idle" /\ why = "failed" /\ run.cause = "none" =>
       \E i \in Commands : Broken(i)

\* A pipeline that is not killed asks no command twice to end.
OnceInv ==
  phase # "over" /\ run.kill = FALSE =>
    \A i \in req : cmd[i].why # "cancel" /\ phase \in {"settle", "retry"}

IInv ==
  /\ TypeOK /\ HarvestType /\ MainInv /\ CmdInv /\ PipeInv /\ CountInv /\ QuietInv
  /\ PhaseInv /\ OnceInv

----------------------------------------------------------------------------
(* The operators.                                                          *)

\* The first and the last command are commands, and every end of a pipe has one owner.
LEMMA Places ==
  /\ Commands \subseteq Nat \ {0} /\ 1 \in Commands /\ N \in Commands
  /\ Ends \subseteq Commands
  /\ \A f \in Fd : /\ Owner(f) \in Commands
                   /\ \A i \in Commands : f \in OwnFds(i) <=> Owner(f) = i
<1>1. /\ Commands \subseteq Nat \ {0} /\ 1 \in Commands /\ N \in Commands
      /\ Ends \subseteq Commands
  BY NAssumption DEF Commands, Ends
<1>2. ASSUME NEW f \in Fd PROVE Owner(f) \in Commands
  BY NAssumption DEF Fd, Owner, Commands
<1>3. ASSUME NEW f \in Fd, NEW i \in Commands PROVE f \in OwnFds(i) <=> Owner(f) = i
  <2>1. PICK k \in 1..(N - 1), e \in {"r", "w"} : f = <<k, e>>
    BY DEF Fd
  <2>2. f \in {<<i - 1, "r">>, <<i, "w">>} <=> Owner(f) = i
    BY <2>1, <1>1, NAssumption DEF Owner, Commands
  <2> QED BY <2>2 DEF OwnFds
<1> QED BY <1>1, <1>2, <1>3

\* What harvest_results makes of the end of harvest_wait.
LEMMA ResultsEnds ==
  ASSUME HarvestType, NEW how \in {"completed", "cancelled", "runtime"}
  PROVE  LET e == H!ResultsEnd(how)
         IN  /\ e.kind \in {"results", "cancelled_results", "raise", "runtime",
                            "invalid_state"}
             /\ e.kind = "runtime" => how = "runtime"
             /\ e.kind = "results" =>
                  /\ how = "completed" /\ H!Running(Commands) = {}
                  /\ \A i \in Commands : status[i] # "fatal"
<1> DEFINE bad == H!FailedIn(Commands, {"fatal"}) \cup H!Running(Commands)
<1>0. call.tasks = Commands
  BY DEF HarvestType, HarvestCall
<1>1. CASE how = "runtime"
  BY <1>1 DEF H!ResultsEnd, H!Ended
<1>2. CASE how # "runtime" /\ bad # {}
  <2>1. H!ResultsEnd(how)
          = H!Ended(IF status[H!First(bad)] = "running" THEN "invalid_state" ELSE "raise",
                    H!First(bad))
    BY <1>0, <1>2 DEF H!ResultsEnd
  <2> QED BY <2>1 DEF H!Ended
<1>3. CASE how # "runtime" /\ bad = {}
  BY <1>0, <1>3 DEF H!ResultsEnd, H!Ended, H!FailedIn
<1> QED BY <1>1, <1>2, <1>3

----------------------------------------------------------------------------
(* The initial states.                                                     *)

LEMMA Starts == Init => IInv
<1> SUFFICES ASSUME Init PROVE IInv
  OBVIOUS
<1>1. TypeOK
  BY MaxCancelsAssumption DEF Init, Fresh, TypeOK, Fields, Command
<1>2. HarvestType /\ MainInv /\ CmdInv
  BY DEF Init, Fresh, HarvestType, MainInv, CmdInv, Over
<1>3. CountInv /\ QuietInv /\ PhaseInv /\ OnceInv /\ PipeInv
  BY DEF Init, Fresh, CountInv, QuietInv, PhaseInv, OnceInv, PipeInv, Taken, Spent, Undisturbed
<1> QED BY <1>1, <1>2, <1>3 DEF IInv

----------------------------------------------------------------------------
(* The environment.                                                        *)

\* The timer of _cancel_waiter fires.
LEMMA HarvestTimerKeeps == IInv /\ HarvestTimer => IInv'
<1> SUFFICES ASSUME IInv, HarvestTimer PROVE IInv'
  OBVIOUS
<1> USE DEF IInv, HarvestTimer, H!CancelTimeoutFires, H!taskVars, H!history
<1>1. TypeOK' /\ HarvestType' /\ CmdInv'
  BY DEF TypeOK, HarvestType, CmdInv, Over
<1>2. MainInv' /\ CountInv'
  BY DEF MainInv, CountInv, ExitOf, Taken, Spent
<1>3. PipeInv' /\ QuietInv' /\ OnceInv'
  BY DEF PipeInv, Closes, QuietInv, Undisturbed, OnceInv
<1>4. PhaseInv'
  BY DEF PhaseInv, Broken, Over, H!Running
<1> QED BY <1>1, <1>2, <1>3, <1>4

\* Somebody cancels the main task.
LEMMA CancelKeeps == IInv /\ Cancel => IInv'
<1> SUFFICES ASSUME IInv, Cancel PROVE IInv'
  OBVIOUS
<1> USE DEF IInv, Cancel, Suspended, harvestVars
<1>1. TypeOK' /\ HarvestType'
  BY MaxCancelsAssumption DEF TypeOK, HarvestType
<1>2. MainInv' /\ CmdInv' /\ CountInv'
  BY DEF TypeOK, MainInv, CmdInv, CountInv, Over, Taken, Spent
<1>3. PipeInv' /\ QuietInv' /\ OnceInv'
  BY DEF PipeInv, Closes, QuietInv, Undisturbed, OnceInv
<1>4. PhaseInv'
  BY DEF PhaseInv, Broken, Over, H!Running
<1> QED BY <1>1, <1>2, <1>3, <1>4

\* Nothing changes any more.
LEMMA StutterKeeps == IInv /\ UNCHANGED vars => IInv'
<1> SUFFICES ASSUME IInv, UNCHANGED vars PROVE IInv'
  OBVIOUS
<1> USE DEF IInv, vars, mainVars, cmdVars, harvestVars
<1>1. TypeOK' /\ HarvestType' /\ CmdInv'
  BY DEF TypeOK, HarvestType, CmdInv, Over
<1>2. MainInv' /\ CountInv'
  BY DEF MainInv, CountInv, ExitOf, Taken, Spent
<1>3. PipeInv' /\ QuietInv' /\ OnceInv'
  BY DEF PipeInv, Closes, QuietInv, Undisturbed, OnceInv
<1>4. PhaseInv'
  BY DEF PhaseInv, Broken, Over, H!Running
<1> QED BY <1>1, <1>2, <1>3, <1>4

----------------------------------------------------------------------------
(* The commands.                                                           *)

\* A step that takes command i, which is not over, to the state c and its task to the
\* state s.
Moves(i, c, s) ==
  /\ Suspended /\ ~Over(i) /\ cmd[i].stage # "absent"
  /\ cmd' = [cmd EXCEPT ![i] = c] /\ status' = [status EXCEPT ![i] = s]
  /\ c \in Command /\ c.stage \notin {"absent", "starting"}
  /\ s \in {"running", "ok"} \cup Error /\ (s = "running" <=> c.stage # "over")
  /\ c.stage \in {"stopping", "killing"} => c.why # "none"
  /\ s = "ok" => c.code = 0 \/ (i = N /\ opt.any)
  /\ s = "result_error" => c.cancelled = TRUE \/ c.code = 1
  /\ c.why = "cancel" => i \notin req' /\ (i \in req \/ cmd[i].why = "cancel")
  /\ c.cancelled = TRUE => c.stage = "over" /\ (i \in req \/ c.why \in {"cancel", "timeout"})
  /\ shut' = IF cmd[i].stage = "starting" THEN CloseAgain(OwnFds(i)) ELSE shut
  /\ req' \subseteq req
  /\ fut' \in [Ends -> {"none", "pending", "set", "cancelled"}]
  /\ UNCHANGED <<opt, mainVars, made, harvestVars>>

LEMMA MovesKeep == ASSUME IInv, NEW i \in Commands, NEW c, NEW s, Moves(i, c, s) PROVE IInv'
<1> USE DEF IInv, Moves, Suspended, mainVars, harvestVars
<1>0. /\ cmd'[i] = c /\ status'[i] = s
      /\ \A j \in Commands : j # i => cmd'[j] = cmd[j] /\ status'[j] = status[j]
  BY DEF TypeOK
<1>1. \A f \in Fd : shut'[f] = IF f \in made THEN Closes(f)' ELSE 0
  <2> TAKE f \in Fd
  <2>1. made = Fd /\ (cmd[i].stage = "starting" => shut'[f] = shut[f] + (IF f \in OwnFds(i)
                                                                         THEN 1 ELSE 0))
    BY DEF CmdInv, MainInv, PipeInv, CloseAgain, TypeOK
  <2>2. f \in OwnFds(i) <=> Owner(f) = i
    BY Places
  <2>3. Owner(f)' = Owner(f) /\ Owner(f) \in Commands
    BY Places DEF Owner
  <2>4. shut[f] = Closes(f)
    BY <2>1 DEF PipeInv
  <2>5. CASE Owner(f) = i
    BY <1>0, <2>1, <2>2, <2>3, <2>4, <2>5 DEF Closes
  <2>6. CASE Owner(f) # i
    BY <1>0, <2>1, <2>2, <2>3, <2>4, <2>6 DEF Closes
  <2> QED BY <2>1, <2>5, <2>6
<1>2. shut' \in [Fd -> 0..2]
  BY <1>1 DEF TypeOK, Closes, CloseAgain
<1>3. TypeOK' /\ HarvestType'
  BY <1>2 DEF TypeOK, HarvestType
<1>4. MainInv' /\ CountInv'
  BY DEF MainInv, CountInv, Taken, Spent
<1>5. CmdInv'
  BY <1>0 DEF CmdInv, Over, MainInv
<1>6. PipeInv'
  BY <1>1 DEF PipeInv
<1>7. QuietInv' /\ OnceInv'
  BY <1>0 DEF QuietInv, Undisturbed, OnceInv, MainInv
<1>8. PhaseInv'
  <2>1. H!Running(Commands)' \subseteq H!Running(Commands)
    BY <1>0 DEF H!Running, CmdInv, Over
  <2>2. \A j \in Commands : Broken(j) => Broken(j)'
    BY <1>0 DEF Broken, Over
  <2> QED BY <2>1, <2>2 DEF PhaseInv
<1> QED BY <1>3, <1>4, <1>5, <1>6, <1>7, <1>8

\* Each step of a command is such a move.
LEMMA CommandKeeps == ASSUME IInv, NEW i \in Commands, CommandStep(i) PROVE IInv'
<1> USE DEF IInv
<1> SUFFICES \E c, s : Moves(i, c, s)
  BY MovesKeep
<1>0. /\ opt.any \in BOOLEAN /\ cmd[i] \in Command
      /\ UNCHANGED <<opt, mainVars, made, harvestVars>>
  BY OptionsAssumption DEF TypeOK, Option, CommandStep
<1>1. status[i] = "running" <=> cmd[i].stage # "over"
  BY DEF CmdInv, Over
<1>13. /\ cmd[i].stage # "over" => cmd[i].cancelled = FALSE
       /\ cmd[i].stage \in {"stopping", "killing"} => cmd[i].why # "none"
  BY DEF CmdInv, Over
<1> DEFINE at(stage, reason) == [cmd[i] EXCEPT !.stage = stage, !.why = reason]
           over(code, cancelled) == [cmd[i] EXCEPT !.stage = "over", !.code = code,
                                                   !.cancelled = cancelled]
           ends(c, s) == /\ c.stage = "over" /\ c.why = cmd[i].why
                         /\ cmd' = [cmd EXCEPT ![i] = c]
                         /\ status' = [status EXCEPT ![i] = s]
<1>2. ASSUME NEW stage \in {"running", "stopping", "killing"}, NEW reason,
             Becomes(i, stage, reason), cmd[i].stage # "over"
      PROVE  /\ cmd' = [cmd EXCEPT ![i] = at(stage, reason)]
             /\ status' = [status EXCEPT ![i] = "running"]
  BY <1>1, <1>2 DEF Becomes, TypeOK
<1>3. ASSUME NEW stage \in {"running", "stopping", "killing"},
             NEW reason \in {"none", "cancel", "timeout", "exc"}
      PROVE  /\ at(stage, reason) \in Command
             /\ at(stage, reason).stage = stage /\ at(stage, reason).why = reason
             /\ at(stage, reason).cancelled = cmd[i].cancelled
  BY <1>0 DEF Command
<1>4. ASSUME NEW s, NEW code \in {0, 1}, CommandOver(i, s, code, FALSE)
      PROVE  \E c \in Command : ends(c, s) /\ c.code = code /\ c.cancelled = FALSE
  <2> DEFINE c == over(code, FALSE)
  <2>1. /\ c \in Command /\ c.stage = "over" /\ c.why = cmd[i].why
        /\ c.code = code /\ c.cancelled = FALSE
    BY <1>0 DEF Command
  <2>2. cmd' = [cmd EXCEPT ![i] = c] /\ status' = [status EXCEPT ![i] = s]
    BY <1>4 DEF CommandOver, TypeOK
  <2> QED BY <2>1, <2>2
<1>5. ASSUME NEW s, NEW code \in {0, 1}, CommandOver(i, s, code, TRUE)
      PROVE  \E c \in Command : ends(c, s) /\ c.code = code /\ c.cancelled = TRUE
  <2> DEFINE c == over(code, TRUE)
  <2>1. /\ c \in Command /\ c.stage = "over" /\ c.why = cmd[i].why
        /\ c.code = code /\ c.cancelled = TRUE
    BY <1>0 DEF Command
  <2>2. cmd' = [cmd EXCEPT ![i] = c] /\ status' = [status EXCEPT ![i] = s]
    BY <1>5 DEF CommandOver, TypeOK
  <2> QED BY <2>1, <2>2
<1> HIDE DEF at, over
<1>14. ASSUME NEW s, Raises(i, s)
       PROVE  \E c \in Command :
                /\ c = Fresh("over")
                /\ cmd' = [cmd EXCEPT ![i] = c] /\ status' = [status EXCEPT ![i] = s]
  BY <1>14 DEF Raises, Fresh, Command
<1>15. /\ Fresh("over").stage = "over" /\ Fresh("over").why = "none"
       /\ Fresh("over").cancelled = FALSE
  BY DEF Fresh
<1>6. CASE Launched(i)
  <2>1. CASE Becomes(i, "running", "none")
    BY <1>0, <1>2, <1>3, <1>6, <2>1, <1>13 DEF Moves, Launched, At, Over, TypeOK
  <2>2. CASE Becomes(i, "stopping", "exc")
    BY <1>0, <1>2, <1>3, <1>6, <2>2, <1>13 DEF Moves, Launched, At, Over, TypeOK
  <2> QED BY <1>6, <2>1, <2>2 DEF Launched
<1>7. CASE LaunchFails(i)
  <2>1. PICK c \in Command :
          /\ c = Fresh("over")
          /\ cmd' = [cmd EXCEPT ![i] = c] /\ status' = [status EXCEPT ![i] = "exc"]
    BY <1>7, <1>14 DEF LaunchFails
  <2>2. Moves(i, c, "exc")
    BY <1>0, <1>7, <1>15, <2>1 DEF Moves, LaunchFails, At, Over, TypeOK, Error
  <2> QED BY <2>2
<1>8. CASE Exits(i)
  <2>1. PICK code \in {0, 1} : CommandOver(i, Checked(i, code), code, FALSE)
    BY <1>8 DEF Exits
  <2>2. PICK c \in Command :
          ends(c, Checked(i, code)) /\ c.code = code /\ c.cancelled = FALSE
    BY <1>4, <2>1
  <2>3. Moves(i, c, Checked(i, code))
    BY <1>0, <1>8, <2>2 DEF Moves, Exits, Checked, At, Over, TypeOK, Error
  <2> QED BY <2>3
<1>9. CASE Breaks(i)
  <2>1. PICK reason \in {"exc", "timeout"} : Becomes(i, "stopping", reason)
    BY <1>9 DEF Breaks
  <2> QED BY <1>0, <1>2, <1>3, <1>9, <2>1, <1>13 DEF Moves, Breaks, At, Over, TypeOK
<1>10. CASE Delivered(i)
  <2>1. ASSUME CommandOver(i, "result_error", 1, TRUE), At(i, {"starting"})
        PROVE  \E c, s : Moves(i, c, s)
    <3>1. PICK c \in Command : ends(c, "result_error") /\ c.code = 1 /\ c.cancelled = TRUE
      BY <1>5, <2>1
    <3>2. Moves(i, c, "result_error")
      BY <1>0, <1>10, <2>1, <3>1 DEF Moves, Delivered, At, Over, TypeOK, Error
    <3> QED BY <3>2
  <2>2. ASSUME NEW stage \in {"stopping", "killing"}, NEW reason \in {"cancel", cmd[i].why},
               Becomes(i, stage, reason), At(i, {"starting", "running", "stopping"}),
               reason # "none"
        PROVE  \E c, s : Moves(i, c, s)
    BY <1>0, <1>2, <1>3, <1>10, <2>2, <1>13
       DEF Moves, Delivered, At, Over, TypeOK, Command
  <2>3. ASSUME Raises(i, "exc"), At(i, {"killing"})
        PROVE  \E c, s : Moves(i, c, s)
    <3>1. PICK c \in Command :
            /\ c = Fresh("over")
            /\ cmd' = [cmd EXCEPT ![i] = c] /\ status' = [status EXCEPT ![i] = "exc"]
      BY <1>14, <2>3
    <3>2. Moves(i, c, "exc")
      BY <1>0, <1>10, <1>15, <2>3, <3>1 DEF Moves, Delivered, At, Over, TypeOK, Error
    <3> QED BY <3>2
  <2>4. ASSUME NEW code \in {0, 1}, CancelledResult(i, code), At(i, {"killing"})
        PROVE  \E c, s : Moves(i, c, s)
    <3> DEFINE s == IF cmd[i].why = "timeout" THEN Checked(i, code) ELSE "result_error"
    <3>1. CommandOver(i, s, code, TRUE)
      BY <2>4 DEF CancelledResult
    <3>2. /\ s \in {"ok", "result_error"}
          /\ s = "ok" => code = 0 \/ (i = N /\ opt.any)
      BY DEF Checked
    <3> HIDE DEF s
    <3>3. PICK c \in Command : ends(c, s) /\ c.code = code /\ c.cancelled = TRUE
      BY <1>5, <3>1
    <3>4. Moves(i, c, s)
      BY <1>0, <1>10, <2>4, <3>2, <3>3 DEF Moves, Delivered, At, Over, TypeOK, Error
    <3> QED BY <3>4
  <2> QED BY <1>10, <1>13, <2>1, <2>2, <2>3, <2>4 DEF Delivered, At
<1>11. CASE GraceOver(i)
  BY <1>0, <1>2, <1>3, <1>11, <1>13 DEF Moves, GraceOver, At, Over, TypeOK, Command
<1>12. CASE Stops(i)
  <2>1. ASSUME NEW code \in {0, 1}, CancelledResult(i, code),
               cmd[i].why \in {"cancel", "timeout"}
        PROVE  \E c, s : Moves(i, c, s)
    <3> DEFINE s == IF cmd[i].why = "timeout" THEN Checked(i, code) ELSE "result_error"
    <3>1. CommandOver(i, s, code, TRUE)
      BY <2>1 DEF CancelledResult
    <3>2. /\ s \in {"ok", "result_error"}
          /\ s = "ok" => code = 0 \/ (i = N /\ opt.any)
      BY DEF Checked
    <3> HIDE DEF s
    <3>3. PICK c \in Command : ends(c, s) /\ c.code = code /\ c.cancelled = TRUE
      BY <1>5, <3>1
    <3>4. Moves(i, c, s)
      BY <1>0, <1>12, <2>1, <3>2, <3>3 DEF Moves, Stops, At, Over, TypeOK, Error
    <3> QED BY <3>4
  <2>2. ASSUME NEW s \in {"exc", "fatal"}, Raises(i, s)
        PROVE  \E c, s1 : Moves(i, c, s1)
    <3>1. PICK c \in Command :
            /\ c = Fresh("over")
            /\ cmd' = [cmd EXCEPT ![i] = c] /\ status' = [status EXCEPT ![i] = s]
      BY <1>14, <2>2
    <3>2. Moves(i, c, s)
      BY <1>0, <1>12, <1>15, <2>2, <3>1 DEF Moves, Stops, At, Over, TypeOK, Error
    <3> QED BY <3>2
  <2> QED BY <1>12, <2>1, <2>2 DEF Stops
<1> QED BY <1>6, <1>7, <1>8, <1>9, <1>10, <1>11, <1>12 DEF CommandStep

----------------------------------------------------------------------------
(* The main task, until it waits for the commands.                         *)

\* _wait is entered, by a run that may have been interrupted.
Entered(cause) ==
  /\ run' \in Fields /\ run'.cause = cause /\ run'.exit = "none"
  /\ run'.kill = TRUE <=> cause # "none"
  /\ run'.cancelled = TRUE => cause = "cancelled"
  /\ pc' = "harvest"
  /\ req' = IF run'.kill = TRUE THEN req \cup {i \in Commands : cmd[i].stage # "over"} ELSE req
  /\ phase' = "wait" /\ why' = "none" /\ settling' = {} /\ expired' = FALSE
  /\ outcome' = H!Ended("none", 0) /\ left' = {} /\ asked' = {}
  /\ UNCHANGED <<call, opt, status, cancels>>

LEMMA Enters ==
  /\ Wait(run, FALSE) /\ IInv /\ UNCHANGED <<opt, status, cancels>>
       /\ pc \in {"new", "body"} => Entered("none") /\ run'.entering = FALSE
  /\ Wait([run EXCEPT !.cause = "exc"], TRUE) /\ IInv /\ UNCHANGED <<opt, status, cancels>>
       /\ pc = "body" => Entered("exc") /\ run'.entering = FALSE
  /\ Wait([run EXCEPT !.cancelled = TRUE, !.cause = "cancelled"], TRUE) /\ IInv
       /\ pc = "body" /\ UNCHANGED <<opt, status, cancels>>
       => Entered("cancelled") /\ run'.entering = FALSE
  /\ Wait([run EXCEPT !.cancelled = TRUE, !.cause = "cancelled", !.entering = TRUE], TRUE)
       /\ IInv /\ pc = "starting" /\ UNCHANGED <<opt, status, cancels>>
       => Entered("cancelled") /\ run'.entering = TRUE
<1> SUFFICES ASSUME IInv, pc \in {"new", "starting", "body"},
                    UNCHANGED <<opt, status, cancels>>
             PROVE  /\ Wait(run, FALSE) => Entered("none") /\ run'.entering = FALSE
                    /\ Wait([run EXCEPT !.cause = "exc"], TRUE)
                         => Entered("exc") /\ run'.entering = FALSE
                    /\ Wait([run EXCEPT !.cancelled = TRUE, !.cause = "cancelled"], TRUE)
                         => Entered("cancelled") /\ run'.entering = FALSE
                    /\ Wait([run EXCEPT !.cancelled = TRUE, !.cause = "cancelled",
                                        !.entering = TRUE], TRUE)
                         => Entered("cancelled") /\ run'.entering = TRUE
  OBVIOUS
<1>0. /\ run \in Fields /\ run.cause = "none" /\ run.exit = "none"
      /\ run.cancelled = FALSE /\ run.entering = FALSE
  BY DEF IInv, TypeOK, MainInv
<1>1. ASSUME Wait(run, FALSE) PROVE Entered("none") /\ run'.entering = FALSE
  BY <1>0, <1>1 DEF Wait, Entered, Fields
<1>2. ASSUME Wait([run EXCEPT !.cause = "exc"], TRUE)
      PROVE  Entered("exc") /\ run'.entering = FALSE
  BY <1>0, <1>2 DEF Wait, Entered, Fields
<1>3. ASSUME Wait([run EXCEPT !.cancelled = TRUE, !.cause = "cancelled"], TRUE)
      PROVE  Entered("cancelled") /\ run'.entering = FALSE
  BY <1>0, <1>3 DEF Wait, Entered, Fields
<1>4. ASSUME Wait([run EXCEPT !.cancelled = TRUE, !.cause = "cancelled", !.entering = TRUE],
                  TRUE)
      PROVE  Entered("cancelled") /\ run'.entering = TRUE
  BY <1>0, <1>4 DEF Wait, Entered, Fields
<1> QED BY <1>1, <1>2, <1>3, <1>4

\* How the start and the body end.
LEMMA StartKeeps == IInv /\ Start => IInv'
<1> SUFFICES ASSUME IInv, Start PROVE IInv'
  OBVIOUS
<1> USE DEF IInv, Start, Created, CloseAgain
<1>0. Entered("none") /\ run'.entering = FALSE
  BY Enters
<1> USE DEF Entered
<1>1. \A i \in Commands : /\ cmd[i] \in Command /\ cmd[i].stage = "absent"
                          /\ cmd'[i] \in Command /\ cmd'[i].stage = "starting"
                          /\ cmd'[i].why = cmd[i].why /\ cmd'[i].code = cmd[i].code
                          /\ cmd'[i].cancelled = cmd[i].cancelled
  BY DEF TypeOK, MainInv, CmdInv, Command
<1>2. TypeOK' /\ HarvestType'
  BY <1>0, <1>1 DEF TypeOK, HarvestType
<1>3. MainInv' /\ CmdInv'
  BY <1>0, <1>1 DEF MainInv, CmdInv, Over
<1>4. CountInv' /\ QuietInv' /\ PhaseInv' /\ OnceInv'
  BY <1>0, <1>1 DEF MainInv, CountInv, QuietInv, PhaseInv, OnceInv, Taken, Spent,
                    Undisturbed, H!Ended
<1>5. PipeInv'
  BY <1>0, <1>1, Places DEF PipeInv, Closes, Owner
<1> QED BY <1>2, <1>3, <1>4, <1>5

LEMMA StartCapturingKeeps == IInv /\ StartCapturing => IInv'
<1> SUFFICES ASSUME IInv, StartCapturing PROVE IInv'
  OBVIOUS
<1> USE DEF IInv, StartCapturing, Created, harvestVars
<1>1. \A i \in Commands : /\ cmd[i] \in Command /\ cmd[i].stage = "absent"
                          /\ cmd'[i] \in Command /\ cmd'[i].stage = "starting"
                          /\ cmd'[i].why = cmd[i].why /\ cmd'[i].code = cmd[i].code
                          /\ cmd'[i].cancelled = cmd[i].cancelled
  BY DEF TypeOK, MainInv, CmdInv, Command
<1>2. TypeOK' /\ HarvestType'
  BY <1>1 DEF TypeOK, HarvestType
<1>3. MainInv' /\ CmdInv'
  BY <1>1 DEF MainInv, CmdInv, Over
<1>4. CountInv' /\ QuietInv' /\ PhaseInv' /\ OnceInv'
  BY <1>1 DEF MainInv, CountInv, QuietInv, PhaseInv, OnceInv, Taken, Spent, Undisturbed
<1>5. PipeInv'
  BY <1>1, Places DEF MainInv, PipeInv, Closes, Owner
<1> QED BY <1>2, <1>3, <1>4, <1>5

LEMMA PipeFailsKeeps == IInv /\ PipeFails => IInv'
<1> SUFFICES ASSUME IInv, PipeFails PROVE IInv'
  OBVIOUS
<1> USE DEF IInv, PipeFails, harvestVars
<1>0. /\ run' \in Fields /\ run'.cause = "exc" /\ run'.exit = "exc" /\ run'.entering = TRUE
      /\ run.cause = "none" /\ run.entering = FALSE
  BY DEF TypeOK, MainInv, Fields
<1>1. made' \subseteq Fd /\ <<N - 1, "r">> \notin made'
  BY NAssumption DEF Fd
<1>2. \A f \in Fd : shut'[f] = IF f \in made' THEN 1 ELSE 0
  BY DEF PipeInv, CloseAgain
<1>3. shut' \in [Fd -> 0..2]
  BY <1>2 DEF CloseAgain
<1>4. TypeOK' /\ HarvestType'
  BY <1>0, <1>1, <1>3 DEF TypeOK, HarvestType
<1>5. MainInv' /\ CmdInv'
  BY <1>0 DEF MainInv, CmdInv, Over
<1>6. CountInv' /\ QuietInv' /\ PhaseInv' /\ OnceInv'
  BY <1>0 DEF MainInv, CountInv, QuietInv, PhaseInv, OnceInv, Taken, Spent, Undisturbed
<1>7. PipeInv'
  <2>1. \A i \in Commands : cmd[i].stage = "absent"
    BY DEF MainInv, CmdInv
  <2>2. \A f \in Fd : Owner(f) \in Commands /\ Owner(f)' = Owner(f)
    BY Places DEF Owner
  <2>3. \A f \in Fd : Closes(f)' = 1
    BY <1>0, <2>1, <2>2 DEF Closes
  <2> QED BY <1>1, <1>2, <2>3 DEF MainInv, PipeInv
<1> QED BY <1>4, <1>5, <1>6, <1>7

LEMMA GatheredKeeps == IInv /\ Gathered => IInv'
<1> SUFFICES ASSUME IInv, Gathered PROVE IInv'
  OBVIOUS
<1> USE DEF IInv, Gathered, cmdVars, harvestVars
<1>1. TypeOK' /\ HarvestType'
  BY DEF TypeOK, HarvestType
<1>2. MainInv' /\ CmdInv' /\ PipeInv'
  BY DEF MainInv, CmdInv, Over, PipeInv, Closes
<1>3. CountInv' /\ QuietInv' /\ PhaseInv' /\ OnceInv'
  BY DEF MainInv, CountInv, QuietInv, PhaseInv, OnceInv, Taken, Spent, Undisturbed
<1> QED BY <1>1, <1>2, <1>3

LEMMA GatherCancelledKeeps == IInv /\ GatherCancelled => IInv'
<1> SUFFICES ASSUME IInv, GatherCancelled PROVE IInv'
  OBVIOUS
<1> USE DEF IInv, GatherCancelled
<1>0. Entered("cancelled") /\ run'.entering = TRUE /\ run.entering = FALSE
  BY Enters DEF MainInv
<1> USE DEF Entered
<1>1. \A f \in Fd : shut'[f] = Closes(f)'
  <2> TAKE f \in Fd
  <2>1. made = Fd /\ shut'[f] = shut[f] + 1 /\ shut[f] = Closes(f)
    BY DEF MainInv, PipeInv, CloseAgain
  <2> QED BY <1>0, <2>1 DEF Closes, Owner
<1>2. shut' \in [Fd -> 0..2]
  BY <1>1 DEF Closes, CloseAgain
<1>3. TypeOK' /\ HarvestType'
  BY <1>0, <1>2 DEF TypeOK, HarvestType
<1>4. MainInv' /\ CmdInv'
  BY <1>0 DEF MainInv, CmdInv, Over
<1>5. CountInv' /\ QuietInv' /\ PhaseInv' /\ OnceInv'
  BY <1>0 DEF TypeOK, MainInv, CountInv, QuietInv, PhaseInv, OnceInv, Taken, Spent,
              Undisturbed, H!Ended
<1>6. PipeInv'
  BY <1>0, <1>1 DEF MainInv, PipeInv
<1> QED BY <1>3, <1>4, <1>5, <1>6

LEMMA BodyKeeps == IInv /\ (BodyEnds \/ BodyRaises \/ BodyCancelled) => IInv'
<1> SUFFICES ASSUME IInv, BodyEnds \/ BodyRaises \/ BodyCancelled PROVE IInv'
  OBVIOUS
<1> USE DEF IInv
<1>0. /\ pc = "body" /\ run'.entering = FALSE
      /\ UNCHANGED <<opt, cmd, fut, made, shut, status, cancels>>
      /\ \/ Entered("none") /\ cancelReq' = cancelReq
         \/ Entered("exc") /\ cancelReq' = cancelReq
         \/ Entered("cancelled") /\ cancelReq = TRUE /\ cancelReq' = FALSE
  BY Enters DEF BodyEnds, BodyRaises, BodyCancelled, HarvestType
<1> USE DEF Entered
<1>1. TypeOK' /\ HarvestType'
  BY <1>0 DEF TypeOK, HarvestType
<1>2. MainInv' /\ CmdInv' /\ PipeInv'
  BY <1>0 DEF MainInv, CmdInv, Over, PipeInv, Closes
<1>3. CountInv' /\ QuietInv' /\ PhaseInv' /\ OnceInv'
  BY <1>0 DEF TypeOK, MainInv, CountInv, QuietInv, PhaseInv, OnceInv, Taken, Spent,
              Undisturbed, H!Ended
<1> QED BY <1>1, <1>2, <1>3

----------------------------------------------------------------------------
(* The harvest.                                                            *)

\* A step of the harvest changes nothing but the harvest and req.
HarvestFrame ==
  /\ pc = "harvest" /\ call.tasks = Commands /\ call.api # "harvest"
  /\ phase # "over" /\ phase' # "idle"
  /\ req' \subseteq req \cup H!Running(Commands)
  /\ req' = req \/ phase = "wait" \/ phase' = "over"
  /\ UNCHANGED <<opt, pc, run, cmd, fut, made, shut, status, call, cancels>>

LEMMA HarvestFrames == IInv /\ HarvestStep => HarvestFrame
<1> SUFFICES ASSUME IInv, HarvestStep PROVE HarvestFrame
  OBVIOUS
<1>0. call.tasks = Commands /\ call.api # "harvest" /\ pc = "harvest"
  BY DEF IInv, HarvestType, HarvestCall, HarvestStep
<1> USE DEF H!taskVars, H!history, H!End, H!Settle
<1>1. CASE H!CancelledInWait \/ H!CancelledInRetry
  BY <1>0, <1>1 DEF HarvestStep, HarvestFrame, H!CancelledInWait, H!CancelledInRetry,
                    H!Running
<1>2. CASE H!CancelledInSettle
  BY <1>0, <1>2 DEF HarvestStep, HarvestFrame, H!CancelledInSettle, IInv, PhaseInv
<1>3. CASE H!WaitCompletes \/ H!WaitLeavesPending
  BY <1>0, <1>3 DEF HarvestStep, HarvestFrame, H!WaitCompletes, H!WaitLeavesPending,
                    H!Running
<1>4. CASE H!Settled \/ H!SettleGivesUp
  BY <1>0, <1>4 DEF HarvestStep, HarvestFrame, H!Settled, H!SettleGivesUp, H!Running
<1> QED BY <1>1, <1>2, <1>3, <1>4 DEF HarvestStep, H!Resume

\* What the frame keeps.
LEMMA FrameKeeps ==
  ASSUME IInv, HarvestFrame, HarvestType', PhaseInv', CountInv',
         phase' \in {"settle", "retry", "over"}
  PROVE  TypeOK' /\ MainInv' /\ CmdInv' /\ PipeInv'
<1> USE DEF IInv, HarvestFrame
<1>1. TypeOK'
  BY DEF TypeOK, H!Running
<1>2. MainInv' /\ CmdInv' /\ PipeInv'
  BY DEF MainInv, CmdInv, Over, PipeInv, Closes
<1> QED BY <1>1, <1>2

\* harvest_wait stops waiting and cancels the tasks.
LEMMA SettleKeeps == IInv /\ HarvestStep /\ phase' = "settle" => IInv'
<1> SUFFICES ASSUME IInv, HarvestStep, phase' = "settle" PROVE IInv'
  OBVIOUS
<1>0. HarvestFrame
  BY HarvestFrames
<1> USE DEF IInv, HarvestFrame
<1>1. /\ phase = "wait" /\ UNCHANGED <<outcome, left>> /\ expired' = FALSE
      /\ asked' = asked \cup H!Running(Commands)
      /\ H!Running(Commands) \subseteq settling' /\ settling' \subseteq Commands
      /\ \/ why' = "cancelled" /\ cancelReq = TRUE /\ cancelReq' = FALSE
         \/ /\ why' = "failed" /\ cancelReq = FALSE /\ cancelReq' = FALSE
            /\ H!FailedIn(Commands, Error) # {}
  <2>1. CASE H!CancelledInWait
    BY <1>0, <2>1 DEF HarvestType, HarvestCall, H!CancelledInWait, H!Settle, H!Running
  <2>2. CASE H!WaitLeavesPending
    BY <1>0, <2>2 DEF HarvestType, PhaseInv, H!WaitLeavesPending, H!WaitOver, H!Settle,
                      H!Running
  <2>3. ~H!WaitCompletes /\ ~H!CancelledInSettle /\ ~H!CancelledInRetry
    BY DEF H!WaitCompletes, H!CancelledInSettle, H!CancelledInRetry, H!End
  <2>4. ~H!Settled /\ ~H!SettleGivesUp
    BY DEF H!Settled, H!SettleGivesUp, H!End
  <2> QED BY <2>1, <2>2, <2>3, <2>4 DEF HarvestStep, H!Resume
<1>2. HarvestType'
  BY <1>0, <1>1 DEF HarvestType, H!Running
<1>3. CountInv' /\ QuietInv'
  BY <1>0, <1>1 DEF TypeOK, CountInv, Taken, Spent, QuietInv, Undisturbed
<1>4. ASSUME run.cause = "none", why' = "failed"
      PROVE  \E i \in Commands : Broken(i)'
  <2>1. PICK i \in Commands : status[i] \in Error
    BY <1>1, <1>4 DEF H!FailedIn
  <2>2. cmd[i].cancelled = TRUE => cmd[i].why = "timeout"
    BY <1>1, <1>4 DEF QuietInv, Undisturbed
  <2>3. Over(i) /\ cmd[i].cancelled \in BOOLEAN
    BY <2>1 DEF CmdInv, Error, TypeOK, Command
  <2> QED BY <1>0, <2>1, <2>2, <2>3 DEF Broken, Over, Error
<1>5. PhaseInv'
  BY <1>0, <1>1, <1>4 DEF PhaseInv, H!Running
<1>6. OnceInv'
  BY <1>0, <1>1 DEF TypeOK, Fields, MainInv, QuietInv, Undisturbed, OnceInv, H!Running
<1> QED BY <1>0, <1>2, <1>3, <1>5, <1>6, FrameKeeps

\* _cancel_wait is cancelled itself.
LEMMA RetryKeeps == IInv /\ HarvestStep /\ phase' = "retry" => IInv'
<1> SUFFICES ASSUME IInv, HarvestStep, phase' = "retry" PROVE IInv'
  OBVIOUS
<1>0. HarvestFrame
  BY HarvestFrames
<1> USE DEF IInv, HarvestFrame
<1>1. /\ phase = "settle" /\ UNCHANGED <<why, settling, outcome, left, asked, req>>
      /\ expired' = FALSE /\ cancelReq = TRUE /\ cancelReq' = FALSE
  <2>1. CASE H!CancelledInSettle
    BY <1>0, <2>1 DEF HarvestType, H!CancelledInSettle, H!taskVars
  <2>2. ~H!CancelledInWait /\ ~H!WaitLeavesPending
    BY DEF H!CancelledInWait, H!WaitLeavesPending, H!Settle
  <2>3. ~H!WaitCompletes /\ ~H!CancelledInRetry /\ ~H!Settled /\ ~H!SettleGivesUp
    BY DEF H!WaitCompletes, H!CancelledInRetry, H!Settled, H!SettleGivesUp, H!End
  <2> QED BY <2>1, <2>2, <2>3 DEF HarvestStep, H!Resume
<1>2. HarvestType'
  BY <1>0, <1>1 DEF HarvestType
<1>3. CountInv' /\ QuietInv'
  BY <1>0, <1>1 DEF TypeOK, CountInv, Taken, Spent, QuietInv, Undisturbed, PhaseInv
<1>4. PhaseInv' /\ OnceInv'
  BY <1>0, <1>1 DEF PhaseInv, OnceInv, Broken, Over, H!Running
<1> QED BY <1>0, <1>2, <1>3, <1>4, FrameKeeps

\* harvest_results ends.
LEMMA OverKeeps == IInv /\ HarvestStep /\ phase' = "over" => IInv'
<1> SUFFICES ASSUME IInv, HarvestStep, phase' = "over" PROVE IInv'
  OBVIOUS
<1>0. HarvestFrame
  BY HarvestFrames
<1> USE DEF IInv, HarvestFrame, HarvestStep
<1>1. PICK how \in {"completed", "cancelled", "runtime"} :
        /\ outcome' = H!ResultsEnd(how) /\ left' = H!Running(Commands)
        /\ settling' = settling /\ expired' = expired
        /\ asked' \subseteq asked \cup Commands
        /\ \/ /\ phase = "wait" /\ how = "completed" /\ why' = "completed"
              /\ H!Running(Commands) = {}
              /\ UNCHANGED cancelReq /\ req' = req
           \/ /\ phase = "retry" /\ how = "cancelled" /\ why' = why
              /\ cancelReq = TRUE /\ cancelReq' = FALSE
           \/ /\ phase \in {"settle", "retry"} /\ why' = why /\ H!Running(Commands) = {}
              /\ how = (IF why = "failed" THEN "completed" ELSE why)
              /\ UNCHANGED cancelReq
           \/ /\ phase \in {"settle", "retry"} /\ why' = why /\ how = "runtime"
              /\ expired = TRUE /\ UNCHANGED cancelReq
  <2> USE DEF H!End, H!taskVars
  <2>1. CASE H!WaitCompletes
    BY <1>0, <2>1 DEF H!WaitCompletes
  <2>2. CASE H!CancelledInRetry
    BY <1>0, <2>2 DEF HarvestType, H!CancelledInRetry
  <2>3. CASE H!Settled
    BY <1>0, <2>3 DEF H!Settled, PhaseInv, H!Running
  <2>4. CASE H!SettleGivesUp
    BY <1>0, <2>4 DEF HarvestType, H!SettleGivesUp, H!SettleOver, H!Running
  <2>5. ~H!CancelledInWait /\ ~H!WaitLeavesPending /\ ~H!CancelledInSettle
    BY DEF H!CancelledInWait, H!WaitLeavesPending, H!CancelledInSettle, H!Settle
  <2> QED BY <2>1, <2>2, <2>3, <2>4, <2>5 DEF H!Resume
<1>2. HarvestType'
  BY <1>0, <1>1 DEF HarvestType, PhaseInv, H!Running
<1>3. LET e == H!ResultsEnd(how)
      IN  /\ e.kind \in {"results", "cancelled_results", "raise", "runtime",
                         "invalid_state"}
          /\ e.kind = "runtime" => how = "runtime"
          /\ e.kind = "results" => /\ how = "completed" /\ H!Running(Commands) = {}
                                   /\ \A i \in Commands : status[i] # "fatal"
  BY ResultsEnds
<1>4. how = "runtime" => outcome'.kind = "runtime"
  BY <1>1 DEF H!ResultsEnd, H!Ended
<1>5. CountInv'
  BY <1>0, <1>1, <1>4 DEF TypeOK, HarvestType, CountInv, PhaseInv, Taken, Spent
<1>6. QuietInv'
  BY <1>0, <1>1 DEF QuietInv, PhaseInv, Undisturbed
<1>7. PhaseInv'
  BY <1>0, <1>1, <1>3 DEF PhaseInv, Broken, Over, H!Running
<1>8. OnceInv'
  BY <1>0, <1>1 DEF OnceInv
<1> QED BY <1>0, <1>2, <1>5, <1>6, <1>7, <1>8, FrameKeeps

\* The `async with` ends.
LEMMA WaitEndsKeeps == IInv /\ WaitEnds => IInv'
<1> SUFFICES ASSUME IInv, WaitEnds PROVE IInv'
  OBVIOUS
<1> USE DEF IInv, WaitEnds, WaitOver, Finished, cmdVars, harvestVars
<1>1. /\ run' \in Fields /\ run'.cause = run.cause /\ run'.kill = run.kill
      /\ run'.entering = run.entering /\ run'.exit = ExitOf(run')
      /\ outcome.kind = "cancelled_results" => run'.cancelled = TRUE
  BY DEF TypeOK, Fields, PhaseInv, ExitOf
<1>2. TypeOK' /\ HarvestType'
  BY <1>1 DEF TypeOK, HarvestType
<1>3. MainInv' /\ CmdInv' /\ PipeInv'
  BY <1>1 DEF MainInv, ExitOf, CmdInv, Over, PipeInv, Closes
<1>4. CountInv' /\ QuietInv' /\ PhaseInv' /\ OnceInv'
  BY <1>1 DEF CountInv, Taken, Spent, QuietInv, Undisturbed, PhaseInv, Broken, Over, OnceInv,
              H!Running
<1> QED BY <1>2, <1>3, <1>4

----------------------------------------------------------------------------
(* The invariant.                                                          *)

LEMMA Steps == IInv /\ [Next]_vars => IInv'
<1> SUFFICES ASSUME IInv, [Next]_vars PROVE IInv'
  OBVIOUS
<1>1. CASE Start \/ StartCapturing \/ PipeFails
  BY <1>1, StartKeeps, StartCapturingKeeps, PipeFailsKeeps
<1>2. CASE Gathered \/ GatherCancelled
  BY <1>2, GatheredKeeps, GatherCancelledKeeps
<1>3. CASE Body \/ BodyCancelled
  BY <1>3, BodyKeeps DEF Body
<1>4. CASE HarvestStep
  <2>1. phase' \in {"settle", "retry", "over"}
    BY <1>4 DEF HarvestStep, H!Resume, H!CancelledInWait, H!WaitCompletes,
       H!WaitLeavesPending, H!CancelledInSettle, H!CancelledInRetry, H!Settled,
       H!SettleGivesUp, H!Settle, H!End
  <2> QED BY <1>4, <2>1, SettleKeeps, RetryKeeps, OverKeeps
<1>5. CASE WaitEnds
  BY <1>5, WaitEndsKeeps
<1>6. CASE HarvestTimer \/ Cancel
  BY <1>6, HarvestTimerKeeps, CancelKeeps
<1>7. CASE \E i \in Commands : CommandStep(i)
  BY <1>7, CommandKeeps
<1>8. CASE UNCHANGED vars
  BY <1>8, StutterKeeps
<1> QED
  BY <1>1, <1>2, <1>3, <1>4, <1>5, <1>6, <1>7, <1>8 DEF Next, Main, Stopped, Hung

THEOREM Invariance == Spec => []IInv
<1>1. Init => IInv
  BY Starts
<1>2. IInv /\ [Next]_vars => IInv'
  BY Steps
<1> QED
  BY <1>1, <1>2, PTL DEF Spec

\* The types of all the variables.
THEOREM TypeCorrect == Spec => []TypeOK
<1>1. IInv => TypeOK
  BY DEF IInv
<1> QED BY <1>1, Invariance, PTL

\* A pipeline leaves a command behind only after cancel_timeout, or when its caller is
\* cancelled again and again.
THEOREM LeavesNoCommand == Spec => []NoCommandLeft
<1>1. IInv => NoCommandLeft
  <2> SUFFICES ASSUME IInv, pc = "done", made = Fd, NEW i \in Commands,
                      cmd[i].stage # "over"
               PROVE  \/ run.exit = "runtime" /\ expired
                      \/ cancels >= IF run.cause = "cancelled" THEN 3 ELSE 2
    BY DEF NoCommandLeft
  <2>1. phase = "over"
    BY NAssumption DEF IInv, MainInv, PipeInv, Fd
  <2>2. i \in left
    BY <2>1 DEF IInv, CmdInv, Over, PhaseInv, H!Running
  <2>3. CASE outcome.kind = "runtime"
    BY <2>1, <2>3 DEF IInv, MainInv, ExitOf, PhaseInv
  <2>4. CASE outcome.kind # "runtime"
    BY <2>1, <2>2, <2>4 DEF IInv, TypeOK, CountInv, Taken
  <2> QED BY <2>3, <2>4
<1> QED BY <1>1, Invariance, PTL

\* Each end of a pipe is closed by the command that owns it, and again only by a
\* _start that fails.
THEOREM ClosesPipes == Spec => []PipesClosed
<1>1. IInv => PipesClosed
  <2> SUFFICES ASSUME IInv, pc = "done", left = {}, NEW f \in made
               PROVE  shut[f] = 1 \/ (run.entering /\ shut[f] = 2)
    BY DEF PipesClosed
  <2>1. f \in Fd /\ shut[f] = Closes(f) /\ Owner(f) \in Commands
    BY Places DEF IInv, TypeOK, PipeInv
  <2>2. CASE phase = "idle"
    BY <2>1, <2>2 DEF IInv, MainInv, CmdInv, Closes
  <2>3. CASE phase = "over"
    <3>1. cmd[Owner(f)].stage = "over"
      BY <2>1, <2>3 DEF IInv, CmdInv, Over, PhaseInv, H!Running
    <3> QED BY <2>1, <3>1 DEF Closes, IInv, TypeOK, Fields
  <2> QED BY <2>2, <2>3 DEF IInv, MainInv
<1> QED BY <1>1, Invariance, PTL

\* A body that raises leaves no trace in the result only if the run was cancelled.
THEOREM TellsBodyFailure == Spec => []BodyFailureTold
<1>1. IInv => BodyFailureTold
  BY DEF IInv, MainInv, PhaseInv, TypeOK, Fields, ExitOf, BodyFailureTold
<1> QED BY <1>1, Invariance, PTL

\* A command that the pipeline has cancelled is cancelled again, and so loses its grace
\* period, only if the pipeline is killed.
THEOREM KeepsGrace == Spec => GraceKept
<1> DEFINE Keeping == \A i \in req : /\ cmd[i].stage = "stopping" /\ cmd[i].why = "cancel"
                                     /\ cmd'[i].stage = "killing"
                                     => run.kill
<1>1. IInv /\ [Next]_vars => [Keeping]_vars
  <2> SUFFICES ASSUME IInv, [Next]_vars, NEW i \in req, cmd[i].why = "cancel",
                      cmd[i].stage = "stopping", cmd'[i].stage = "killing"
               PROVE  run.kill
    OBVIOUS
  <2>1. i \in Commands /\ run.kill \in BOOLEAN
    BY DEF IInv, TypeOK, Fields
  <2>2. CASE phase # "over"
    BY <2>1, <2>2 DEF IInv, OnceInv
  <2>3. CASE phase = "over"
    <3>1. \A j \in Commands : ~CommandStep(j)
      BY <2>3 DEF CommandStep, Launched, LaunchFails, Exits, Breaks, Delivered, GraceOver,
                  Stops, At, Suspended
    <3>2. pc # "new"
      BY <2>3 DEF IInv, MainInv
    <3>3. cmd' = cmd
      BY <3>1, <3>2 DEF Next, Main, Start, StartCapturing, PipeFails, Gathered,
         GatherCancelled, BodyCancelled, HarvestStep, WaitEnds, Finished, Body, BodyEnds,
         BodyRaises, HarvestTimer, Cancel, Stopped, Hung, cmdVars, vars
    <3> QED BY <3>3
  <2> QED BY <2>2, <2>3
<1>2. QED
  BY <1>1, Invariance, PTL DEF Spec, GraceKept

----------------------------------------------------------------------------
(* The result that _find_key_result picks.                                 *)

NatLess == {ss \in Nat \X Nat : ss[1] < ss[2]}

\* A set of numbers has a least one: what is false of some place of a list is false of a
\* first place.
LEMMA Least == ASSUME NEW S, S \subseteq Nat, S # {}
               PROVE  \E n \in S : \A m \in S : n <= m
<1>1. IsWellFoundedOn(NatLess, Nat)
  BY NatLessThanWellFounded, Zenon DEF NatLess, OpToRel
<1>2. PICK n \in S : \A m \in S : ~ (<<m, n>> \in NatLess)
  BY <1>1, WFMin
<1>3. ASSUME NEW m \in S PROVE n <= m
  <2> DEFINE ss == <<m, n>>
  <2>1. m < n => ss \in Nat \X Nat /\ ss[1] < ss[2]
    OBVIOUS
  <2>2. m < n => ss \in NatLess
    BY <2>1 DEF NatLess
  <2> QED BY <2>2, <1>2
<1> QED BY <1>3

\* KeyPlace is defined: a walk over n results exists for every n.
LEMMA KeyPlaceWalk ==
  \A i \in Commands :
    KeyPlace[i] = IF i = 1 THEN 1
                  ELSE IF Keeps(cmd[KeyPlace[i - 1]], cmd[i]) THEN KeyPlace[i - 1] ELSE i
<1> DEFINE walk(g, n) ==
      g = [i \in 1..n |-> IF i = 1 THEN 1
                          ELSE IF Keeps(cmd[g[i - 1]], cmd[i]) THEN g[i - 1] ELSE i]
           stuck == {n \in Nat \ {0} : ~\E g : walk(g, n)}
<1>0. /\ stuck \subseteq Nat \ {0}
      /\ \A n \in Nat \ {0} : n \notin stuck => \E g : walk(g, n)
      /\ \A n \in stuck : ~\E g : walk(g, n)
  OBVIOUS
<1> HIDE DEF walk, stuck
<1>1. stuck = {}
  <2> SUFFICES ASSUME stuck # {} PROVE FALSE
    OBVIOUS
  <2>1. PICK n \in stuck : \A m \in stuck : n <= m
    <3>1. stuck \subseteq Nat
      BY <1>0
    <3> QED BY <3>1, Least
  <2>2. CASE n = 1
    <3>1. walk([i \in 1..1 |-> 1], 1)
      BY DEF walk
    <3> QED BY <1>0, <2>1, <2>2, <3>1
  <2>3. CASE n # 1
    <3>1. n - 1 \in Nat \ {0} /\ n - 1 \notin stuck /\ n \in Nat \ {0, 1}
      <4>1. n \in Nat \ {0, 1}
        BY <1>0, <2>1, <2>3
      <4>2. n - 1 \in Nat \ {0} /\ ~(n <= n - 1)
        BY <4>1
      <4> QED BY <2>1, <4>1, <4>2
    <3>2. PICK g : walk(g, n - 1)
      BY <1>0, <3>1
    <3> DEFINE last == IF Keeps(cmd[g[n - 1]], cmd[n]) THEN g[n - 1] ELSE n
               h == [i \in 1..n |-> IF i = n THEN last ELSE g[i]]
    <3>3. \A i \in 1..(n - 1) : h[i] = g[i]
      BY <3>1
    <3>4. \A i \in 1..(n - 1) :
            g[i] = IF i = 1 THEN 1
                   ELSE IF Keeps(cmd[g[i - 1]], cmd[i]) THEN g[i - 1] ELSE i
      BY <3>2 DEF walk
    <3>5. h[n] = last
      BY <3>1
    <3> HIDE DEF h
    <3>6. ASSUME NEW i \in 1..n
          PROVE  h[i] = IF i = 1 THEN 1
                        ELSE IF Keeps(cmd[h[i - 1]], cmd[i]) THEN h[i - 1] ELSE i
      BY <3>1, <3>3, <3>4, <3>5
    <3>7. walk(h, n)
      BY <3>6 DEF h, walk
    <3> QED BY <1>0, <2>1, <3>7
  <2> QED BY <2>2, <2>3
<1>2. PICK g : walk(g, N)
  <2>1. N \in Nat \ {0} /\ N \notin stuck
    BY <1>1, NAssumption
  <2> QED BY <1>0, <2>1
<1>3. KeyPlace = [i \in Commands |->
                    IF i = 1 THEN 1
                    ELSE IF Keeps(cmd[KeyPlace[i - 1]], cmd[i]) THEN KeyPlace[i - 1] ELSE i]
  BY <1>2 DEF KeyPlace, Commands, walk
<1> QED BY <1>3

\* The walk stays where it is once it has met a command that failed by itself.
LEMMA KeyFails ==
  /\ KeyPlace[N] \in Commands
  /\ (\E i \in Commands : Failed(cmd[i])) => Failed(KeyResult)
<1> DEFINE right(i) == /\ KeyPlace[i] \in 1..i
                       /\ (\E j \in 1..i : Failed(cmd[j])) => Failed(cmd[KeyPlace[i]])
           wrong == {i \in Commands : ~right(i)}
<1>1. wrong = {}
  <2> SUFFICES ASSUME wrong # {} PROVE FALSE
    OBVIOUS
  <2>1. PICK i \in wrong : \A j \in wrong : i <= j
    <3>1. wrong \subseteq Nat
      BY Places
    <3> QED BY <3>1, Least
  <2>2. CASE i = 1
    BY <2>1, <2>2, KeyPlaceWalk
  <2>3. CASE i # 1
    <3>1. i \in Commands /\ i - 1 \in Commands /\ i \in Nat
      BY <2>1, <2>3, NAssumption DEF Commands
    <3>2. right(i - 1)
      BY <2>1, <3>1
    <3>3. KeyPlace[i] = IF Keeps(cmd[KeyPlace[i - 1]], cmd[i]) THEN KeyPlace[i - 1] ELSE i
      BY <2>3, <3>1, KeyPlaceWalk
    <3>4. KeyPlace[i] \in 1..i
      BY <3>1, <3>2, <3>3
    <3>5. ASSUME NEW j \in 1..i, Failed(cmd[j]) PROVE Failed(cmd[KeyPlace[i]])
      <4>1. CASE Failed(cmd[KeyPlace[i - 1]])
        BY <3>3, <4>1 DEF Keeps
      <4>2. CASE ~Failed(cmd[KeyPlace[i - 1]])
        <5>1. j = i
          BY <3>1, <3>2, <3>5, <4>2
        <5> QED BY <3>3, <3>5, <4>2, <5>1 DEF Keeps, Failed
      <4> QED BY <4>1, <4>2
    <3> QED BY <2>1, <3>4, <3>5
  <2> QED BY <2>2, <2>3
<1> QED BY <1>1, Places DEF KeyResult, Commands

\* What an exit code of 0 says of a run that nobody interrupted.
LEMMA ZeroFacts ==
  ASSUME IInv, pc = "done", run.exit = "normal", Verdict # "exc", ~run.cancelled,
         \A i \in Commands : cmd[i].why # "timeout", Reported = 0
  PROVE  /\ \A i \in Commands : cmd[i].code = 0 /\ cmd[i].cancelled = FALSE
         /\ Undisturbed
<1> USE DEF IInv
<1>1. phase = "over" /\ run.cause = "none" /\ outcome.kind = "results"
  BY DEF MainInv, PhaseInv, ExitOf, TypeOK, Fields
<1>2. \A i \in Commands :
        /\ Over(i) /\ status[i] \in {"ok", "result_error"}
        /\ cmd[i].code \in {0, 1} /\ cmd[i].cancelled \in BOOLEAN
  BY <1>1 DEF PhaseInv, CmdInv, H!Running, Verdict, TypeOK, Error, Command
<1>3. \A i \in Commands : ~Failed(cmd[i])
  BY KeyFails DEF Reported, Failed
<1>4. why # "failed"
  <2> SUFFICES ASSUME why = "failed" PROVE FALSE
    OBVIOUS
  <2>1. PICK i \in Commands : Broken(i)
    BY <1>1 DEF PhaseInv
  <2>2. status[i] = "result_error" /\ cmd[i].cancelled = FALSE
    BY <1>2, <2>1 DEF Broken
  <2>3. cmd[i].code = 1
    BY <1>2, <2>2 DEF CmdInv
  <2> QED BY <1>3, <2>2, <2>3 DEF Failed
<1>5. Undisturbed
  BY <1>1, <1>4 DEF Undisturbed, PhaseInv, HarvestType
<1>6. \A i \in Commands : cmd[i].cancelled = FALSE
  BY <1>2, <1>5 DEF QuietInv
<1> QED BY <1>2, <1>3, <1>5, <1>6 DEF Failed

\* The exit code 0 is reported only if every command has exited with 0 by itself, as long
\* as no command was stopped by its timeout.
THEOREM ZeroIsTrue == Spec => []ZeroMeansAllZero
<1>1. IInv => ZeroMeansAllZero
  BY ZeroFacts DEF ZeroMeansAllZero
<1> QED BY <1>1, Invariance, PTL

\* A cancellation of the caller that the pipeline received is never answered by a success
\* with exit code 0, with .result or without, as long as no command was stopped by its
\* timeout.
THEOREM NoSuccessWhenCancelled == Spec => []CancelNeverSuccess
<1>1. IInv => CancelNeverSuccess
  <2> SUFFICES ASSUME IInv, pc = "done", run.exit = "normal", Verdict = "success",
                      Reported = 0, \A i \in Commands : cmd[i].why # "timeout"
               PROVE  Received = 0
    BY DEF CancelNeverSuccess
  <2>1. Verdict # "exc" /\ ~run.cancelled
    BY DEF Verdict
  <2>2. cancels = IF cancelReq THEN 1 ELSE 0
    BY <2>1, ZeroFacts DEF IInv, QuietInv
  <2> QED BY <2>2 DEF Received
<1> QED BY <1>1, Invariance, PTL

=============================================================================
