--------------------------- MODULE HarvestProofs ---------------------------
(***************************************************************************)
(* Theorems about Harvest: its safety properties for every list of tasks,  *)
(* every set of exceptions, every set of calls and any number of           *)
(* cancellations, and that it implements HarvestPromise.                   *)
(***************************************************************************)
EXTENDS Harvest, WellFoundedInduction, TLAPS

----------------------------------------------------------------------------
(* The inductive invariant.                                                *)

Settling == phase \in {"settle", "retry"}

\* What is known while the first asyncio.wait is pending.
WaitInv ==
  phase = "wait" =>
    /\ asked = {} /\ left = {} /\ settling = {}
    /\ why = "none" /\ outcome.kind = "none"
    /\ expired => call.timed
    /\ FailedIn(call.tasks, Error) \subseteq own

\* Whoever is still running is waited for, and has been asked to end unless the
\* call was cancelled with cancel_finish.
SettleInv ==
  Settling =>
    /\ Running(call.tasks) \subseteq settling
    /\ left = {} /\ outcome.kind = "none"
    /\ why \in {"failed", "timeout", "cancelled"}
    /\ call.finish /\ why = "cancelled" => asked = {}
    /\ why # "cancelled" => Running(call.tasks) \subseteq asked
    /\ why = "timeout" => own = {} /\ call.timed
    /\ why = "failed" => own # {}

\* How many cancellations it takes to get where the call is.
CancelInv ==
  /\ phase = "wait" /\ cancelReq => cancels >= 1
  /\ phase = "settle" =>
       /\ cancels >= IF why = "cancelled" THEN 1 ELSE 0
       /\ cancelReq => cancels >= IF why = "cancelled" THEN 2 ELSE 1
  /\ phase = "retry" =>
       /\ cancels >= IF why = "cancelled" THEN 2 ELSE 1
       /\ cancelReq => cancels >= IF why = "cancelled" THEN 3 ELSE 2

OverInv ==
  phase = "over" =>
    /\ Running(call.tasks) \subseteq left
    /\ outcome.kind # "none" /\ why # "none"
    /\ why = "completed" => left = {}

OwnInv == own \subseteq FailedIn(call.tasks, Error)

SafetyInv ==
  /\ JoinedUnlessBroken /\ LeavesOnlyWhenForced /\ FailureSurfaces
  /\ CancelsOnlyWithReason /\ CancelFinishSpares /\ WaitCancelReported

IInv ==
  /\ TypeOK /\ WaitInv /\ SettleInv /\ CancelInv /\ OverInv /\ OwnInv
  /\ SafetyInv

----------------------------------------------------------------------------
(* Lemmas about the operators.                                             *)

NatLess == {ss \in Nat \X Nat : ss[1] < ss[2]}

\* First(S), the place of the first task of S in the list of harvest's
\* arguments, is a task of S.
LEMMA FirstIn == ASSUME NEW S, S \subseteq Nat, S # {} PROVE First(S) \in S
<1>1. IsWellFoundedOn(NatLess, Nat)
  BY NatLessThanWellFounded, Zenon DEF NatLess, OpToRel
<1>2. PICK x \in S : \A y \in S : ~ (<<y, x>> \in NatLess)
  BY <1>1, WFMin
<1>3. \A y \in S : x <= y
  <2> TAKE y \in S
  <2>1. x \in Nat /\ y \in Nat
    OBVIOUS
  <2>2. ~ (y < x)
    <3> SUFFICES ASSUME y < x PROVE FALSE
      OBVIOUS
    <3> DEFINE ss == <<y, x>>
    <3>1. ss \in Nat \X Nat /\ ss[1] < ss[2]
      BY <2>1
    <3>2. ss \in NatLess
      BY <3>1 DEF NatLess
    <3> QED
      BY <3>2, <1>2
  <2> QED
    BY <2>1, <2>2
<1> QED
  BY <1>3 DEF First

How == {"completed", "timeout", "cancelled", "runtime"}
CallEnd(how) == IF call.api = "harvest" THEN HarvestEnd(how) ELSE ResultsEnd(how)

\* What harvest reports at its end (harvest.py:45-47), for every way in which
\* harvest_wait can end.
LEMMA HarvestEndFacts ==
  ASSUME TypeOK, NEW how \in How
  PROVE  LET e == HarvestEnd(how)
         IN  /\ e \in [kind : Kind, task : Task \cup {0}]
             /\ how # "completed" => e.kind = how
             /\ how = "completed" => e.kind \in {"return", "raise"}
             /\ e.kind = "return" => FailedIn(call.tasks, Error) = {}
<1> DEFINE failed == FailedIn(call.tasks, Error)
<1>1. failed \subseteq Task /\ failed \subseteq Nat
  BY TaskAssumption, CallsAssumption DEF TypeOK, Call, FailedIn
<1>2. failed # {} => First(failed) \in Task
  BY <1>1, FirstIn
<1>3. CASE how # "completed"
  BY <1>3 DEF HarvestEnd, How, Ended, Kind
<1>4. CASE how = "completed" /\ failed = {}
  BY <1>4 DEF HarvestEnd, Ended, Kind
<1>5. CASE how = "completed" /\ failed # {}
  <2>1. HarvestEnd(how) = Ended("raise", First(failed))
    BY <1>5 DEF HarvestEnd
  <2> QED
    BY <2>1, <1>2, <1>5 DEF Ended, Kind
<1> QED
  BY <1>3, <1>4, <1>5

\* What harvest_results reports at its end (harvest.py:86-88 and _to_result).
LEMMA ResultsEndFacts ==
  ASSUME TypeOK, NEW how \in How
  PROVE  LET e == ResultsEnd(how)
         IN  /\ e \in [kind : Kind, task : Task \cup {0}]
             /\ how \in {"timeout", "runtime"} => e.kind = how
             /\ how = "completed" =>
                  e.kind \in {"results", "raise", "invalid_state"}
             /\ how = "cancelled" =>
                  e.kind \in {"cancelled_results", "raise", "invalid_state"}
             /\ e.kind \in {"results", "cancelled_results"} =>
                  Running(call.tasks) = {}
             /\ e.kind = "invalid_state" => Running(call.tasks) # {}
<1> DEFINE bad == FailedIn(call.tasks, Fatal) \cup Running(call.tasks)
<1>1. bad \subseteq call.tasks /\ bad \subseteq Task /\ bad \subseteq Nat
  BY TaskAssumption, CallsAssumption DEF TypeOK, Call, FailedIn, Running
<1>2. bad # {} => First(bad) \in bad
  BY <1>1, FirstIn
<1>3. CASE how \in {"timeout", "runtime"}
  BY <1>3 DEF ResultsEnd, How, Ended, Kind
<1>4. CASE how \in {"completed", "cancelled"} /\ bad = {}
  BY <1>4 DEF ResultsEnd, Ended, Kind
<1>5. CASE how \in {"completed", "cancelled"} /\ bad # {}
  <2>1. ResultsEnd(how) = Ended(IF status[First(bad)] = "running"
                                THEN "invalid_state" ELSE "raise", First(bad))
    BY <1>5 DEF ResultsEnd
  <2>2. status[First(bad)] = "running" => First(bad) \in Running(call.tasks)
    BY <1>1, <1>2, <1>5 DEF Running
  <2> QED
    BY <2>1, <2>2, <1>1, <1>2, <1>5 DEF Ended, Kind
<1> QED
  BY <1>3, <1>4, <1>5 DEF How

\* Both, in the form in which the steps that end the call use them.
LEMMA CallEndFacts ==
  ASSUME TypeOK, NEW how \in How
  PROVE  LET e == CallEnd(how)
         IN  /\ e \in [kind : Kind, task : Task \cup {0}]
             /\ e.kind # "none"
             /\ e.kind = "return" =>
                  how = "completed" /\ FailedIn(call.tasks, Error) = {}
             /\ e.kind = "timeout" <=> how = "timeout"
             /\ e.kind = "runtime" <=> how = "runtime"
             /\ e.kind = "results" => how = "completed"
             /\ e.kind \in {"results", "cancelled_results"} =>
                  Running(call.tasks) = {}
             /\ call.api = "harvest" =>
                  /\ how = "cancelled" => e.kind = "cancelled"
                  /\ e.kind = "raise" => how = "completed"
             /\ call.api # "harvest" => e.kind # "cancelled"
             /\ how = "completed" =>
                  e.kind \in {"return", "raise", "results", "invalid_state"}
             /\ how = "cancelled" =>
                  e.kind \in {"cancelled", "cancelled_results", "raise",
                             "invalid_state"}
             /\ e.kind = "invalid_state" => Running(call.tasks) # {}
<1>1. CASE call.api = "harvest"
  BY <1>1, HarvestEndFacts DEF CallEnd, How
<1>2. CASE call.api # "harvest"
  BY <1>2, ResultsEndFacts DEF CallEnd, How
<1> QED
  BY <1>1, <1>2

----------------------------------------------------------------------------
(* The invariant is inductive.                                             *)

LEMMA InitIInv == Init => IInv
<1> SUFFICES ASSUME Init PROVE IInv
  OBVIOUS
<1>1. call \in Call /\ call.tasks \subseteq Task
  BY CallsAssumption DEF Init, Call
<1>2. TypeOK
  <2>1. status \in [Task -> Status]
    BY DEF Init, Status
  <2>2. outcome \in [kind : Kind, task : Task \cup {0}]
    BY DEF Init, Ended, Kind
  <2>3. cancels \in 0..MaxCancels
    BY MaxCancelsAssumption DEF Init
  <2> QED
    BY <1>1, <2>1, <2>2, <2>3 DEF Init, TypeOK, Reason
<1>3. WaitInv /\ SettleInv /\ CancelInv /\ OverInv /\ OwnInv
  BY <1>1, ErrorAssumption
     DEF Init, WaitInv, SettleInv, Settling, CancelInv, OverInv, OwnInv, FailedIn,
         Ended
<1>4. SafetyInv
  BY DEF Init, SafetyInv, JoinedUnlessBroken, LeavesOnlyWhenForced,
         FailureSurfaces, CancelsOnlyWithReason, CancelFinishSpares,
         WaitCancelReported, Ended
<1> QED
  BY <1>2, <1>3, <1>4 DEF IInv

\* The call starts to cancel its tasks.
LEMMA StepCancelledInWait ==
  ASSUME IInv, CancelledInWait PROVE IInv'
<1> USE DEF CancelledInWait, Settle, IInv
<1>1. call \in Call /\ call.tasks \subseteq Task
  BY CallsAssumption DEF TypeOK, Call
<1>2. TypeOK'
  BY <1>1 DEF TypeOK, Reason, history, Running
<1>3. WaitInv' /\ SettleInv' /\ OverInv' /\ OwnInv'
  BY DEF WaitInv, SettleInv, Settling, OverInv, OwnInv, Running, FailedIn, history
<1>4. CancelInv'
  BY MaxCancelsAssumption DEF CancelInv, TypeOK, history
<1>5. SafetyInv'
  BY <1>4, MaxCancelsAssumption
     DEF WaitInv, CancelInv, SafetyInv, JoinedUnlessBroken, LeavesOnlyWhenForced,
         FailureSurfaces, CancelsOnlyWithReason, CancelFinishSpares,
         WaitCancelReported, history, TypeOK
<1> QED
  BY <1>2, <1>3, <1>4, <1>5

LEMMA StepWaitLeavesPending ==
  ASSUME IInv, WaitLeavesPending PROVE IInv'
<1> USE DEF WaitLeavesPending, Settle, IInv
<1>1. call \in Call /\ call.tasks \subseteq Task
  BY CallsAssumption DEF TypeOK, Call
<1>2. TypeOK'
  BY <1>1 DEF TypeOK, Reason, history, Running
<1>3. why' = "timeout" => call.timed /\ own = {}
  BY DEF WaitOver, WaitInv, OwnInv
<1>4. why' = "failed" => own # {}
  BY DEF WaitInv
<1>5. WaitInv' /\ SettleInv' /\ OverInv' /\ OwnInv'
  BY <1>3, <1>4
     DEF WaitInv, SettleInv, Settling, OverInv, OwnInv, Running, FailedIn, history
<1>6. CancelInv'
  BY MaxCancelsAssumption DEF CancelInv, TypeOK, history
<1>7. SafetyInv'
  BY <1>3, <1>4
     DEF WaitInv, SafetyInv, JoinedUnlessBroken, LeavesOnlyWhenForced,
         FailureSurfaces, CancelsOnlyWithReason, CancelFinishSpares,
         WaitCancelReported, history, TypeOK
<1> QED
  BY <1>2, <1>5, <1>6, <1>7

LEMMA StepCancelledInSettle ==
  ASSUME IInv, CancelledInSettle PROVE IInv'
<1> USE DEF CancelledInSettle, IInv
<1>1. TypeOK'
  BY DEF TypeOK, taskVars, history
<1>2. WaitInv' /\ SettleInv' /\ OverInv' /\ OwnInv'
  BY DEF WaitInv, SettleInv, Settling, OverInv, OwnInv, Running, FailedIn, taskVars,
         history
<1>3. CancelInv'
  BY DEF CancelInv, history
<1>4. SafetyInv'
  BY DEF SettleInv, Settling, SafetyInv, JoinedUnlessBroken, LeavesOnlyWhenForced,
         FailureSurfaces, CancelsOnlyWithReason, CancelFinishSpares,
         WaitCancelReported, taskVars, history
<1> QED
  BY <1>1, <1>2, <1>3, <1>4

\* A step that ends the call in the way `how` keeps the invariant, when the tasks
\* left running are accounted for.
LEMMA StepEnd ==
  ASSUME IInv, phase # "over", NEW how \in How, End(how),
         UNCHANGED <<call, settling, expired, status, cancels, own>>,
         why' \in Reason \ {"none"}, cancelReq' \in BOOLEAN,
         asked' \in SUBSET call.tasks,
         how \in {"completed", "timeout"} => Running(call.tasks) = {},
         why' = "completed" => how = "completed",
         why' = "cancelled" => how \in {"cancelled", "runtime"},
         how = "runtime" => expired,
         how = "cancelled" /\ Running(call.tasks) # {} =>
           cancels >= IF why' = "cancelled" THEN 3 ELSE 2,
         how = "timeout" => own = {},
         asked' # {} => cancels > 0 \/ call.timed \/ own # {},
         call.finish /\ why' = "cancelled" /\ how # "runtime" => asked' = {}
  PROVE  IInv'
<1> USE DEF IInv
<1> DEFINE e == CallEnd(how)
<1>1. phase' = "over" /\ outcome' = e /\ left' = Running(call.tasks)
  BY DEF End, CallEnd
<1>2. /\ e \in [kind : Kind, task : Task \cup {0}]
      /\ e.kind # "none"
      /\ e.kind = "return" =>
           how = "completed" /\ FailedIn(call.tasks, Error) = {}
      /\ e.kind = "timeout" <=> how = "timeout"
      /\ e.kind = "runtime" <=> how = "runtime"
      /\ e.kind = "results" => how = "completed"
      /\ e.kind \in {"results", "cancelled_results"} => Running(call.tasks) = {}
      /\ call.api = "harvest" =>
           /\ how = "cancelled" => e.kind = "cancelled"
           /\ e.kind = "raise" => how = "completed"
      /\ call.api # "harvest" => e.kind # "cancelled"
  BY CallEndFacts
<1> HIDE DEF e
<1>3. TypeOK'
  BY <1>1, <1>2 DEF TypeOK, Running
<1>4. WaitInv' /\ SettleInv' /\ CancelInv' /\ OverInv' /\ OwnInv'
  BY <1>1, <1>2
     DEF WaitInv, SettleInv, Settling, CancelInv, OverInv, OwnInv, Running, FailedIn
<1>5. JoinedUnlessBroken'
  <2>1. call.api \in {"harvest", "results"}
    BY CallsAssumption DEF TypeOK, Call
  <2>2. CASE how \in {"completed", "timeout"}
    BY <1>1, <2>2 DEF JoinedUnlessBroken
  <2>3. CASE how \in {"cancelled", "runtime"} /\ call.api = "harvest"
    BY <1>1, <1>2, <2>3 DEF JoinedUnlessBroken
  <2>4. CASE how \in {"cancelled", "runtime"} /\ call.api = "results"
    BY <1>1, <1>2, <2>4 DEF JoinedUnlessBroken, Kind
  <2> QED
    BY <2>1, <2>2, <2>3, <2>4 DEF How
<1>6. LeavesOnlyWhenForced'
  BY <1>1, <1>2 DEF LeavesOnlyWhenForced, How
<1>7. FailureSurfaces'
  BY <1>1, <1>2 DEF FailureSurfaces, OwnInv
<1>8. CancelsOnlyWithReason' /\ CancelFinishSpares'
  BY <1>1, <1>2 DEF CancelsOnlyWithReason, CancelFinishSpares
<1>9. WaitCancelReported'
  BY <1>1, <1>2 DEF WaitCancelReported
<1> QED
  BY <1>3, <1>4, <1>5, <1>6, <1>7, <1>8, <1>9 DEF SafetyInv

LEMMA StepWaitCompletes ==
  ASSUME IInv, WaitCompletes PROVE IInv'
<1> USE DEF WaitCompletes, taskVars, history
<1>1. asked' = {} /\ asked' \in SUBSET call.tasks
  BY DEF IInv, WaitInv
<1>2. cancelReq' \in BOOLEAN /\ "completed" \in How
  BY DEF IInv, TypeOK, How
<1> QED
  BY <1>1, <1>2, StepEnd DEF Reason

LEMMA StepCancelledInRetry ==
  ASSUME IInv, CancelledInRetry PROVE IInv'
<1> USE DEF CancelledInRetry, taskVars, history
<1>1. /\ asked' = asked /\ asked' \in SUBSET call.tasks
      /\ why' \in Reason \ {"none"} /\ why' # "completed"
      /\ cancelReq' \in BOOLEAN /\ "cancelled" \in How
  BY DEF IInv, TypeOK, How, SettleInv, Settling
<1>2. cancels >= IF why' = "cancelled" THEN 3 ELSE 2
  BY DEF IInv, CancelInv
<1>3. /\ asked' # {} => cancels > 0 \/ call.timed \/ own # {}
      /\ call.finish /\ why' = "cancelled" => asked' = {}
  BY DEF IInv, SettleInv, Settling, SafetyInv, CancelsOnlyWithReason
<1> QED
  BY <1>1, <1>2, <1>3, StepEnd

LEMMA StepSettled ==
  ASSUME IInv, Settled PROVE IInv'
<1> USE DEF Settled, taskVars, history
<1> DEFINE how == IF why = "failed" THEN "completed" ELSE why
<1>1. /\ asked' = asked /\ asked' \in SUBSET call.tasks
      /\ why' \in Reason \ {"none"} /\ why' # "completed"
      /\ cancelReq' \in BOOLEAN /\ how \in How
  BY DEF IInv, TypeOK, How, SettleInv, Settling
<1>2. Running(call.tasks) = {}
  BY DEF IInv, SettleInv, Settling, Running
<1>3. /\ asked' # {} => cancels > 0 \/ call.timed \/ own # {}
      /\ call.finish /\ why' = "cancelled" => asked' = {}
      /\ why = "timeout" => own = {}
  BY DEF IInv, SettleInv, Settling, SafetyInv, CancelsOnlyWithReason
<1>4. End(how) /\ phase # "over"
  OBVIOUS
<1>5. /\ how = "timeout" => why = "timeout"
      /\ why' = "cancelled" => how = "cancelled"
      /\ how # "runtime"
  BY DEF IInv, SettleInv, Settling
<1> HIDE DEF how
<1> QED
  BY <1>1, <1>2, <1>3, <1>4, <1>5, StepEnd

LEMMA StepSettleGivesUp ==
  ASSUME IInv, SettleGivesUp PROVE IInv'
<1> USE DEF SettleGivesUp, taskVars, history
<1>1. /\ asked' \in SUBSET call.tasks
      /\ why' \in Reason \ {"none"} /\ why' # "completed"
      /\ cancelReq' \in BOOLEAN /\ "runtime" \in How
  BY DEF IInv, TypeOK, How, SettleInv, Settling, Running
<1>2. expired
  BY DEF SettleOver
<1>3. cancels > 0 \/ call.timed \/ own # {}
  BY MaxCancelsAssumption
     DEF IInv, TypeOK, SettleInv, CancelInv, Settling
<1> QED
  BY <1>1, <1>2, <1>3, StepEnd

LEMMA StepTimer ==
  ASSUME IInv, TimeoutFires \/ CancelTimeoutFires PROVE IInv'
<1> USE DEF TimeoutFires, CancelTimeoutFires, taskVars, history, IInv
<1>1. TypeOK'
  BY DEF TypeOK
<1>2. WaitInv' /\ SettleInv' /\ CancelInv' /\ OverInv' /\ OwnInv'
  BY DEF WaitInv, SettleInv, Settling, CancelInv, OverInv, OwnInv, Running, FailedIn
<1>3. SafetyInv'
  BY DEF SafetyInv, JoinedUnlessBroken, LeavesOnlyWhenForced, FailureSurfaces,
         CancelsOnlyWithReason, CancelFinishSpares, WaitCancelReported, WaitInv,
         SettleInv, Settling
<1> QED
  BY <1>1, <1>2, <1>3

LEMMA StepCancel ==
  ASSUME IInv, Cancel PROVE IInv'
<1> USE DEF Cancel, callVars, taskVars, IInv
<1>1. TypeOK'
  BY MaxCancelsAssumption DEF TypeOK
<1>2. WaitInv' /\ SettleInv' /\ CancelInv' /\ OverInv' /\ OwnInv'
  BY MaxCancelsAssumption
     DEF TypeOK, WaitInv, SettleInv, Settling, CancelInv, OverInv, OwnInv, Running,
         FailedIn
<1>3. SafetyInv'
  BY MaxCancelsAssumption
     DEF TypeOK, SafetyInv, JoinedUnlessBroken, LeavesOnlyWhenForced, FailureSurfaces,
         CancelsOnlyWithReason, CancelFinishSpares, WaitCancelReported, WaitInv,
         SettleInv, Settling
<1> QED
  BY <1>1, <1>2, <1>3

\* A task ends. After a normal end of the call no task is left to end, so no
\* failure can come too late to be reported.
LEMMA StepTaskEnds ==
  ASSUME IInv, NEW t \in Task, NEW s \in Finished, TaskEnds(t, s) PROVE IInv'
<1> USE DEF TaskEnds, callVars, IInv
<1>1. s \in Status /\ s # "running"
  BY ErrorAssumption DEF Status, Finished
<1>2. /\ Running(call.tasks)' = Running(call.tasks) \ {t}
      /\ FailedIn(call.tasks, Error)' =
           FailedIn(call.tasks, Error) \cup (IF s \in Error THEN {t} ELSE {})
  BY <1>1, ErrorAssumption DEF TypeOK, Running, FailedIn
<1>3. t \in Running(call.tasks)
  BY DEF Running
<1>4. TypeOK'
  BY <1>1 DEF TypeOK
<1>5. WaitInv' /\ SettleInv' /\ CancelInv' /\ OverInv' /\ OwnInv'
  BY <1>2, <1>3 DEF WaitInv, SettleInv, Settling, CancelInv, OverInv, OwnInv
<1>6. JoinedUnlessBroken' /\ LeavesOnlyWhenForced' /\ CancelFinishSpares'
        /\ WaitCancelReported' /\ CancelsOnlyWithReason'
  BY DEF SafetyInv, JoinedUnlessBroken, LeavesOnlyWhenForced, CancelFinishSpares,
         WaitCancelReported, CancelsOnlyWithReason
<1>7. FailureSurfaces'
  BY <1>3 DEF SafetyInv, FailureSurfaces, JoinedUnlessBroken, OverInv
<1> QED
  BY <1>4, <1>5, <1>6, <1>7 DEF SafetyInv

LEMMA NextIInv == IInv /\ [Next]_vars => IInv'
<1> SUFFICES ASSUME IInv, [Next]_vars PROVE IInv'
  OBVIOUS
<1>1. CASE Resume
  BY <1>1, StepCancelledInWait, StepWaitCompletes, StepWaitLeavesPending,
     StepCancelledInSettle, StepCancelledInRetry, StepSettled, StepSettleGivesUp
     DEF Resume
<1>2. CASE TimeoutFires \/ CancelTimeoutFires
  BY <1>2, StepTimer
<1>3. CASE \E t \in Task, s \in Finished : TaskEnds(t, s)
  BY <1>3, StepTaskEnds
<1>4. CASE Cancel
  BY <1>4, StepCancel
<1>5. CASE UNCHANGED vars
  BY <1>5
     DEF vars, callVars, taskVars, history, IInv, TypeOK, WaitInv, SettleInv, Settling,
         CancelInv, OverInv, OwnInv, Running, FailedIn, SafetyInv, JoinedUnlessBroken,
         LeavesOnlyWhenForced, FailureSurfaces, CancelsOnlyWithReason,
         CancelFinishSpares, WaitCancelReported
<1> QED
  BY <1>1, <1>2, <1>3, <1>4, <1>5 DEF Next, Stopped

----------------------------------------------------------------------------
(* The theorems.                                                           *)

\* The strengthened invariant holds in every reachable state.
THEOREM Invariant == Spec => []IInv
BY InitIInv, NextIInv, PTL DEF Spec

\* Type correctness.
THEOREM TypeCorrect == Spec => []TypeOK
<1>1. IInv => TypeOK
  BY DEF IInv
<1> QED
  BY <1>1, Invariant, PTL

\* A call that ends normally, with results or with TimeoutError has joined all
\* of its tasks.
THEOREM Joins == Spec => []JoinedUnlessBroken
<1>1. IInv => JoinedUnlessBroken
  BY DEF IInv, SafetyInv
<1> QED
  BY <1>1, Invariant, PTL

\* A call that leaves a task running was forced to, by cancel_timeout or by its caller.
THEOREM LeavesForced == Spec => []LeavesOnlyWhenForced
<1>1. IInv => LeavesOnlyWhenForced
  BY DEF IInv, SafetyInv
<1> QED
  BY <1>1, Invariant, PTL

\* A task's own failure is not hidden by a normal return or a TimeoutError.
THEOREM Surfaces == Spec => []FailureSurfaces
<1>1. IInv => FailureSurfaces
  BY DEF IInv, SafetyInv
<1> QED
  BY <1>1, Invariant, PTL

\* Tasks are cancelled only for a reason.
THEOREM CancelsRightly == Spec => []CancelsOnlyWithReason
<1>1. IInv => CancelsOnlyWithReason
  BY DEF IInv, SafetyInv
<1> QED
  BY <1>1, Invariant, PTL

\* A cancelled harvest with cancel_finish lets its tasks finish.
THEOREM SparesFinishers == Spec => []CancelFinishSpares
<1>1. IInv => CancelFinishSpares
  BY DEF IInv, SafetyInv
<1> QED
  BY <1>1, Invariant, PTL

\* A cancellation delivered in the first wait is reported to the caller.
THEOREM ReportsWaitCancel == Spec => []WaitCancelReported
<1>1. IInv => WaitCancelReported
  BY DEF IInv, SafetyInv
<1> QED
  BY <1>1, Invariant, PTL

----------------------------------------------------------------------------
(* Harvest implements HarvestPromise.                                      *)

LEMMA RefinesInit == Init => Promise!Init
BY CallsAssumption DEF Init, Call, Promise!Init, Ended

\* A step that ends a call which has its verdict joins or breaks the promise.
LEMMA RefinesEnd ==
  ASSUME IInv, Settling, NEW how \in How, End(how),
         UNCHANGED <<call, status, why>>,
         how \in {"completed", "timeout"} => Running(call.tasks) = {},
         how = "completed" => why = "failed",
         how = "timeout" => why = "timeout",
         how = "runtime" => Running(call.tasks) # {}
  PROVE  Promise!Join \/ Promise!Break
<1> DEFINE e == CallEnd(how)
<1>1. /\ phase' = "over" /\ outcome' = e /\ left' = Running(call.tasks)
      /\ phase # "over"
  BY DEF End, CallEnd, Settling
<1>2. /\ e.kind = "return" => FailedIn(call.tasks, Error) = {}
      /\ e.kind = "timeout" <=> how = "timeout"
      /\ e.kind = "runtime" <=> how = "runtime"
      /\ e.kind \in {"results", "cancelled_results"} => Running(call.tasks) = {}
      /\ e.kind = "invalid_state" => Running(call.tasks) # {}
      /\ how = "completed" =>
           e.kind \in {"return", "raise", "results", "invalid_state"}
      /\ how = "cancelled" =>
           e.kind \in {"cancelled", "cancelled_results", "raise", "invalid_state"}
  BY CallEndFacts DEF IInv
<1>3. Promise!Running = Running(call.tasks)
  BY DEF Promise!Running, Running
<1>4. /\ why \in {"failed", "timeout", "cancelled"}
      /\ why = "failed" => FailedIn(call.tasks, Error) # {}
  BY DEF IInv, SettleInv, OwnInv
<1> HIDE DEF e
<1>5. CASE Running(call.tasks) = {}
  <2>1. outcome'.kind \in Promise!JoinedReports(why)
    BY <1>1, <1>2, <1>4, <1>5 DEF Promise!JoinedReports, How
  <2> QED
    BY <1>1, <1>3, <1>4, <1>5, <2>1 DEF Promise!Join
<1>6. CASE Running(call.tasks) # {}
  <2>1. outcome'.kind \in Promise!BrokenReports
    BY <1>1, <1>2, <1>6 DEF Promise!BrokenReports, How
  <2> QED
    BY <1>1, <1>3, <1>4, <1>6, <2>1 DEF Promise!Break
<1> QED
  BY <1>5, <1>6

LEMMA RefinesNext ==
  IInv /\ [Next]_vars => [Promise!Next]_(Promise!vars)
<1> SUFFICES ASSUME IInv, [Next]_vars
             PROVE  Promise!Next \/ UNCHANGED Promise!vars
  OBVIOUS
<1> USE DEF taskVars, history
<1>1. CASE CancelledInWait
  <2>1. Promise!Decide("cancelled")
    BY <1>1 DEF CancelledInWait, Settle, Promise!Decide, IInv, WaitInv
  <2> QED
    BY <2>1 DEF Promise!Next
<1>2. CASE WaitCompletes
  <2>1. /\ phase' = "over" /\ outcome' = CallEnd("completed") /\ left' = {}
        /\ phase = "wait" /\ why = "none" /\ why' = "completed"
    BY <1>2 DEF WaitCompletes, End, CallEnd, IInv, WaitInv
  <2>2. "completed" \in How
    BY DEF How
  <2>3. outcome'.kind \in {"return", "raise", "results"}
    BY <1>2, <2>1, <2>2, CallEndFacts DEF IInv, WaitCompletes
  <2>4. Promise!Complete
    BY <1>2, <2>1, <2>3
       DEF WaitCompletes, Running, Promise!Complete, Promise!Running,
           Promise!JoinedReports
  <2> QED
    BY <2>4 DEF Promise!Next
<1>3. CASE WaitLeavesPending
  <2>1. /\ phase = "wait" /\ why = "none" /\ phase' = "settle"
        /\ UNCHANGED <<call, status, outcome, left>>
    BY <1>3 DEF WaitLeavesPending, Settle, IInv, WaitInv
  <2>2. CASE FailedIn(call.tasks, Error) = {}
    <3>1. Promise!Decide("timeout")
      BY <1>3, <2>1, <2>2 DEF WaitLeavesPending, Settle, FailedIn, Promise!Decide
    <3> QED
      BY <3>1 DEF Promise!Next
  <2>3. CASE FailedIn(call.tasks, Error) # {}
    <3>1. Promise!Decide("failed")
      BY <1>3, <2>1, <2>3 DEF WaitLeavesPending, Settle, FailedIn, Promise!Decide
    <3> QED
      BY <3>1 DEF Promise!Next
  <2> QED
    BY <2>2, <2>3
<1>4. CASE CancelledInSettle
  BY <1>4 DEF CancelledInSettle, Promise!vars
<1>5. CASE CancelledInRetry
  <2>1. "cancelled" \in How
    BY DEF How
  <2> QED
    BY <1>5, <2>1, RefinesEnd DEF CancelledInRetry, Settling, Promise!Next
<1>6. CASE Settled
  <2> DEFINE how == IF why = "failed" THEN "completed" ELSE why
  <2>1. /\ Settling /\ how \in How /\ how # "runtime"
        /\ how = "completed" => why = "failed"
        /\ how = "timeout" => why = "timeout"
        /\ Running(call.tasks) = {}
    BY <1>6 DEF Settled, IInv, SettleInv, Settling, Running, How
  <2>2. End(how)
    BY <1>6 DEF Settled
  <2> HIDE DEF how
  <2> QED
    BY <1>6, <2>1, <2>2, RefinesEnd DEF Settled, Promise!Next
<1>7. CASE SettleGivesUp
  <2>1. "runtime" \in How /\ Running(call.tasks) # {}
    BY <1>7 DEF How, SettleGivesUp, IInv, TypeOK, Running
  <2> QED
    BY <1>7, <2>1, RefinesEnd DEF SettleGivesUp, Settling, Promise!Next
<1>8. CASE TimeoutFires \/ CancelTimeoutFires \/ Cancel
  BY <1>8 DEF TimeoutFires, CancelTimeoutFires, Cancel, callVars, Promise!vars
<1>9. CASE \E t \in Task, s \in Finished : TaskEnds(t, s)
  <2>1. PICK t \in Task, s \in Finished : TaskEnds(t, s)
    BY <1>9
  <2>2. Promise!TaskEnds(t, s)
    BY <2>1 DEF TaskEnds, callVars, Promise!TaskEnds, Promise!Running
  <2>3. s \in Promise!Finished
    BY DEF Finished, Promise!Finished
  <2> QED
    BY <2>2, <2>3 DEF Promise!Next
<1>10. CASE UNCHANGED vars
  BY <1>10 DEF vars, callVars, Promise!vars
<1> QED
  BY <1>1, <1>2, <1>3, <1>4, <1>5, <1>6, <1>7, <1>8, <1>9, <1>10
     DEF Next, Resume, Stopped

\* Every call keeps its promise: whatever the timers, the retry and the
\* cancellations do, its caller sees one verdict, then a joined end or a broken
\* one that is reported as such.
THEOREM KeepsPromise == Spec => PromiseKept
<1>1. IInv /\ [Next]_vars => [Promise!Next]_(Promise!vars)
  BY RefinesNext
<1> QED
  BY <1>1, RefinesInit, Invariant, PTL DEF Spec, PromiseKept, Promise!Spec

============================================================================
