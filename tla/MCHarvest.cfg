\* All kinds of call with three tasks, and up to three cancellations: one more
\* than the call can take before it gives up.
CONSTANTS
  Task = {1, 2, 3}
  Error = {"exc", "fatal"}
  Fatal = {"fatal"}
  Calls <- AllCalls
  MaxCancels = 3
SPECIFICATION FairSpec
INVARIANTS
  TypeOK
  JoinedUnlessBroken
  LeavesOnlyWhenForced
  FailureSurfaces
  CancelsOnlyWithReason
  CancelFinishSpares
  WaitCancelReported
PROPERTIES
  CallEnds
  PromiseKept
