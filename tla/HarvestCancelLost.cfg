\* A plain harvest with a timeout, cancelled once.
CONSTANTS
  Task = {1}
  Error = {"exc", "fatal"}
  Fatal = {"fatal"}
  Calls <- TimedHarvestCalls
  MaxCancels = 1
SPECIFICATION Spec
INVARIANT CancelRaisesCancelled
