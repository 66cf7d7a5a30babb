\* A plain harvest of two tasks that is never cancelled.
CONSTANTS
  Task = {1, 2}
  Error = {"exc", "fatal"}
  Fatal = {"fatal"}
  Calls <- HarvestCalls
  MaxCancels = 0
SPECIFICATION Spec
INVARIANT RaisesFirstSeen
