\* An awaited pipeline of two commands, of which the first has a timeout.
CONSTANTS
  N = 2
  Options <- TimedOptions
  MaxCancels = 0
SPECIFICATION Spec
INVARIANT TimeoutReported
