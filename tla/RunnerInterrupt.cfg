\* A command without options that is never cancelled.
CONSTANTS
  Helper = {5}
  Options <- PlainOptions
  MaxCancels = 0
SPECIFICATION Spec
INVARIANT InterruptCaught
