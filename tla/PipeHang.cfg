\* `async with` on a pipeline of two commands that is never cancelled.
CONSTANTS
  N = 2
  Options <- EnteredOptions
  MaxCancels = 0
SPECIFICATION Spec
INVARIANT AnnouncesOrRaises
