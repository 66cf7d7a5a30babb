\* An output file object with close=True.
CONSTANTS
  Sub = {1}
  Options <- FileOptions
SPECIFICATION Spec
INVARIANTS
  ClosedAfterLaunch
