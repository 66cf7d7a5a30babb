\* Every kind of descriptor, and every failure of the set-up and of the launch.
CONSTANTS
  Sub = {1, 2}
  Options <- MCOptions
SPECIFICATION Spec
INVARIANTS
  TypeOK
  ClosedOnce
  ForeignKept
  KeptForLaunch
  EndOfFileSeen
  NothingLeaks
