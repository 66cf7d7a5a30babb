\* Three commands, the middle one without a future, and up to two cancellations.
CONSTANTS
  N = 3
  Options <- MCOptions
  MaxCancels = 2
SPECIFICATION FairSpec
INVARIANTS
  TypeOK
  NoCommandLeft
  PipesClosed
  ZeroMeansAllZero
  CancelNeverSuccess
  BodyFailureTold
PROPERTIES
  GraceKept
  StopEnds
