\* A run of each kind of command, with up to three cancellations and the timer.
CONSTANTS
  Helper = {5, 6}
  Options <- MCOptions
  MaxCancels = 3
SPECIFICATION FairSpec
INVARIANTS
  TypeOK
  NeverAbandoned
  CancelOnceReaps
  KillNeedsCancel
  NoTaskLeft
  TimerWindow
  StopTold
  FailureTold
PROPERTIES
  StopEnds
