\* Channels that hold two items, inputs of up to four.
CONSTANTS
  Cap = 2
  Options <- MCOptions
SPECIFICATION FairSpec
INVARIANTS
  TypeOK
  InputDelivered
  SinkExact
  EofToldOnce
PROPERTIES
  Completes
