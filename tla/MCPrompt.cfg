\* Two lines, each more than the pipe to the process holds; one cancellation.
CONSTANTS
  Pattern <- MCPattern
  Answers <- MCAnswers
  InCap = 0
  OutCap = 2
  ChunkSize = 2
  MaxSends = 2
  MaxCancels = 1
SPECIFICATION FairSpec
CHECK_DEADLOCK FALSE
INVARIANTS
  TypeOK
PROPERTIES
  StreamKept
  CallsEnd
