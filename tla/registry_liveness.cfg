CONSTANTS
  TicksPerSecond = 1
  IntMax = 100
  ServiceId = {s1}
  Reader = {r1, r2}
  Monitor = Monitor
  Timeout = {1}
  Stamp = {0, 1}
  Metadata = {m1}
  NoMetadata = NoMetadata
  Malformed = Malformed
  MaxEntries = 2
  MaxNow = 3
SPECIFICATION FairSpec
PROPERTIES
  OverdueLeaves
  CallReturns
  AnswerEnds
\* the process may be terminated
CHECK_DEADLOCK FALSE
