CONSTANTS
  TicksPerSecond = 2
  IntMax = 100
  ServiceId = {s1, s2}
  Reader = {r1}
  Monitor = Monitor
  Timeout = {1}
  Stamp = {0, 1, 2}
  Metadata = {m1}
  NoMetadata = NoMetadata
  Malformed = Malformed
  MaxEntries = 2
  MaxNow = 5
SPECIFICATION Spec
PROPERTY OnlyExpiredErased
CHECK_DEADLOCK FALSE
