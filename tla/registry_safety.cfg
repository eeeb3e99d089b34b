CONSTANTS
  TicksPerSecond = 2
  IntMax = 100
  ServiceId = {s1, s2}
  Reader = {r1}
  Monitor = Monitor
  Timeout = {1}
  Stamp = {0, 1, 4}
  Metadata = {m1}
  NoMetadata = NoMetadata
  Malformed = Malformed
  MaxEntries = 2
  MaxNow = 4
SPECIFICATION Spec
SYMMETRY Symmetry
INVARIANT TypeOK
PROPERTIES
  DepartureJustified
  SnapshotExact
  ScanThorough
  ImplementsMembership
\* the process may be terminated
CHECK_DEADLOCK FALSE
