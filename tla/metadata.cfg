CONSTANTS
  Metadata = {m1, bad}
  NoMetadata = NoMetadata
  Parsable = {m1}
  Reader = {r1, r2}
  Writer = Writer
  Object = {o1, o2}
  Null = Null
SPECIFICATION FairSpec
INVARIANTS
  TypeOK
  CacheCoherent
PROPERTIES
  ReturnsCurrentJson
  CallEnds
  UpdateEnds
