CONSTANTS
  Metadata = {m1, m2, bad}
  NoMetadata = NoMetadata
  Parsable = {m1, m2}
  Reader = {r1, r2}
  Writer = Writer
  Object = {o1, o2}
  Null = Null
SPECIFICATION Spec
PROPERTY NullOnlyWhenEmpty
