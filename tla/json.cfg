SPECIFICATION Spec
CONSTANTS
  a = a
  x = x
  Empty = Empty
  Part <- MCPart
  Scalar = {x}
  Input <- MCInput
  Value <- MCValue
INVARIANTS TypeOK KeepsOthers
PROPERTIES SetsExactly ThrowsUnchanged
CHECK_DEADLOCK FALSE
