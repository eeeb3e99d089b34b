CONSTANTS
  User = User
  Event = Event
  MaxConnects = 1
SPECIFICATION FairSpec
INVARIANTS
  TypeOK
  NeverStranded
  OneStalePresence
PROPERTIES
  ConsumesInTheEnd
  HeardOf
