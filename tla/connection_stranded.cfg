CONSTANTS
  User = User
  Event = Event
  MaxConnects = 2
SPECIFICATION Spec
INVARIANT NeverStranded
