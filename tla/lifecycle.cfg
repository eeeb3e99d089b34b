SPECIFICATION Spec
CHECK_DEADLOCK FALSE
INVARIANTS TypeOK OneMoreRound LoopEndsFirst
PROPERTIES DestructionEnds DetachedEnd
