SPECIFICATION Spec
CONSTANT N = 3
INVARIANTS TypeOK NothingLeft ReportsTruth AsksInTurn
PROPERTY Returns
CHECK_DEADLOCK FALSE
