SPECIFICATION Spec
CONSTANTS
  MaxTasks = 5
  MaxAccesses = 4
  Locks = {}
  RootCallers = {0}
  SiblingParents = {}
  LeaveChildren = FALSE
INVARIANTS TypeOK NoFalseReport NoMissedRace
PROPERTIES ImplementsOracle
CONSTRAINT LateReportEnds
