SPECIFICATION Spec
CONSTANTS
  MaxTasks = 4
  MaxAccesses = 3
  Locks = {}
  RootCallers = {0}
  SiblingParents = {}
  LeaveChildren = TRUE
INVARIANTS NoMissedRace
