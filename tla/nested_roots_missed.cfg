SPECIFICATION Spec
CONSTANTS
  MaxTasks = 4
  MaxAccesses = 3
  Locks = {}
  RootCallers = {0, 1, 2, 3}
  SiblingParents = {}
  LeaveChildren = FALSE
INVARIANTS NoMissedRace
