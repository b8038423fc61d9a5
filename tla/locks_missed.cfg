SPECIFICATION Spec
CONSTANTS
  MaxTasks = 4
  MaxAccesses = 3
  Locks = {"l"}
  RootCallers = {0}
  SiblingParents = {}
  LeaveChildren = FALSE
INVARIANTS NoMissedRace
CONSTRAINT NoSpawnUnderLock
CHECK_DEADLOCK FALSE
