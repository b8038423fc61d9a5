SPECIFICATION Spec
CONSTANTS
  MaxTasks = 4
  MaxAccesses = 2
  Locks = {}
  Siblings = FALSE
  LockOrder = FALSE
  MaxSegments = 2
INVARIANTS NoMissedRace
