SPECIFICATION Spec
CONSTANTS
  MaxTasks = 4
  MaxAccesses = 3
  Locks = {"l"}
  Siblings = TRUE
  LockOrder = TRUE
  MaxSegments = 2
  PointerTask = 21760
  PointerClock = 1099511627
INVARIANTS TypeOK ClocksExact WriteRacesFound ReportsAreGenuine
CONSTRAINT Undecided
CHECK_DEADLOCK FALSE
