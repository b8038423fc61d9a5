SPECIFICATION MCSpec
CONSTANTS
  MaxTasks = 7
  MaxAccesses = 4
  Locks = {"l"}
  RootCallers = {0, 1, 2, 3, 4}
  SiblingParents = {"running", "waiting", "rootwait"}
  LeaveChildren = TRUE
INVARIANTS OrderingIsExact DeadIsPast SiblingRacesFound UniquePaths RecordedClocksArePast JoinsetAcyclic
PROPERTIES VerdictsAreStable ReportIsConcurrent
CHECK_DEADLOCK FALSE
