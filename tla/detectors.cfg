SPECIFICATION Spec
CONSTANTS
  MaxTasks = 4
  MaxAccesses = 4
  Locks = {"l"}
  Siblings = TRUE
  LockOrder = FALSE
  MaxSegments = 2
INVARIANTS TypeOK StrandsExact StepsExact CRacerExact PTracerExact SPD3FindsWrites StackBalanced StatesDeletedOnce
CONSTRAINT Undecided
ACTION_CONSTRAINT EarlyIdle
CHECK_DEADLOCK FALSE
