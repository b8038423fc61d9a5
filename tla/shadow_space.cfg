SPECIFICATION MCSpec
CONSTANTS
  c1 = c1
  c2 = c2
  c3 = c3
  c4 = c4
  Call = {c1, c2, c3, c4}
  Address = {0, 1, 2}
  SS_PRIMARY_TABLE_ENTRIES = 2
  SS_SEC_TABLE_ENTRIES = 2
  NULL = NULL
INVARIANTS TypeOK OneTablePerPage OneThreadPerWord ConflictsReported
PROPERTIES ImplementsMemory EveryCallReturns
