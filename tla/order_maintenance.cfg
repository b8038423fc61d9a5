SPECIFICATION MCSpec
CONSTANTS
  NUM_THREADS = 2
  MaxCalls = 10
  Few = 3
  Many = 10
  MaxNodes = 11
  MAX_LEVEL = 3
  SUBLIST_SIZE = 2
  NODE_INTERVAL = 4
  HeavyGap = 2
INVARIANTS TypeOK RelabelExclusive
PROPERTIES ImplementsOrderList EveryInsertReturns
