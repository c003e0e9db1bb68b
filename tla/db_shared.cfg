CONSTANTS
  a = a
  b = b
  Nobody = Nobody
  Threads <- TwoThreads
  MaxOperations = 3
  RowsPerOperation = 2
SPECIFICATION FairSpec
INVARIANTS
  TypeOK
PROPERTIES
  Isolation
  Wedging
  DroppedTablesStay
  EveryCallReturns
