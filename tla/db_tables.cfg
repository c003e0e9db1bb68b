CONSTANTS
  a = a
  b = b
  Nobody = Nobody
  Threads <- TwoThreads
  MaxOperations = 2
  RowsPerOperation = 0
SPECIFICATION Spec
INVARIANTS
  CreateTableSucceeds
