SPECIFICATION Spec
CONSTANTS
  t1 = t1
  t2 = t2
  t3 = t3
  Nil = Nil
  Base = Base
  NULL = NULL
  TRANSACTION_ID_START = 100
  MaxUpdates <- MCMaxUpdates
  Txns <- MCTxns
  Rows <- MCRows
  NewValues <- MCNewValues
  Values <- MCValues
  Initial <- MCInitial
  Targets <- MCTargets
INVARIANT NullConflictsDetected
CHECK_DEADLOCK FALSE
