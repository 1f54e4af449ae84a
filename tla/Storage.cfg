CONSTANTS
  Order = {o1}
  User = {u1}
  Points = {2}
  Sum <- MCSum
  Client = {c1, c2}
  MaxOps = 3
SPECIFICATION FairStorageSpec
INVARIANTS TxTypeOK BooksBalance AppliedOnce ReportNotShort
PROPERTIES LedgerSpec OperationsEnd
CHECK_DEADLOCK FALSE
