CONSTANTS
  Order = {o1}
  User = {u1}
  Points = {2}
  Sum = {1, 2}
  Client = {c1}
  MaxOps = 2
SPECIFICATION StorageSpec
PROPERTY RefusedOnlyIfShort
CHECK_DEADLOCK FALSE
