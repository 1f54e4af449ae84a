CONSTANTS
  Order = {o1, o2}
  User = {u1}
  Worker = {w1}
  LinkCap = 1
  BufSize = 1
  IOFails = FALSE
SPECIFICATION Spec
INVARIANT NoSendOnClosed
