CONSTANTS
  Order = {o1}
  User = {u1}
  Worker = {w1}
  LinkCap = 1
  BufSize = 1
  IOFails = FALSE
  Handler = {h1}
  Points = {5}
  Begins = "REGISTERED"
  CallFails = FALSE
SPECIFICATION FairOrderSpec
PROPERTY OrderSettles
