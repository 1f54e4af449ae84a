CONSTANTS
  Order = {o1, o2}
  User = {u1}
  Worker = {w1}
  LinkCap = 1
  BufSize = 1
  IOFails = TRUE
SPECIFICATION FairSpec
INVARIANTS TypeOK NoLostWakeup OneCopy NoZombie NothingMislaid HandsPassOn
PROPERTIES QueueDrains PoolStops PoolLifeSpec
