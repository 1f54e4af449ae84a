CONSTANTS
  Order = {o1}
  User = {u1, u2}
  Worker = {w1, w2}
  LinkCap = 1
  BufSize = 1
  IOFails = TRUE
  Handler = {h1, h2}
  Points = {5}
  Begins = "absent"
  CallFails = TRUE
SPECIFICATION OrderSpec
SYMMETRY Symmetry
INVARIANTS OrderTypeOK CreditedAsListed PointsAsListed ListedAsCalculated TaskMatchesRow
PROPERTIES StatusAdvances Spec
