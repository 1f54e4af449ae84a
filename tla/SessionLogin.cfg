SPECIFICATION SessionSpec
CONSTANTS
  Login = {"ann", "bob"}
  Password = {"p1", "p2"}
  Form <- MCPlainForm
  Order = {o1}
  Id = {i1, i2}
  i1 = i1
  Client = {c1, c2}
  CallFails = FALSE
INVARIANT NoInternalError
