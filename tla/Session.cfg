SPECIFICATION FairSessionSpec
CONSTANTS
  Login = {"ann"}
  Password = {"p1", "p2"}
  Form <- MCForm
  Order = {o1, o2}
  Id = {i1, i2, i3}
  i1 = i1
  Client = {c1, c2}
  CallFails = TRUE
INVARIANTS SessionTypeOK Acknowledged TokensEarned AnswersStayTrue
PROPERTY RequestsEnd
