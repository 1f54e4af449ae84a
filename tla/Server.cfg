SPECIFICATION FairServerSpec
CONSTANTS
  Shipping = {"file", "no file", "no directory"}
  CallFails = TRUE
  Threshold = 1
  Form <- MCForm
  Granted <- MCGranted
  MaxRows = 2
  Handling <- MCHandling
INVARIANTS ServerTypeOK ReadAsWritten CompressedIfLong ToldAsDone ShownAddsUp TyposRefused LogTellsStatus TablesFirst
PROPERTIES StartDecides ShutdownEnds ServerPoolSpec
