SPECIFICATION FairServerSpec
CONSTANTS
  Shipping = {"file"}
  CallFails = FALSE
  Threshold = 1
  Form = {}
  Granted = {}
  MaxRows = 0
  Handling = {}
PROPERTY PastTasksRestored
