CONSTANTS
  Request = {r1, r2}
  Run = {1, 2}
  NULL = NULL
  Service = {web}
  Selective = {}
  Documented = {}
  RunStates = {"completed"}
  Retention = 3
  Margin = 1
  Delivery = 1
  MaxLeaders = 2
  MaxClock = 0
  MaxCrashes = 0
SPECIFICATION Spec
PROPERTY ObserverNeverRetries
CHECK_DEADLOCK FALSE
