CONSTANTS
  Request = {r1}
  Run = {1, 2}
  NULL = NULL
  Service = {web}
  Selective = {r1}
  Documented = {}
  RunStates = {"completed"}
  Retention = 3
  Margin = 1
  Delivery = 1
  MaxLeaders = 2
  MaxClock = 0
  MaxCrashes = 0
SPECIFICATION Spec
INVARIANT RefusalProvesNoRun
CHECK_DEADLOCK FALSE
