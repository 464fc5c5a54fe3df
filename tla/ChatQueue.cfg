CONSTANTS
  Request = {r1, r2, r3}
  Run = {1, 2}
  NULL = NULL
  Service = {web}
  Selective = {}
  Documented = {}
  RunStates = {"running", "completed"}
  Retention = 3
  Margin = 1
  Delivery = 1
  MaxLeaders = 2
  MaxClock = 0
  MaxCrashes = 1
SPECIFICATION Spec
CONSTRAINT InQueueCorner
SYMMETRY Symmetry
INVARIANTS TypeOK OutcomeIsTheRuns HeadOfQueue WithdrawnWasNeverBegun
PROPERTIES RowsAreMonotone StoreImplemented QueueImplemented
CHECK_DEADLOCK FALSE
