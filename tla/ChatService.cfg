CONSTANTS
  Request = {r1, r2}
  Run = {1, 2, 3}
  NULL = NULL
  Service = {blue, green}
  Selective = {r2}
  Documented = {r2}
  RunStates = {"running", "completed"}
  Retention = 3
  Margin = 1
  Delivery = 1
  MaxLeaders = 2
  MaxClock = 5
  MaxCrashes = 1
SPECIFICATION Spec
CONSTRAINT InCorner
SYMMETRY ServiceSymmetry
INVARIANTS OneRunPerTurn SentInsideTheWindow GrantFollowsRun TurnNamesItsRun PostsCarryTheGrant
PROPERTY NothingSentWhileHeld
CHECK_DEADLOCK FALSE
