CONSTANTS
  Installation = {i1}
  Session = {s1}
  NULL = NULL
  Process = {p1}
  Registration = {q1}
  MaxTurns = 0
  MaxNotices = 2
  MaxDevices = 1
  MaxAttempts = 2
  NoticeCap = 1
  Minute = 1
  Hour = 2
  Day = 2
  Retention = 4
  BatchSize = 1
  PassSize = 1
  Idle = 3
  Absolute = 3
  RetryAfters = {1}
  PassLimit = 1
  MaxClock = 1
  MaxGeneration = 1
  MaxFailures = 0
SPECIFICATION Spec
INVARIANTS TwoNoticesADay
CHECK_DEADLOCK FALSE
