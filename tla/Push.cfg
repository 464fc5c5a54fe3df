CONSTANTS
  Installation = {i1, i2}
  Session = {s1, s2}
  NULL = NULL
  Process = {p1, p2}
  Registration = {q1}
  MaxTurns = 1
  MaxNotices = 2
  MaxDevices = 1
  MaxAttempts = 2
  NoticeCap = 1
  Minute = 1
  Hour = 2
  Day = 2
  Retention = 4
  BatchSize = 1
  PassSize = 1
  Idle = 6
  Absolute = 6
  RetryAfters = {3}
  PassLimit = 1
  MaxClock = 6
  MaxGeneration = 2
  MaxFailures = 1
SPECIFICATION Spec
CONSTRAINT InSafetyCorner
INVARIANTS PendingIsCurrent OnlyConsented DispatchIsExclusive OnePushAfterRevocation SentOnce
SYMMETRY Symmetry
CHECK_DEADLOCK FALSE
