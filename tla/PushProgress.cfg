CONSTANTS
  Installation = {i1, i2}
  Session = {s1}
  NULL = NULL
  Process = {p1}
  Registration = {q1}
  MaxTurns = 2
  MaxNotices = 1
  MaxDevices = 2
  MaxAttempts = 1
  NoticeCap = 1
  Minute = 1
  Hour = 2
  Day = 2
  Retention = 4
  BatchSize = 1
  PassSize = 1
  Idle = 2
  Absolute = 2
  RetryAfters = {1}
  PassLimit = 1
  MaxClock = 1
  MaxGeneration = 1
  MaxFailures = 1
SPECIFICATION FairSpec
CONSTRAINT InProgressCorner
PROPERTIES RepliesAreQueued DueIsServed
CHECK_DEADLOCK FALSE
