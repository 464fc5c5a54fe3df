SPECIFICATION ProjectSpec
CONSTANTS
 Revisions = {"a"}
 Messages = 2
 MaxTasks = 2
 Automatic = FALSE
INVARIANT DeployedIsReviewed
CHECK_DEADLOCK FALSE
