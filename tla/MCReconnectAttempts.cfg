SPECIFICATION FairSpec
CONSTANTS
  MaxAttempts = 1
  MaxSessions = 3
  ConnectErrors = FALSE
  Loops = {heartbeat, segments}
  ErrCap = 2
INVARIANT AttemptsBounded
CHECK_DEADLOCK FALSE
