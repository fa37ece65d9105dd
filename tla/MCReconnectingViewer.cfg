SPECIFICATION FairSpec
CONSTANTS
  MaxAttempts = 1
  MaxSessions = 3
  ConnectErrors = TRUE
  Loops = {heartbeat, segments}
  ErrCap = 2
INVARIANTS TypeOK LoopsNeverBlock NeverGivesUpEarly FinishedIsNotActive
PROPERTIES OnlyRetryLeavesTable EverythingEnds StoppedViewerEnds ImplementsWorkerLoop
CHECK_DEADLOCK FALSE
