SPECIFICATION FairSpec
CONSTANTS
  N = 2
  Deps <- ChainDeps
  MaxAttempts <- OneAttempt
  Holder = {h1}
  NoHolder = NoHolder
  Exclusive = TRUE
  MaxParallel = 1
  SharedWorktree = FALSE
  Isolated = {}
  CanCommit = {}
  CanCancel = {1}
  Registered = {1, 2}
  Unknown = {}
  StaleDetection = FALSE
  RetryCommitted = FALSE
  HeartbeatTimer = FALSE
  Restarts = TRUE
  HasSignal = FALSE
  Answers = {"success", "failed", "cancelled", "retry", "unclear"}
  MaxOpened = 4
  MaxCrashes = 0
PROPERTIES
  StuckRunEnds
CHECK_DEADLOCK FALSE
