SPECIFICATION FairSpec
CONSTANTS
  N = 3
  Deps <- ForkDeps
  MaxAttempts <- ForkAttempts
  Holder = {h1}
  NoHolder = NoHolder
  Exclusive = TRUE
  MaxParallel = 2
  SharedWorktree = FALSE
  Isolated = {}
  CanCommit = {}
  CanCancel = {1}
  Registered = {1, 2}
  Unknown = {3}
  StaleDetection = FALSE
  RetryCommitted = FALSE
  HeartbeatTimer = TRUE
  Restarts = TRUE
  HasSignal = TRUE
  Answers = {"success", "failed", "cancelled", "retry", "unclear"}
  MaxOpened = 4
  MaxCrashes = 1
INVARIANTS
  EventsFollowRecords
PROPERTIES
  ImplementsStepGraph
  SettlesOrDeadEnd
CHECK_DEADLOCK FALSE
