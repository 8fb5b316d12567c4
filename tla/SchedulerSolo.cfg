SPECIFICATION Spec
CONSTANTS
  N = 3
  Deps <- ForkDeps
  MaxAttempts <- ForkAttempts
  Holder = {h1, h2}
  NoHolder = NoHolder
  Exclusive = TRUE
  MaxParallel = 2
  SharedWorktree = TRUE
  Isolated = {3}
  CanCommit = {1}
  CanCancel = {1}
  Registered = {1, 2, 3}
  Unknown = {}
  StaleDetection = TRUE
  RetryCommitted = FALSE
  HeartbeatTimer = TRUE
  Restarts = TRUE
  HasSignal = TRUE
  Answers = {"success", "failed", "cancelled", "retry", "unclear"}
  MaxOpened = 4
  MaxCrashes = 1
INVARIANTS
  TypeOK
  NoDuplicateWork
  MutableAlone
  OneOutcome
  DependentsAfterSuccess
  CompletedMeansAllSucceeded
SYMMETRY AnyHolder
CHECK_DEADLOCK FALSE
