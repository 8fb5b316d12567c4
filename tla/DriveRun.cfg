SPECIFICATION Spec
CONSTANTS
  N = 2
  Cli = {c1, c2}
  Nobody = Nobody
  Dead = Dead
  Scenarios <- Some
  MaxResumes = 2
SYMMETRY AnyCli
INVARIANTS
  WorkCommittedBeforeDone
  GivenOnce
  DoneWasVerified
  OwnWorkOnly
  CompletedMeansDone
  FilesCommitted
CHECK_DEADLOCK FALSE
