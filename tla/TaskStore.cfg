SPECIFICATION FairSpec
CONSTANTS
  cli = cli
  chat = chat
  drive = drive
  none = none
  Caller <- Pair
  Process <- Pair
  Runs <- OwnProcess
  Mortal <- Doomed
  NoCaller <- none
  MaxTitle = 2
  MaxTasks = 2
  MaxUpdates = 2
  MaxMoves = 1
INVARIANTS
  MutualExclusion
  IdsDistinct
  NoTaskLost
PROPERTY
  CreatesReturn
CHECK_DEADLOCK FALSE
